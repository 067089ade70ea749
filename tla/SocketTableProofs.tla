-------------------------- MODULE SocketTableProofs --------------------------
(***************************************************************************)
(* Theorems about SocketTable, for every number of slots, ctrls and every  *)
(* mailbox size: the types of its variables, that a socket belongs to one  *)
(* ctrl only, that a free slot has no pcb, and, in calm behaviours, that a *)
(* slot is clean when it is taken, that requests and events are about the  *)
(* socket they are meant for, and that an open one is held.                *)
(***************************************************************************)
EXTENDS SocketTable, SequenceTheorems, TLAPS

CbType == [ctrl : Ctrls \union {NoCtrl}, ev : Events, tag : Nat, origin : Nat,
           run : BOOLEAN]

LEMMA SocksFacts ==
    /\ 0 \in Socks
    /\ Socks \subseteq Int
    /\ -1 \notin Socks
    /\ \A s \in Socks : (IF s + 1 >= MAX_SOCK_NUM THEN 0 ELSE s + 1) \in Socks
BY ConstantsAssumption DEF Socks

LEMMA CallersFacts ==
    /\ \A c \in Ctrls : Locked(c) \in Callers /\ Of(Locked(c)) = c
    /\ \A o \in Callers : Of(o) \in Ctrls
BY ConstantsAssumption DEF Callers, Locked, Of

LEMMA NoCbType == NoCb \in CbType
BY DEF NoCb, CbType, Events

\* An event is delivered to a ctrl or dropped.
LEMMA DeliverType ==
    ASSUME NEW c, NEW ev \in Events, NEW t \in Nat, NEW from \in Nat,
           Deliver(c, ev, t, from)
    PROVE  cb' \in CbType
BY NoCbType DEF Deliver, CbType

LEMMA NotifyType ==
    ASSUME TypeOK, NEW s \in Socks, NEW ev \in Events, NEW from \in Nat,
           Notify(s, ev, from)
    PROVE  cb' \in CbType
<1>1. tag[s] \in Nat BY DEF TypeOK
<1> QED BY <1>1, DeliverType DEF Notify

LEMMA TcpErrorType ==
    ASSUME TypeOK, NEW s \in Socks, NEW from \in Nat, TcpError(s, from)
    PROVE  cb' \in CbType /\ remote_close' \in [Socks -> BOOLEAN]
<1>1. "ERROR" \in Events BY DEF Events
<1>2. cb' \in CbType BY <1>1, NotifyType DEF TcpError
<1>3. remote_close' \in [Socks -> BOOLEAN] BY DEF TcpError, TypeOK
<1> QED BY <1>2, <1>3

LEMMA PostType ==
    ASSUME TypeOK, NEW id \in Requests, NEW s \in Socks, NEW n \in BOOLEAN,
           NEW t \in Nat, Post(id, s, n, t)
    PROVE  mailbox' \in Seq(Message)
<1>1. [id |-> id, sock |-> s, notify |-> n, own |-> t] \in Message
      BY DEF Message
<1> QED BY <1>1, AppendProperties DEF Post, TypeOK

LEMMA TakeType ==
    ASSUME TypeOK, NEW id, Take(id)
    PROVE  /\ mailbox' \in Seq(Message)
           /\ Head(mailbox) \in Message
           /\ Head(mailbox).sock \in Socks
           /\ Head(mailbox).own \in Nat
           /\ Head(mailbox).notify \in BOOLEAN
<1>1. mailbox \in Seq(Message) /\ mailbox # <<>> BY DEF TypeOK, Take
<1>2. Head(mailbox) \in Message /\ Tail(mailbox) \in Seq(Message)
      BY <1>1, HeadTailProperties
<1> QED BY <1>2 DEF Take, Message

LEMMA FinishType ==
    ASSUME TypeOK, NEW c \in Callers, Finish(c)
    PROVE  /\ pc' \in [Callers -> Steps]
           /\ thr' \in [Callers -> Threads]
           /\ mode' \in [Callers -> Modes \union {"none"}]
           /\ slot' \in [Callers -> Socks]
BY SocksFacts DEF Finish, Goto, TypeOK, Steps, Threads

LEMMA GotoType ==
    ASSUME TypeOK, NEW c \in Callers, NEW step \in Steps, Goto(c, step)
    PROVE  pc' \in [Callers -> Steps]
BY DEF Goto, TypeOK

LEMMA InitTypeOK == Init => TypeOK
<1> SUFFICES ASSUME Init PROVE TypeOK
    OBVIOUS
<1>1. cb \in CbType BY NoCbType DEF Init
<1>2. mailbox \in Seq(Message) BY DEF Init
<1>3. /\ slot \in [Callers -> Socks]
      /\ next_socket_index \in Socks
      /\ socket_tag \in Nat
      BY SocksFacts DEF Init
<1>4. /\ pc \in [Callers -> Steps]
      /\ thr \in [Callers -> Threads]
      /\ pcb \in [Socks -> PcbStates]
      BY DEF Init, Steps, Threads, PcbStates
<1> QED BY <1>1, <1>2, <1>3, <1>4 DEF Init, TypeOK, CbType

-----------------------------------------------------------------------------
\* net_lwip_create_socket takes a slot, or finds none.
LEMMA FoundType ==
    ASSUME TypeOK, NEW o \in Callers, NEW m \in Modes \union {"none"}, FoundSlot(o, m)
    PROVE  /\ pc' \in [Callers -> Steps]
           /\ slot' \in [Callers -> Socks]
           /\ next_socket_index' \in Socks
           /\ socket_tag' \in Nat
           /\ ctag' \in [Ctrls -> Nat]
           /\ in_use' \in [Socks -> BOOLEAN]
           /\ tag' \in [Socks -> Nat]
           /\ param' \in [Socks -> Ctrls \union {NoCtrl}]
           /\ is_tcp' \in [Socks -> BOOLEAN]
<1>1. PICK s \in Socks : /\ TakeSlot(Of(o), s, m)
                         /\ slot' = [slot EXCEPT ![o] = s]
                         /\ Goto(o, "created")
      BY DEF FoundSlot
<1>2. pc' \in [Callers -> Steps] BY <1>1, GotoType DEF Steps
<1>3. next_socket_index' \in Socks BY <1>1, SocksFacts DEF TakeSlot
<1> DEFINE c == Of(o)
<1>4. c \in Ctrls BY CallersFacts
<1>5. TakeSlot(c, s, m) /\ slot' = [slot EXCEPT ![o] = s] BY <1>1
<1> HIDE DEF c
<1> DEFINE n == socket_tag + 1
<1>n. n \in Nat BY DEF TypeOK
<1>e. socket_tag' = n /\ ctag' = [ctag EXCEPT ![c] = n] /\ tag' = [tag EXCEPT ![s] = n]
      BY <1>5 DEF TakeSlot
<1> HIDE DEF n
<1>6. socket_tag' \in Nat /\ ctag' \in [Ctrls -> Nat] /\ tag' \in [Socks -> Nat]
      BY <1>n, <1>e DEF TypeOK
<1>7. /\ in_use' \in [Socks -> BOOLEAN]
      /\ param' \in [Socks -> Ctrls \union {NoCtrl}]
      /\ slot' \in [Callers -> Socks]
      BY <1>4, <1>5 DEF TakeSlot, TypeOK
<1> DEFINE b == m # "udp"
<1>8. is_tcp' = [is_tcp EXCEPT ![s] = b] /\ b \in BOOLEAN BY <1>5 DEF TakeSlot
<1> HIDE DEF b
<1>9. is_tcp' \in [Socks -> BOOLEAN] BY <1>8 DEF TypeOK
<1> QED BY <1>2, <1>3, <1>6, <1>7, <1>9

LEMMA NoSlotType ==
    ASSUME TypeOK, NEW c \in Ctrls, NoSlot(c)
    PROVE  /\ next_socket_index' \in Socks
           /\ socket_tag' \in Nat
           /\ ctag' \in [Ctrls -> Nat]
           /\ in_use' \in [Socks -> BOOLEAN]
           /\ tag' \in [Socks -> Nat]
           /\ param' \in [Socks -> Ctrls \union {NoCtrl}]
           /\ is_tcp' \in [Socks -> BOOLEAN]
BY DEF NoSlot, TypeOK

LEMMA StartCreateType ==
    ASSUME TypeOK, NEW o \in Callers, NEW t \in Threads, StartCreate(o, t)
    PROVE  TypeOK'
<1>1. thr' \in [Callers -> Threads] BY DEF StartCreate, TypeOK
<1>2. PICK m \in Modes :
          /\ mode' = [mode EXCEPT ![o] = m]
          /\ \/ FoundSlot(o, m)
             \/ NoSlot(Of(o)) /\ Goto(o, "clean") /\ UNCHANGED slot
      BY DEF StartCreate
<1>3. mode' \in [Callers -> Modes \union {"none"}] BY <1>2 DEF TypeOK
<1>4. crossed' \in BOOLEAN BY DEF StartCreate, MayStart, TypeOK
<1>5. CreateLeaves BY DEF StartCreate
<1>6. CASE FoundSlot(o, m)
  <2> QED BY <1>1, <1>3, <1>4, <1>5, <1>6, FoundType DEF CreateLeaves, TypeOK
<1>7. CASE NoSlot(Of(o)) /\ Goto(o, "clean") /\ UNCHANGED slot
  <2>1. pc' \in [Callers -> Steps] BY <1>7, GotoType DEF Steps
  <2>2. Of(o) \in Ctrls BY CallersFacts
  <2> QED BY <1>1, <1>3, <1>4, <1>5, <1>7, <2>1, <2>2, NoSlotType DEF CreateLeaves, TypeOK
<1> QED BY <1>2, <1>6, <1>7

LEMMA RetryCreateType ==
    ASSUME TypeOK, NEW o \in Callers, RetryCreate(o)
    PROVE  TypeOK'
<1>1. CreateLeaves /\ UNCHANGED crossed BY DEF RetryCreate
<1>2. CASE FoundSlot(o, mode[o]) /\ UNCHANGED <<thr, mode>>
  <2>1. mode[o] \in Modes \union {"none"} BY DEF TypeOK
  <2> QED BY <1>1, <1>2, <2>1, FoundType DEF CreateLeaves, TypeOK
<1>3. CASE NoSlot(Of(o)) /\ Finish(o)
  <2>1. Of(o) \in Ctrls BY CallersFacts
  <2> QED BY <1>1, <1>3, <2>1, NoSlotType, FinishType DEF CreateLeaves, TypeOK
<1> QED BY <1>2, <1>3 DEF RetryCreate

\* The operations that begin with the number the ctrl has.
LEMMA StartType ==
    ASSUME TypeOK, NEW o \in Callers, NEW t \in Threads,
           StartCreate(o, t) \/ Disconnect(o, t) \/ Send(o, t) \/ Close(o, t) \/ ForceClose(o, t)
    PROVE  TypeOK'
<1> USE DEF slotVars
<1>1. CASE StartCreate(o, t) BY <1>1, StartCreateType
<1>2. ASSUME NEW step \in {"disc", "send", "force", "drop", "sweep"},
             MayStart(o, t), socket_id[Of(o)] \in Socks, Begin(o, t, step)
      PROVE  TypeOK'
  <2>1. step \in Steps BY DEF Steps
  <2>2. pc' \in [Callers -> Steps] BY <1>2, <2>1, GotoType DEF Begin
  <2>3. crossed' \in BOOLEAN BY <1>2 DEF MayStart, TypeOK
  <2>4. /\ thr' \in [Callers -> Threads]
        /\ slot' \in [Callers -> Socks]
        BY <1>2 DEF Begin, TypeOK
  <2> QED BY <1>2, <2>2, <2>3, <2>4 DEF Begin, TypeOK
<1>3. CASE Disconnect(o, t) BY <1>2, <1>3 DEF Disconnect, CheckSocket
<1>4. CASE Send(o, t) BY <1>2, <1>4 DEF Send, CheckSocket
<1>5. CASE Close(o, t) BY <1>2, <1>5 DEF Close
<1>6. CASE ForceClose(o, t) BY <1>2, <1>6 DEF ForceClose
<1> QED BY <1>1, <1>3, <1>4, <1>5, <1>6

\* The steps of an operation under way.
LEMMA OpType ==
    ASSUME TypeOK, NEW o \in Callers,
           \/ RetryCreate(o) \/ CreatePost(o) \/ OpenCheck(o) \/ OpenPost(o) \/ CleanScan(o)
           \/ CleanSlot(o) \/ CleanDone(o) \/ ForceTest(o) \/ MarkClosing(o)
           \/ ClosePost(o) \/ Drop(o) \/ SendPost(o)
    PROVE  TypeOK'
<1> USE DEF slotVars, history
<1> DEFINE c == Of(o)
<1>a. /\ {"opened", "post_open", "force", "cleaning", "sweeping", "retry", "disc_post",
          "cleaning_mark", "sweeping_mark", "cleaning_post", "sweeping_post",
          "force_mark", "force_post", "drop", "selflock"} \subseteq Steps
      /\ {"TX", "CREATE", "CONNECT", "LISTEN", "CLOSE"} \subseteq Requests
      BY DEF Steps, Requests
<1>c. c \in Ctrls BY CallersFacts
<1> HIDE DEF c
<1>s. slot[o] \in Socks /\ ctag[c] \in Nat /\ tag[slot[o]] \in Nat BY <1>c DEF TypeOK
<1>0. CASE RetryCreate(o) BY <1>0, RetryCreateType
<1>1. CASE CreatePost(o)
  <2>1. pc' \in [Callers -> Steps] BY <1>1, <1>a, GotoType DEF CreatePost
  <2>2. mailbox' \in Seq(Message)
    <3>1. CASE Post("CREATE", slot[o], FALSE, ctag[c]) BY <3>1, <1>s, <1>a, PostType
    <3>2. CASE UNCHANGED mailbox BY <3>2 DEF TypeOK
    <3> QED BY <1>1, <3>1, <3>2 DEF CreatePost, c
  <2>3. /\ pcb' \in [Socks -> PcbStates]
        /\ own' \in [Socks -> Nat]
        /\ remote_close' \in [Socks -> BOOLEAN]
        /\ socket_id' \in [Ctrls -> Socks \union {-1}]
        BY <1>1, <1>s, <1>c DEF CreatePost, NewPcb, TypeOK, PcbStates, c
  <2> QED BY <1>1, <2>1, <2>2, <2>3 DEF CreatePost, TypeOK
<1>2. CASE OpenCheck(o)
  <2>1. /\ pc' \in [Callers -> Steps]
        /\ thr' \in [Callers -> Threads]
        /\ mode' \in [Callers -> Modes \union {"none"}]
        /\ slot' \in [Callers -> Socks]
        BY <1>2, <1>a, GotoType, FinishType DEF OpenCheck, TypeOK
  <2> QED BY <1>2, <2>1 DEF OpenCheck, TypeOK
<1>3. CASE OpenPost(o)
  <2>1. /\ pc' \in [Callers -> Steps]
        /\ thr' \in [Callers -> Threads]
        /\ mode' \in [Callers -> Modes \union {"none"}]
        /\ slot' \in [Callers -> Socks]
        BY <1>3, FinishType DEF OpenPost
  <2>2. mailbox' \in Seq(Message) BY <1>3, <1>s, <1>a, PostType DEF OpenPost, c
  <2> QED BY <1>3, <2>1, <2>2 DEF OpenPost, TypeOK
<1>4. CASE CleanScan(o)
  <2>1. pc' \in [Callers -> Steps] BY <1>4, <1>a, GotoType DEF CleanScan
  <2>2. /\ socket_id' \in [Ctrls -> Socks \union {-1}]
        /\ todo' \in [Callers -> SUBSET Socks]
        BY <1>4 DEF CleanScan, TypeOK
  <2> QED BY <1>4, <2>1, <2>2 DEF CleanScan, TypeOK
<1>5. CASE CleanSlot(o)
  <2>1. PICK s \in todo[o] :
           /\ todo' = [todo EXCEPT ![o] = todo[o] \ {s}]
           /\ \/ /\ Goto(o, "cleaning_mark") \/ Goto(o, "sweeping_mark")
                 /\ slot' = [slot EXCEPT ![o] = s]
                 /\ meddled' \in BOOLEAN
              \/ UNCHANGED <<pc, slot, meddled>>
        BY <1>5 DEF CleanSlot, TypeOK
  <2>2. s \in Socks BY DEF TypeOK
  <2>3. /\ todo' \in [Callers -> SUBSET Socks]
        /\ slot' \in [Callers -> Socks]
        /\ meddled' \in BOOLEAN
    <3>1. todo' \in [Callers -> SUBSET Socks] BY <2>1 DEF TypeOK
    <3>2. slot \in [Callers -> Socks] /\ meddled \in BOOLEAN BY DEF TypeOK
    <3>3. slot' \in [Callers -> Socks] BY <2>1, <2>2, <3>2
    <3> QED BY <2>1, <3>1, <3>2, <3>3
  <2>4. pc' \in [Callers -> Steps] BY <1>a, <2>1, GotoType DEF TypeOK
  <2>5. UNCHANGED <<mode, slotVars, mailbox, orphans, socket_id, ctag, thr, cb, crossed, overrun>>
        BY <1>5 DEF CleanSlot
  <2> QED BY <2>3, <2>4, <2>5 DEF slotVars, TypeOK
<1>6. CASE CleanDone(o)
  <2>1. /\ pc' \in [Callers -> Steps]
        /\ slot' \in [Callers -> Socks]
        BY <1>6, <1>a, GotoType DEF CleanDone, TypeOK
  <2> QED BY <1>6, <2>1 DEF CleanDone, TypeOK
<1>7. CASE ForceTest(o)
  <2>1. pc' \in [Callers -> Steps] BY <1>7, <1>a, GotoType DEF ForceTest
  <2>2. meddled' \in BOOLEAN BY <1>7 DEF ForceTest, TypeOK
  <2> QED BY <1>7, <2>1, <2>2 DEF ForceTest, TypeOK
<1>8. CASE MarkClosing(o)
  <2>1. pc' \in [Callers -> Steps] BY <1>8, <1>a, GotoType DEF MarkClosing
  <2>2. state' \in [Socks -> {0, 1}] BY <1>8 DEF MarkClosing, TypeOK
  <2> QED BY <1>8, <2>1, <2>2 DEF MarkClosing, TypeOK
<1>9. CASE ClosePost(o)
  <2>1. mailbox' \in Seq(Message)
        BY <1>9, <1>s, <1>a, PostType DEF ClosePost
  <2>2. /\ pc' \in [Callers -> Steps]
        /\ thr' \in [Callers -> Threads]
        /\ mode' \in [Callers -> Modes \union {"none"}]
        /\ slot' \in [Callers -> Socks]
    <3>1. CASE Finish(o) BY <3>1, FinishType
    <3>2. CASE ~Finish(o)
      <4>1. pc' \in [Callers -> Steps] BY <1>9, <1>a, <3>2, GotoType DEF ClosePost
      <4>2. /\ UNCHANGED <<thr, mode>>
            /\ UNCHANGED slot \/ slot' = [slot EXCEPT ![o] = 0]
            BY <1>9, <3>2 DEF ClosePost
      <4>3. 0 \in Socks /\ slot \in [Callers -> Socks] BY SocksFacts DEF TypeOK
      <4>4. slot' \in [Callers -> Socks] BY <4>2, <4>3
      <4> QED BY <4>1, <4>2, <4>4 DEF TypeOK
    <3> QED BY <3>1, <3>2
  <2> QED BY <1>9, <2>1, <2>2 DEF ClosePost, TypeOK
<1>10. CASE Drop(o)
  <2>1. socket_id' \in [Ctrls -> Socks \union {-1}] BY <1>10 DEF Drop, TypeOK
  <2> QED BY <1>10, <2>1, FinishType DEF Drop, TypeOK
<1>11. CASE SendPost(o)
  <2>1. mailbox' \in Seq(Message) BY <1>11, <1>s, <1>a, PostType DEF SendPost, c
  <2> QED BY <1>11, <2>1, FinishType DEF SendPost, TypeOK
<1> QED BY <1>0, <1>1, <1>2, <1>3, <1>4, <1>5, <1>6, <1>7, <1>8, <1>9, <1>10, <1>11

\* The lwIP thread: requests, lwIP's callbacks, and the callback it delivers.
LEMMA TcpipType ==
    ASSUME TypeOK,
           \/ TcpipStep
           \/ \E s \in Socks : PcbEvent(s)
           \/ \E o \in orphans : OrphanEvent(o)
    PROVE  TypeOK'
<1> USE DEF slotVars, ctrlVars, history
<1>a. {"CONNECT_OK", "ERROR", "REMOTE_CLOSE", "CLOSE_OK", "LISTEN"} \subseteq Events
      BY DEF Events
<1>b. cb \in CbType BY DEF TypeOK, CbType
<1> DEFINE s == Head(mailbox).sock
           from == Head(mailbox).own
<1>1. CASE HandleTx
  <2>1. s \in Socks /\ from \in Nat /\ mailbox' \in Seq(Message)
        BY <1>1, TakeType DEF HandleTx
  <2>2. cb' \in CbType
    <3>1. CASE UNCHANGED cb BY <3>1, <1>b
    <3>2. CASE Notify(s, "ERROR", from) BY <3>2, <1>a, <2>1, NotifyType
    <3> QED BY <1>1, <3>1, <3>2 DEF HandleTx
  <2> QED BY <1>1, <2>1, <2>2 DEF HandleTx, TypeOK, CbType
<1>2. CASE HandleCreate
  <2>1. s \in Socks /\ from \in Nat /\ mailbox' \in Seq(Message)
        BY <1>2, TakeType DEF HandleCreate
  <2>2. /\ pcb' \in [Socks -> PcbStates]
        /\ own' \in [Socks -> Nat]
    <3>1. CASE NewPcb(s) BY <3>1, <2>1 DEF NewPcb, TypeOK, PcbStates
    <3>2. CASE UNCHANGED <<pcb, own>> BY <3>2 DEF TypeOK
    <3> QED BY <1>2, <3>1, <3>2 DEF HandleCreate
  <2>3. cb' \in CbType /\ remote_close' \in [Socks -> BOOLEAN]
        BY <1>2, <1>b, <2>1, TcpErrorType DEF HandleCreate, TypeOK
  <2> QED BY <1>2, <2>1, <2>2, <2>3 DEF HandleCreate, TypeOK, CbType
<1>3. CASE HandleConnect
  <2>1. s \in Socks /\ from \in Nat /\ mailbox' \in Seq(Message)
        BY <1>3, TakeType DEF HandleConnect
  <2>2. pcb' \in [Socks -> PcbStates]
        BY <1>3, <2>1 DEF HandleConnect, TypeOK, PcbStates
  <2>3. cb' \in CbType /\ remote_close' \in [Socks -> BOOLEAN]
    <3>1. CASE TcpError(s, from) BY <3>1, <2>1, TcpErrorType
    <3>2. CASE UNCHANGED <<remote_close, cb>> BY <3>2, <1>b DEF TypeOK
    <3>3. ASSUME NEW ev \in {"CONNECT_OK", "ERROR"}, Notify(s, ev, from),
                 UNCHANGED remote_close
          PROVE  cb' \in CbType /\ remote_close' \in [Socks -> BOOLEAN]
          BY <3>3, <1>a, <2>1, NotifyType DEF TypeOK
    <3> QED BY <1>3, <3>1, <3>2, <3>3 DEF HandleConnect
  <2> QED BY <1>3, <2>1, <2>2, <2>3 DEF HandleConnect, TypeOK, CbType
<1>4. CASE HandleListen
  <2>1. s \in Socks /\ from \in Nat /\ mailbox' \in Seq(Message)
        BY <1>4, TakeType DEF HandleListen
  <2>2. /\ pcb' \in [Socks -> PcbStates]
        /\ listen_tcp' \in [Socks -> BOOLEAN]
    <3>1. CASE /\ listen_tcp' = [listen_tcp EXCEPT ![s] = TRUE]
               /\ pcb' = [pcb EXCEPT ![s] = "null"]
      BY <3>1, <2>1 DEF TypeOK, PcbStates
    <3>2. CASE UNCHANGED <<pcb, listen_tcp>> BY <3>2 DEF TypeOK
    <3> QED BY <1>4, <3>1, <3>2 DEF HandleListen
  <2>3. cb' \in CbType /\ remote_close' \in [Socks -> BOOLEAN]
    <3>1. CASE TcpError(s, from) BY <3>1, <2>1, TcpErrorType
    <3>2. ASSUME NEW ev \in {"LISTEN", "ERROR"}, Notify(s, ev, from),
                 UNCHANGED remote_close
          PROVE  cb' \in CbType /\ remote_close' \in [Socks -> BOOLEAN]
          BY <3>2, <1>a, <2>1, NotifyType DEF TypeOK
    <3> QED BY <1>4, <3>1, <3>2 DEF HandleListen
  <2> QED BY <1>4, <2>1, <2>2, <2>3 DEF HandleListen, TypeOK, CbType
<1>5. CASE HandleClose
  <2>1. s \in Socks /\ from \in Nat /\ mailbox' \in Seq(Message)
        BY <1>5, TakeType DEF HandleClose
  <2>2. CASE CloseDone(s, Head(mailbox).notify, from)
    <3>1. /\ pcb' \in [Socks -> PcbStates]
          /\ own' \in [Socks -> Nat]
          /\ listen_tcp' \in [Socks -> BOOLEAN]
          /\ remote_close' \in [Socks -> BOOLEAN]
          /\ state' \in [Socks -> {0, 1}]
          /\ in_use' \in [Socks -> BOOLEAN]
          /\ param' \in [Socks -> Ctrls \union {NoCtrl}]
          BY <2>1, <2>2 DEF CloseDone, TypeOK, PcbStates
    <3>2. cb' \in CbType
          BY <2>1, <2>2, <1>a, <1>b, NotifyType DEF CloseDone
    <3> QED BY <1>5, <2>1, <3>1, <3>2 DEF HandleClose, TypeOK, CbType
  <2>3. CASE UNCHANGED <<pcb, own, listen_tcp, remote_close, state, in_use, param, cb>>
    BY <1>5, <2>1, <2>3 DEF HandleClose, TypeOK
  <2> QED BY <1>5, <2>2, <2>3 DEF HandleClose
<1>6. CASE CbEnter
  BY <1>6 DEF CbEnter, TypeOK
<1>7. CASE CbReturn
  BY <1>7, NoCbType DEF CbReturn, TypeOK, CbType
<1>8. ASSUME NEW x \in Socks, ConnectedCb(x)
      PROVE  TypeOK'
  <2>1. cb' \in CbType
        BY <1>8, <1>a, NotifyType DEF ConnectedCb, TypeOK
  <2>2. pcb' \in [Socks -> PcbStates] BY <1>8 DEF ConnectedCb, TypeOK, PcbStates
  <2> QED BY <1>8, <2>1, <2>2 DEF ConnectedCb, TypeOK, CbType
<1>9. ASSUME NEW x \in Socks, AcceptCb(x)
      PROVE  TypeOK'
  <2>1. tag[x] \in Nat /\ own[x] \in Nat BY DEF TypeOK
  <2>2. /\ pcb' \in [Socks -> PcbStates]
        /\ own' \in [Socks -> Nat]
        /\ orphans' \subseteq [sock : Socks, own : Nat]
        /\ overrun' \in BOOLEAN
    <3>1. CASE /\ pcb' = [pcb EXCEPT ![x] = "est"]
               /\ own' = [own EXCEPT ![x] = tag[x]]
               /\ orphans' \subseteq orphans \union {[sock |-> x, own |-> own[x]]}
               /\ overrun' \in BOOLEAN
      BY <3>1, <2>1 DEF TypeOK, PcbStates
    <3>2. CASE UNCHANGED <<pcb, own, orphans, overrun>> BY <3>2 DEF TypeOK
    <3> QED BY <1>9, <3>1, <3>2 DEF AcceptCb, TypeOK
  <2>3. cb' \in CbType /\ remote_close' \in [Socks -> BOOLEAN]
        BY <1>9, <1>a, <2>1, NotifyType, TcpErrorType DEF AcceptCb, TypeOK
  <2> QED BY <1>9, <2>2, <2>3 DEF AcceptCb, TypeOK, CbType
<1>10. ASSUME NEW x \in Socks, NEW f \in Nat, FinCb(x, f),
              pcb' \in [Socks -> PcbStates],
              orphans' \subseteq orphans
       PROVE  TypeOK'
  <2>1. cb' \in CbType BY <1>10, <1>a, NotifyType DEF FinCb
  <2>2. remote_close' \in [Socks -> BOOLEAN] BY <1>10 DEF FinCb, TypeOK
  <2> QED BY <1>10, <2>1, <2>2 DEF FinCb, TypeOK, CbType
<1>11. ASSUME NEW x \in Socks, NEW f \in Nat, ErrCb(x, f), orphans' \subseteq orphans
       PROVE  TypeOK'
  <2>1. cb' \in CbType /\ remote_close' \in [Socks -> BOOLEAN]
        BY <1>11, <1>b, TcpErrorType DEF ErrCb, TypeOK
  <2>2. pcb' \in [Socks -> PcbStates] BY <1>11 DEF ErrCb, TypeOK, PcbStates
  <2> QED BY <1>11, <2>1, <2>2 DEF ErrCb, TypeOK, CbType
<1>12. ASSUME NEW x \in Socks, PcbEvent(x)
       PROVE  TypeOK'
  <2>1. own[x] \in Nat BY DEF TypeOK
  <2>2. [pcb EXCEPT ![x] = "fin"] \in [Socks -> PcbStates] BY DEF TypeOK, PcbStates
  <2> QED BY <1>12, <1>8, <1>9, <1>10, <1>11, <2>1, <2>2 DEF PcbEvent
<1>13. ASSUME NEW o \in orphans, OrphanEvent(o)
       PROVE  TypeOK'
  <2>1. o.sock \in Socks /\ o.own \in Nat BY DEF TypeOK
  <2>2. CASE FinCb(o.sock, o.own) /\ UNCHANGED <<pcb, orphans>>
    <3>1. pcb' \in [Socks -> PcbStates] BY <2>2 DEF TypeOK
    <3> QED BY <1>10, <2>1, <2>2, <3>1
  <2>3. CASE ErrCb(o.sock, o.own) /\ orphans' = orphans \ {o} BY <1>11, <2>1, <2>3
  <2> QED BY <1>13, <2>2, <2>3 DEF OrphanEvent
<1> QED BY <1>1, <1>2, <1>3, <1>4, <1>5, <1>6, <1>7, <1>12, <1>13 DEF TcpipStep, HandleMessage

LEMMA TypeStep == TypeOK /\ [Next]_vars => TypeOK'
<1> SUFFICES ASSUME TypeOK, [Next]_vars PROVE TypeOK'
    OBVIOUS
<1>1. ASSUME NEW o \in Callers, StartOp(o) PROVE TypeOK'
  BY <1>1, StartType DEF StartOp
<1>2. ASSUME NEW o \in Callers, ContinueOp(o) PROVE TypeOK'
  BY <1>2, OpType DEF ContinueOp
<1>3. CASE UNCHANGED vars
  BY <1>3 DEF vars, slotVars, ctrlVars, history, TypeOK
<1> QED BY <1>1, <1>2, <1>3, TcpipType DEF Next

\* Every variable keeps its type: no slot number, index or list leaves its range.
THEOREM TypeCorrect == Spec => []TypeOK
BY InitTypeOK, TypeStep, PTL DEF Spec

-----------------------------------------------------------------------------
(* Who a socket belongs to *)

tagVars == <<in_use, tag, param, socket_tag, ctag>>

LEMMA InitTag == Init => TagNamesOwner
BY DEF Init, TagNamesOwner

\* net_lwip_create_socket issues a tag nobody has
LEMMA FoundTag ==
    ASSUME TypeOK, TagNamesOwner, NEW o \in Callers, NEW m, FoundSlot(o, m)
    PROVE  TagNamesOwner'
<1>1. /\ socket_tag \in Nat
      /\ tag \in [Socks -> Nat]
      /\ ctag \in [Ctrls -> Nat]
      /\ in_use \in [Socks -> BOOLEAN]
      /\ param \in [Socks -> Ctrls \union {NoCtrl}]
      BY DEF TypeOK
<1> DEFINE c == Of(o)
<1>c. c \in Ctrls BY CallersFacts
<1>2. PICK s \in Socks : TakeSlot(c, s, m) BY DEF FoundSlot
<1> HIDE DEF c
<1>3. /\ socket_tag' = socket_tag + 1
      /\ ctag' = [ctag EXCEPT ![c] = socket_tag + 1]
      /\ in_use' = [in_use EXCEPT ![s] = TRUE]
      /\ tag' = [tag EXCEPT ![s] = socket_tag + 1]
      /\ param' = [param EXCEPT ![s] = c]
      BY <1>2 DEF TakeSlot
<1>4. ASSUME NEW x \in Socks
      PROVE  tag'[x] <= socket_tag' /\ (in_use'[x] => tag'[x] # 0)
  <2>1. tag[x] <= socket_tag /\ (in_use[x] => tag[x] # 0) BY DEF TagNamesOwner
  <2> QED BY <1>1, <1>3, <2>1
<1>5. ASSUME NEW d \in Ctrls
      PROVE  ctag'[d] <= socket_tag'
  <2>1. ctag[d] <= socket_tag BY DEF TagNamesOwner
  <2> QED BY <1>1, <1>3, <2>1
<1>6. ASSUME NEW x \in Socks, NEW d \in Ctrls, in_use'[x], tag'[x] = ctag'[d]
      PROVE  param'[x] = d
  <2>1. /\ tag[x] <= socket_tag
        /\ ctag[d] <= socket_tag
        /\ in_use[x] /\ tag[x] = ctag[d] => param[x] = d
        BY DEF TagNamesOwner
  <2>2. CASE x = s BY <1>1, <1>3, <1>6, <2>1, <2>2
  <2>3. CASE x # s BY <1>1, <1>3, <1>6, <2>1, <2>3
  <2> QED BY <2>2, <2>3
<1> QED BY <1>4, <1>5, <1>6 DEF TagNamesOwner

\* an operation finds a slot
Found == \E o \in Callers : \E m : FoundSlot(o, m)

\* A slot is taken, or none and the ctrl has no tag; the handler of a CLOSE frees a slot;
\* and no other step touches the tags.
LEMMA TagSteps ==
    ASSUME TypeOK, [Next]_vars
    PROVE  \/ UNCHANGED tagVars
           \/ Found
           \/ \E c \in Ctrls : NoSlot(c)
           \/ \E s \in Socks : /\ in_use' = [in_use EXCEPT ![s] = FALSE]
                               /\ param' = [param EXCEPT ![s] = NoCtrl]
                               /\ UNCHANGED <<tag, socket_tag, ctag>>
<1> USE DEF slotVars, ctrlVars, history, tagVars
<1>1. ASSUME NEW o \in Callers, StartOp(o)
      PROVE  UNCHANGED tagVars \/ Found \/ \E c \in Ctrls : NoSlot(c)
  <2>1. Of(o) \in Ctrls BY CallersFacts
  <2> QED BY <1>1, <2>1 DEF StartOp, StartCreate, Disconnect, Close, Send, ForceClose, Begin, Found
<1>2. ASSUME NEW o \in Callers, ContinueOp(o)
      PROVE  UNCHANGED tagVars \/ Found \/ \E c \in Ctrls : NoSlot(c)
  <2>1. Of(o) \in Ctrls BY CallersFacts
  <2>2. CASE RetryCreate(o) BY <2>1, <2>2 DEF RetryCreate, Found
  <2> QED BY <1>2, <2>2 DEF ContinueOp, CreatePost, OpenCheck, OpenPost, CleanScan,
             CleanSlot, CleanDone, ForceTest, MarkClosing, ClosePost, Drop, SendPost
<1>3. CASE HandleClose
  <2>1. Head(mailbox).sock \in Socks BY <1>3, TakeType DEF HandleClose
  <2> QED BY <1>3, <2>1 DEF HandleClose, CloseDone
<1>4. CASE TcpipStep /\ ~HandleClose
  BY <1>4 DEF TcpipStep, HandleMessage, HandleTx, HandleCreate, HandleConnect, HandleListen,
              CbEnter, CbReturn
<1>5. ASSUME NEW s \in Socks, PcbEvent(s)
      PROVE  UNCHANGED tagVars
  BY <1>5 DEF PcbEvent, ConnectedCb, AcceptCb, FinCb, ErrCb
<1>6. ASSUME NEW o \in orphans, OrphanEvent(o)
      PROVE  UNCHANGED tagVars
  BY <1>6 DEF OrphanEvent, FinCb, ErrCb
<1>7. CASE UNCHANGED vars BY <1>7 DEF vars
<1> QED BY <1>1, <1>2, <1>3, <1>4, <1>5, <1>6, <1>7 DEF Next

LEMMA TagStep == TypeOK /\ TagNamesOwner /\ [Next]_vars => TagNamesOwner'
<1> SUFFICES ASSUME TypeOK, TagNamesOwner, [Next]_vars PROVE TagNamesOwner'
    OBVIOUS
<1>1. CASE Found BY <1>1, FoundTag DEF Found
<1>2. CASE UNCHANGED tagVars BY <1>2 DEF tagVars, TagNamesOwner
<1>3. CASE \E c \in Ctrls : NoSlot(c)
  <2>1. PICK c \in Ctrls : NoSlot(c) BY <1>3
  <2>2. /\ ctag' = [ctag EXCEPT ![c] = 0]
        /\ UNCHANGED <<socket_tag, in_use, tag, param>>
        BY <2>1 DEF NoSlot
  <2>3. /\ socket_tag \in Nat /\ ctag \in [Ctrls -> Nat] BY DEF TypeOK
  <2> QED BY <2>2, <2>3 DEF TagNamesOwner
<1>4. CASE \E s \in Socks : /\ in_use' = [in_use EXCEPT ![s] = FALSE]
                            /\ param' = [param EXCEPT ![s] = NoCtrl]
                            /\ UNCHANGED <<tag, socket_tag, ctag>>
  BY <1>4 DEF TagNamesOwner, TypeOK
<1> QED BY <1>1, <1>2, <1>3, <1>4, TagSteps

\* A tag names the ctrl its socket was made for, however the slots are reused.
THEOREM TagCorrect == Spec => []TagNamesOwner
<1>1. TypeOK /\ TagNamesOwner /\ [Next]_vars => (TypeOK /\ TagNamesOwner)'
      BY TypeStep, TagStep
<1> QED BY InitTypeOK, InitTag, <1>1, PTL DEF Spec

LEMMA TagExclusive == TypeOK /\ TagNamesOwner => HandleIsExclusive
BY DEF TypeOK, TagNamesOwner, HandleIsExclusive, CheckSocket

\* No two ctrls pass net_lwip_check_socket with the same slot, and the slot's
\* events go to the one that does, even while closes of one socket overlap.
THEOREM HandlesAreExclusive == Spec => []HandleIsExclusive
BY TypeCorrect, TagCorrect, TagExclusive, PTL

-----------------------------------------------------------------------------
(* Closing is final *)

\* A mark appears, or goes when the slot is freed.
LEMMA MarkSteps ==
    ASSUME TypeOK, [Next]_vars
    PROVE  \/ UNCHANGED state
           \/ \E x \in Socks : state' = [state EXCEPT ![x] = 1]
           \/ \E x \in Socks : /\ state' = [state EXCEPT ![x] = 0]
                               /\ in_use' = [in_use EXCEPT ![x] = FALSE]
<1> USE DEF slotVars, ctrlVars, history
<1>1. ASSUME NEW o \in Callers, StartOp(o)
      PROVE  UNCHANGED state
      BY <1>1 DEF StartOp, StartCreate, CreateLeaves, Disconnect, Close, Send, ForceClose, Begin
<1>2. ASSUME NEW o \in Callers, ContinueOp(o)
      PROVE  UNCHANGED state \/ \E x \in Socks : state' = [state EXCEPT ![x] = 1]
  <2>1. slot[o] \in Socks BY DEF TypeOK
  <2>2. CASE MarkClosing(o) BY <2>1, <2>2 DEF MarkClosing
  <2> QED BY <1>2, <2>2 DEF ContinueOp, RetryCreate, CreateLeaves, CreatePost, OpenCheck,
             OpenPost, CleanScan, CleanSlot, CleanDone, ForceTest, ClosePost, Drop, SendPost
<1>3. CASE HandleClose
  <2>1. Head(mailbox).sock \in Socks BY <1>3, TakeType DEF HandleClose
  <2> QED BY <1>3, <2>1 DEF HandleClose, CloseDone
<1>4. CASE TcpipStep /\ ~HandleClose
  BY <1>4 DEF TcpipStep, HandleMessage, HandleTx, HandleCreate, HandleConnect, HandleListen,
              CbEnter, CbReturn
<1>5. ASSUME NEW x \in Socks, PcbEvent(x)
      PROVE  UNCHANGED state
      BY <1>5 DEF PcbEvent, ConnectedCb, AcceptCb, FinCb, ErrCb
<1>6. ASSUME NEW o \in orphans, OrphanEvent(o)
      PROVE  UNCHANGED state
      BY <1>6 DEF OrphanEvent, FinCb, ErrCb
<1>7. CASE UNCHANGED vars BY <1>7 DEF vars
<1> QED BY <1>1, <1>2, <1>3, <1>4, <1>5, <1>6, <1>7 DEF Next

LEMMA ClosingStep ==
    ASSUME TypeOK, [Next]_vars, NEW s \in Socks, in_use[s], state[s] = 1
    PROVE  tag'[s] = tag[s] /\ (state'[s] = 1 \/ ~in_use'[s])
<1>t. state \in [Socks -> {0, 1}] /\ in_use \in [Socks -> BOOLEAN] /\ tag \in [Socks -> Nat]
      BY DEF TypeOK
<1>1. tag'[s] = tag[s]
  <2>1. CASE Found
    <3>o. PICK o \in Callers : \E m : FoundSlot(o, m) BY <2>1 DEF Found
    <3>0. PICK m : FoundSlot(o, m) BY <3>o
    <3>1. PICK x \in Socks : NextSlot(x) /\ TakeSlot(Of(o), x, m) BY <3>0 DEF FoundSlot
    <3>2. x # s BY <3>1 DEF NextSlot
    <3> QED BY <1>t, <3>1, <3>2 DEF TakeSlot
  <2>2. CASE UNCHANGED tag BY <2>2
  <2> QED BY <2>1, <2>2, TagSteps DEF tagVars, NoSlot
<1>2. state'[s] = 1 \/ ~in_use'[s] BY <1>t, MarkSteps
<1> QED BY <1>1, <1>2

\* A slot marked as closing is not given to anybody before it is free, and its mark
\* goes only with its being freed.
THEOREM ClosingCorrect == Spec => ClosingIsFinal
<1>1. TypeOK /\ [Next]_vars
      => [\A s \in Socks : in_use[s] /\ state[s] = 1 =>
             tag'[s] = tag[s] /\ (state'[s] = 1 \/ ~in_use'[s])]_vars
      BY ClosingStep
<1> QED BY <1>1, TypeCorrect, PTL DEF Spec, ClosingIsFinal

-----------------------------------------------------------------------------
(* A free slot has no pcb, and will get none: a slot that waits for its pcb is *)
(* one a CLOSE does nothing to                                                 *)

Raw(s) == pcb[s] = "null" /\ ~listen_tcp[s] /\ ~remote_close[s]

\* somebody is about to ask for the pcb of slot s, or has asked
Creating(s) == \E o \in Callers : pc[o] = "created" /\ slot[o] = s
Sent(s) == \E i \in 1 .. Len(mailbox) : mailbox[i].id = "CREATE" /\ mailbox[i].sock = s

OneCreator ==
    \A o, p \in Callers :
        pc[o] = "created" /\ pc[p] = "created" /\ slot[o] = slot[p] => o = p

OneCreate ==
    \A i, j \in 1 .. Len(mailbox) :
        mailbox[i].id = "CREATE" /\ mailbox[j].id = "CREATE" /\ i < j
            => mailbox[i].sock # mailbox[j].sock

\* the pcb of a socket is asked for once
Made ==
    /\ orphans = {}
    /\ \A s \in Socks : ~in_use[s] => Raw(s) /\ ~Creating(s) /\ ~Sent(s)
    /\ \A s \in Socks : Creating(s) \/ Sent(s) => Raw(s)
    /\ \A s \in Socks : ~(Creating(s) /\ Sent(s))
    /\ OneCreator
    /\ OneCreate

MadeInv == ~overrun => Made

LEMMA InitMade == Init => MadeInv
<1> SUFFICES ASSUME Init PROVE Made BY DEF MadeInv
<1>1. Len(mailbox) = 0 /\ \A i \in 1 .. Len(mailbox) : FALSE BY DEF Init
<1>2. \A o \in Callers : pc[o] # "created" BY DEF Init
<1> QED BY <1>1, <1>2 DEF Init, Made, Raw, Creating, Sent, OneCreator, OneCreate

LEMMA SentAppend ==
    ASSUME mailbox \in Seq(Message), NEW m \in Message, mailbox' = Append(mailbox, m)
    PROVE  /\ \A s : Sent(s)' <=> Sent(s) \/ (m.id = "CREATE" /\ m.sock = s)
           /\ OneCreate /\ (m.id = "CREATE" => ~Sent(m.sock)) => OneCreate'
<1> DEFINE n == Len(mailbox)
<1>1. /\ n \in Nat /\ Len(mailbox') = n + 1
      /\ \A i \in 1 .. n : mailbox'[i] = mailbox[i]
      /\ mailbox'[n + 1] = m
      BY AppendProperties
<1> HIDE DEF n
<1>2. \A i \in 1 .. n + 1 : i \in 1 .. n \/ i = n + 1 BY <1>1
<1>3. n + 1 \in 1 .. n + 1 /\ \A i \in 1 .. n : i \in 1 .. n + 1 BY <1>1
<1>4. \A s : Sent(s)' <=> Sent(s) \/ (m.id = "CREATE" /\ m.sock = s)
      BY <1>1, <1>2, <1>3 DEF Sent, n
<1>5. ASSUME OneCreate, m.id = "CREATE" => ~Sent(m.sock),
             NEW i \in 1 .. n + 1, NEW j \in 1 .. n + 1, i < j,
             mailbox'[i].id = "CREATE", mailbox'[j].id = "CREATE"
      PROVE  mailbox'[i].sock # mailbox'[j].sock
  <2>1. i \in 1 .. n BY <1>1, <1>5
  <2>2. mailbox'[i] = mailbox[i] BY <1>1, <2>1
  <2>3. CASE j \in 1 .. n BY <1>1, <1>5, <2>1, <2>2, <2>3 DEF OneCreate, n
  <2>4. CASE j = n + 1 BY <1>1, <1>5, <2>1, <2>2, <2>4 DEF Sent, n
  <2> QED BY <1>2, <2>3, <2>4
<1>6. ASSUME OneCreate, m.id = "CREATE" => ~Sent(m.sock)
      PROVE  OneCreate'
  <2>1. \A i, j \in 1 .. n + 1 :
           mailbox'[i].id = "CREATE" /\ mailbox'[j].id = "CREATE" /\ i < j
               => mailbox'[i].sock # mailbox'[j].sock
        BY <1>5, <1>6
  <2> QED BY <1>1, <2>1 DEF OneCreate
<1> QED BY <1>4, <1>6

LEMMA SentTail ==
    ASSUME mailbox \in Seq(Message), mailbox # <<>>, mailbox' = Tail(mailbox)
    PROVE  /\ \A s : Sent(s)' => Sent(s)
           /\ OneCreate => OneCreate'
           /\ \A s : OneCreate /\ Head(mailbox).id = "CREATE" /\ Head(mailbox).sock = s
                  => Sent(s) /\ ~Sent(s)'
<1> DEFINE n == Len(mailbox) - 1
<1>1. /\ n \in Nat /\ Len(mailbox) = n + 1 /\ Len(mailbox') = n
      /\ \A i \in 1 .. n : mailbox'[i] = mailbox[i + 1]
      BY EmptySeq, HeadTailProperties
<1>0. Head(mailbox) = mailbox[1] BY HeadTailProperties
<1> HIDE DEF n
<1>2. \A i \in 1 .. n : i + 1 \in 1 .. n + 1 /\ 1 < i + 1 BY <1>1
<1>3. 1 \in 1 .. n + 1 BY <1>1
<1>4. \A s : Sent(s)' => Sent(s) BY <1>1, <1>2 DEF Sent
<1>5. ASSUME OneCreate, NEW i \in 1 .. n, NEW j \in 1 .. n, i < j,
             mailbox'[i].id = "CREATE", mailbox'[j].id = "CREATE"
      PROVE  mailbox'[i].sock # mailbox'[j].sock
  <2>1. i + 1 < j + 1 BY <1>5
  <2> QED BY <1>1, <1>2, <1>5, <2>1 DEF OneCreate
<1>6. OneCreate => OneCreate' BY <1>1, <1>5 DEF OneCreate
<1>7. ASSUME NEW s, OneCreate, mailbox[1].id = "CREATE", mailbox[1].sock = s
      PROVE  Sent(s) /\ ~Sent(s)'
  <2>1. Sent(s) BY <1>1, <1>3, <1>7 DEF Sent
  <2>2. ASSUME NEW i \in 1 .. n, mailbox'[i].id = "CREATE", mailbox'[i].sock = s
        PROVE  FALSE
        BY <1>1, <1>2, <1>3, <1>7, <2>2 DEF OneCreate
  <2>3. ~Sent(s)' BY <1>1, <2>2 DEF Sent
  <2> QED BY <2>1, <2>3
<1> QED BY <1>0, <1>4, <1>6, <1>7

\* No pcb is asked for, and none appears where one is asked for.
LEMMA MadeKept ==
    ASSUME TypeOK, Made, orphans' = {},
           \A o \in Callers : pc'[o] = "created" => pc[o] = "created" /\ slot'[o] = slot[o],
           \/ UNCHANGED mailbox
           \/ mailbox # <<>> /\ mailbox' = Tail(mailbox)
           \/ \E m \in Message : m.id # "CREATE" /\ mailbox' = Append(mailbox, m),
           \A s \in Socks : ~in_use'[s] => Raw(s)' /\ (~in_use[s] \/ ~Raw(s)),
           \A s \in Socks : Creating(s)' \/ Sent(s)' => Raw(s)'
    PROVE  Made'
<1>0. mailbox \in Seq(Message) BY DEF TypeOK
<1>1. \A s : Creating(s)' => Creating(s) BY DEF Creating
<1>2. (\A s : Sent(s)' => Sent(s)) /\ OneCreate'
  <2>0. OneCreate BY DEF Made
  <2>1. CASE UNCHANGED mailbox BY <2>0, <2>1 DEF Sent, OneCreate
  <2>2. CASE mailbox # <<>> /\ mailbox' = Tail(mailbox) BY <1>0, <2>0, <2>2, SentTail
  <2>3. ASSUME NEW m \in Message, m.id # "CREATE", mailbox' = Append(mailbox, m)
        PROVE  (\A s : Sent(s)' => Sent(s)) /\ OneCreate'
        BY <1>0, <2>0, <2>3, SentAppend
  <2> QED BY <2>1, <2>2, <2>3
<1>3. OneCreator' BY DEF Made, OneCreator
<1>4. ASSUME NEW s \in Socks, ~in_use'[s] PROVE ~Creating(s)' /\ ~Sent(s)'
      BY <1>1, <1>2, <1>4 DEF Made
<1>5. \A s \in Socks : ~(Creating(s)' /\ Sent(s)') BY <1>1, <1>2 DEF Made
<1> QED BY <1>2, <1>3, <1>4, <1>5 DEF Made

\* what the slots of Made are made of
rawVars == <<in_use, pcb, listen_tcp, remote_close>>

LEMMA MadeQuiet ==
    ASSUME TypeOK, Made, UNCHANGED rawVars, UNCHANGED orphans,
           \A o \in Callers : pc'[o] = "created" => pc[o] = "created" /\ slot'[o] = slot[o],
           \/ UNCHANGED mailbox
           \/ mailbox # <<>> /\ mailbox' = Tail(mailbox)
           \/ \E m \in Message : m.id # "CREATE" /\ mailbox' = Append(mailbox, m)
    PROVE  Made'
<1> USE DEF rawVars
<1>0. mailbox \in Seq(Message) BY DEF TypeOK
<1>1. \A s : Creating(s)' => Creating(s) BY DEF Creating
<1>2. \A s : Sent(s)' => Sent(s)
  <2>1. CASE UNCHANGED mailbox BY <2>1 DEF Sent
  <2>2. CASE mailbox # <<>> /\ mailbox' = Tail(mailbox) BY <1>0, <2>2, SentTail
  <2>3. ASSUME NEW m \in Message, m.id # "CREATE", mailbox' = Append(mailbox, m)
        PROVE  \A s : Sent(s)' => Sent(s)
        BY <1>0, <2>3, SentAppend
  <2> QED BY <2>1, <2>2, <2>3
<1>3. \A s : Raw(s)' <=> Raw(s) BY DEF Raw
<1>4. \A s \in Socks : ~in_use'[s] => Raw(s)' /\ ~in_use[s] BY <1>3 DEF Made
<1>5. \A s \in Socks : Creating(s)' \/ Sent(s)' => Raw(s)' BY <1>1, <1>2, <1>3 DEF Made
<1>6. orphans' = {} BY DEF Made
<1> QED BY <1>4, <1>5, <1>6, MadeKept

\* The steps of operations, but for those that take a slot or ask for a pcb.
LEMMA MadeOps ==
    ASSUME TypeOK, Made, NEW o \in Callers,
           \/ \E t \in Threads : Disconnect(o, t) \/ Close(o, t) \/ Send(o, t) \/ ForceClose(o, t)
           \/ OpenCheck(o) \/ OpenPost(o) \/ CleanScan(o) \/ CleanSlot(o) \/ CleanDone(o)
           \/ ForceTest(o) \/ MarkClosing(o) \/ ClosePost(o) \/ Drop(o) \/ SendPost(o)
    PROVE  Made'
<1> USE DEF slotVars, rawVars
<1>t. /\ slot \in [Callers -> Socks] /\ pc \in [Callers -> Steps]
      /\ ctag[Of(o)] \in Nat /\ tag[slot[o]] \in Nat
      BY CallersFacts DEF TypeOK
<1>1. UNCHANGED rawVars /\ UNCHANGED orphans
      BY DEF Disconnect, Close, Send, ForceClose, Begin, OpenCheck, OpenPost, CleanScan,
             CleanSlot, CleanDone, ForceTest, MarkClosing, ClosePost, Drop, SendPost
<1>2. /\ pc'[o] # "created"
      /\ \A p \in Callers : p # o => pc'[p] = pc[p] /\ slot'[p] = slot[p]
  <2>1. ASSUME NEW t \in Threads, Disconnect(o, t) \/ Close(o, t) \/ Send(o, t) \/ ForceClose(o, t)
        PROVE  /\ pc'[o] # "created"
               /\ \A p \in Callers : p # o => pc'[p] = pc[p] /\ slot'[p] = slot[p]
        BY <1>t, <2>1 DEF Disconnect, Close, Send, ForceClose, Begin, Goto
  <2>2. CASE OpenCheck(o) BY <1>t, <2>2 DEF OpenCheck, Goto, Finish
  <2>3. CASE OpenPost(o) \/ SendPost(o) \/ Drop(o)
        BY <1>t, <2>3 DEF OpenPost, SendPost, Drop, Goto, Finish
  <2>4. CASE CleanScan(o) BY <1>t, <2>4 DEF CleanScan, Goto
  <2>5. CASE CleanSlot(o) BY <1>t, <2>5 DEF CleanSlot, Goto
  <2>6. CASE CleanDone(o) BY <1>t, <2>6 DEF CleanDone, Goto
  <2>7. CASE ForceTest(o) BY <1>t, <2>7 DEF ForceTest, Goto
  <2>8. CASE MarkClosing(o) BY <1>t, <2>8 DEF MarkClosing, Goto
  <2>9. CASE ClosePost(o) BY <1>t, <2>9 DEF ClosePost, Goto, Finish
  <2> QED BY <2>1, <2>2, <2>3, <2>4, <2>5, <2>6, <2>7, <2>8, <2>9
<1>3. UNCHANGED mailbox \/ \E m \in Message : m.id # "CREATE" /\ mailbox' = Append(mailbox, m)
  <2>0. slot[o] \in Socks BY <1>t
  <2>1. ASSUME NEW id \in {"CONNECT", "LISTEN", "TX", "CLOSE"}, NEW b \in BOOLEAN, NEW t \in Nat,
               Post(id, slot[o], b, t)
        PROVE  \E m \in Message : m.id # "CREATE" /\ mailbox' = Append(mailbox, m)
    <3> DEFINE m == [id |-> id, sock |-> slot[o], notify |-> b, own |-> t]
    <3>1. m \in Message /\ m.id # "CREATE" BY <2>0 DEF Message, Requests
    <3>2. mailbox' = Append(mailbox, m) BY <2>1 DEF Post
    <3> HIDE DEF m
    <3> QED BY <3>1, <3>2
  <2>2. CASE OpenPost(o) \/ SendPost(o) BY <1>t, <2>1, <2>2 DEF OpenPost, SendPost
  <2>3. CASE ClosePost(o) BY <1>t, <2>1, <2>3 DEF ClosePost
  <2> QED BY <2>2, <2>3 DEF Disconnect, Close, Send, ForceClose, Begin, OpenCheck, CleanScan,
             CleanSlot, CleanDone, ForceTest, MarkClosing, Drop
<1> QED BY <1>1, <1>2, <1>3, MadeQuiet

\* A slot is taken: it was free, so that nobody asks for a pcb in it.
LEMMA MadeFound ==
    ASSUME TypeOK, Made, NEW o \in Callers, NEW m, FoundSlot(o, m), pc[o] # "created", CreateLeaves
    PROVE  Made'
<1>1. PICK x \in Socks : /\ NextSlot(x) /\ TakeSlot(Of(o), x, m)
                         /\ slot' = [slot EXCEPT ![o] = x] /\ Goto(o, "created")
      BY DEF FoundSlot
<1>2. /\ in_use \in [Socks -> BOOLEAN] /\ slot \in [Callers -> Socks] /\ pc \in [Callers -> Steps]
      BY DEF TypeOK
<1>3. ~in_use[x] BY <1>1 DEF NextSlot
<1>4. in_use'[x] /\ \A s \in Socks : s # x => in_use'[s] = in_use[s]
      BY <1>1, <1>2 DEF TakeSlot
<1>5. /\ slot'[o] = x /\ pc'[o] = "created"
      /\ \A p \in Callers : p # o => pc'[p] = pc[p] /\ slot'[p] = slot[p]
      BY <1>1, <1>2 DEF Goto
<1>6. UNCHANGED <<mailbox, orphans, pcb, listen_tcp, remote_close>> BY DEF CreateLeaves
<1>7. Raw(x) /\ ~Creating(x) /\ ~Sent(x) BY <1>3 DEF Made
<1>8. \A s : Creating(s)' => Creating(s) \/ s = x BY <1>5 DEF Creating
<1>9. \A s : (Sent(s)' <=> Sent(s)) /\ (Raw(s)' <=> Raw(s)) BY <1>6 DEF Sent, Raw
<1>10. OneCreator'
  <2>1. ASSUME NEW p \in Callers, p # o, pc'[p] = "created" PROVE slot'[p] # x
        BY <1>5, <1>7, <2>1 DEF Creating
  <2> QED BY <1>5, <2>1 DEF Made, OneCreator
<1>11. OneCreate' /\ orphans' = {} BY <1>6 DEF Made, OneCreate
<1>12. ASSUME NEW s \in Socks
       PROVE  /\ ~in_use'[s] => Raw(s)' /\ ~Creating(s)' /\ ~Sent(s)'
              /\ Creating(s)' \/ Sent(s)' => Raw(s)'
              /\ ~(Creating(s)' /\ Sent(s)')
       BY <1>4, <1>7, <1>8, <1>9 DEF Made
<1> QED BY <1>10, <1>11, <1>12 DEF Made

\* The request for a pcb is posted, or the pcb is made, or not made, at once.
LEMMA MadePost ==
    ASSUME TypeOK, Made, NEW o \in Callers, CreatePost(o)
    PROVE  Made'
<1>0. PICK x \in Socks : x = slot[o] BY DEF TypeOK
<1>t. /\ slot \in [Callers -> Socks] /\ pc \in [Callers -> Steps]
      /\ ctag[Of(o)] \in Nat /\ mailbox \in Seq(Message)
      /\ pcb \in [Socks -> PcbStates] /\ remote_close \in [Socks -> BOOLEAN]
      BY CallersFacts DEF TypeOK
<1>1. UNCHANGED <<in_use, listen_tcp, orphans, slot>> /\ pc[o] = "created" BY DEF CreatePost
<1>2. Goto(o, "opened") \/ Goto(o, "selflock") BY DEF CreatePost
<1>3. pc'[o] # "created" /\ \A p \in Callers : p # o => pc'[p] = pc[p]
      BY <1>2, <1>t DEF Goto
<1>4. Creating(x) BY <1>0, <1>1 DEF Creating
<1>5. Raw(x) /\ in_use[x] /\ ~Sent(x) BY <1>4, <1>t DEF Made
<1>6. ~Creating(x)' BY <1>0, <1>1, <1>3 DEF Creating, Made, OneCreator
<1>7. \A s : Creating(s)' => Creating(s) BY <1>1, <1>3 DEF Creating
<1>8. \A s \in Socks : s # x => (Raw(s)' <=> Raw(s))
      BY <1>0, <1>1, <1>t DEF CreatePost, NewPcb, Raw
<1>9. CASE Post("CREATE", x, FALSE, ctag[Of(o)]) /\ UNCHANGED <<pcb, remote_close>>
  <2> DEFINE m == [id |-> "CREATE", sock |-> x, notify |-> FALSE, own |-> ctag[Of(o)]]
  <2>1. m \in Message /\ m.sock = x BY <1>t DEF Message, Requests
  <2>2. mailbox' = Append(mailbox, m) BY <1>9 DEF Post
  <2> HIDE DEF m
  <2>3. (\A s : Sent(s)' => Sent(s) \/ s = x) /\ OneCreate'
        BY <1>5, <1>t, <2>1, <2>2, SentAppend DEF Made
  <2>4. Raw(x)' BY <1>1, <1>5, <1>9 DEF Raw
  <2>5. OneCreator' BY <1>1, <1>3 DEF Made, OneCreator
  <2>6. ASSUME NEW s \in Socks
        PROVE  /\ ~in_use'[s] => Raw(s)' /\ ~Creating(s)' /\ ~Sent(s)'
               /\ Creating(s)' \/ Sent(s)' => Raw(s)'
               /\ ~(Creating(s)' /\ Sent(s)')
        BY <1>1, <1>5, <1>6, <1>7, <1>8, <2>3, <2>4 DEF Made
  <2>7. orphans' = {} BY <1>1 DEF Made
  <2> QED BY <2>3, <2>5, <2>6, <2>7 DEF Made
<1>10. CASE UNCHANGED mailbox
  <2>1. \A s : Sent(s)' <=> Sent(s) BY <1>10 DEF Sent
  <2>2. ASSUME NEW s \in Socks
        PROVE  /\ ~in_use'[s] => Raw(s)' /\ (~in_use[s] \/ ~Raw(s))
               /\ Creating(s)' \/ Sent(s)' => Raw(s)'
        BY <1>1, <1>5, <1>6, <1>7, <1>8, <2>1 DEF Made
  <2>3. orphans' = {} BY <1>1 DEF Made
  <2> QED BY <1>1, <1>3, <1>10, <2>2, <2>3, MadeKept
<1> QED BY <1>0, <1>9, <1>10 DEF CreatePost

\* A request of the mailbox changes the slot it is about, if that is in use, or makes the
\* pcb of a slot that waits for it.
LEMMA MadeRequest ==
    ASSUME TypeOK, Made, HandleMessage
    PROVE  Made'
<1> USE DEF slotVars, ctrlVars, rawVars
<1>1. Head(mailbox).sock \in Socks /\ mailbox # <<>> /\ mailbox' = Tail(mailbox)
      BY TakeType DEF HandleMessage, HandleTx, HandleCreate, HandleConnect, HandleListen,
                      HandleClose, Take
<1>x. PICK x \in Socks : x = Head(mailbox).sock BY <1>1
<1>2. UNCHANGED <<pc, slot, orphans>>
      BY DEF HandleMessage, HandleTx, HandleCreate, HandleConnect, HandleListen, HandleClose
<1>t. /\ mailbox \in Seq(Message) /\ in_use \in [Socks -> BOOLEAN]
      /\ pcb \in [Socks -> PcbStates] /\ listen_tcp \in [Socks -> BOOLEAN]
      /\ remote_close \in [Socks -> BOOLEAN]
      BY DEF TypeOK
<1>3. \A s : (Creating(s)' <=> Creating(s)) /\ (Sent(s)' => Sent(s))
      BY <1>1, <1>2, <1>t, SentTail DEF Creating
<1>4. orphans' = {} BY <1>2 DEF Made
<1>5. ASSUME \A s \in Socks : ~in_use'[s] => Raw(s)' /\ (~in_use[s] \/ ~Raw(s)),
             \A s \in Socks : Creating(s)' \/ Sent(s)' => Raw(s)'
      PROVE  Made'
      BY <1>1, <1>2, <1>4, <1>5, MadeKept
<1>6. CASE HandleTx
  <2>1. UNCHANGED rawVars BY <1>6 DEF HandleTx
  <2> QED BY <1>1, <1>2, <2>1, MadeQuiet
<1>7. CASE HandleCreate
  <2>1. Sent(x) /\ ~Sent(x)'
        BY <1>1, <1>7, <1>t, <1>x, SentTail DEF HandleCreate, Take, Made
  <2>2. ~Creating(x) /\ in_use[x] BY <1>1, <2>1 DEF Made
  <2>3. UNCHANGED in_use /\ \A s \in Socks : s # x => (Raw(s)' <=> Raw(s))
        BY <1>7, <1>x, <1>1, <1>t DEF HandleCreate, NewPcb, TcpError, Raw
  <2>4. ASSUME NEW s \in Socks
        PROVE  /\ ~in_use'[s] => Raw(s)' /\ ~in_use[s]
               /\ Creating(s)' \/ Sent(s)' => Raw(s)'
        BY <1>3, <2>1, <2>2, <2>3 DEF Made
  <2> QED BY <1>5, <2>4
<1>8. CASE HandleConnect \/ HandleListen
  <2>1. UNCHANGED in_use /\ \A s \in Socks : s # x => (Raw(s)' <=> Raw(s))
        BY <1>8, <1>x, <1>1, <1>t DEF HandleConnect, HandleListen, TcpError, Raw
  <2>2. (in_use[x] /\ ~Raw(x)) \/ (Raw(x)' <=> Raw(x))
        BY <1>8, <1>x, <1>1, <1>t DEF HandleConnect, HandleListen, Raw
  <2>3. ASSUME NEW s \in Socks
        PROVE  /\ ~in_use'[s] => Raw(s)' /\ ~in_use[s]
               /\ Creating(s)' \/ Sent(s)' => Raw(s)'
        BY <1>3, <2>1, <2>2 DEF Made
  <2> QED BY <1>5, <2>3
<1>9. CASE HandleClose
  <2>1. CASE UNCHANGED <<pcb, own, listen_tcp, remote_close, state, in_use, param, cb>>
        BY <1>1, <1>2, <2>1, MadeQuiet
  <2>2. CASE /\ in_use[x] /\ (listen_tcp[x] \/ pcb[x] # "null" \/ remote_close[x])
             /\ CloseDone(x, Head(mailbox).notify, Head(mailbox).own)
    <3>1. ~Raw(x) BY <2>2 DEF Raw
    <3>2. Raw(x)' BY <1>1, <1>t, <2>2 DEF CloseDone, Raw
    <3>3. \A s \in Socks : s # x => in_use'[s] = in_use[s] /\ (Raw(s)' <=> Raw(s))
          BY <1>1, <1>t, <2>2 DEF CloseDone, Raw
    <3>4. ASSUME NEW s \in Socks
          PROVE  /\ ~in_use'[s] => Raw(s)' /\ (~in_use[s] \/ ~Raw(s))
                 /\ Creating(s)' \/ Sent(s)' => Raw(s)'
          BY <1>3, <3>1, <3>2, <3>3 DEF Made
    <3> QED BY <1>5, <3>4
  <2> QED BY <1>9, <1>x, <2>1, <2>2 DEF HandleClose
<1> QED BY <1>6, <1>7, <1>8, <1>9 DEF HandleMessage

\* lwIP calls back about a slot that has a pcb or a listener.
LEMMA MadePcb ==
    ASSUME TypeOK, Made, ~overrun', NEW x \in Socks, PcbEvent(x)
    PROVE  Made'
<1> USE DEF slotVars, ctrlVars
<1>1. UNCHANGED <<in_use, pc, slot, mailbox>>
      BY DEF PcbEvent, ConnectedCb, AcceptCb, FinCb, ErrCb
<1>t. /\ pcb \in [Socks -> PcbStates] /\ listen_tcp \in [Socks -> BOOLEAN]
      /\ remote_close \in [Socks -> BOOLEAN]
      BY DEF TypeOK
<1>2. ~Raw(x) BY DEF PcbEvent, ConnectedCb, AcceptCb, Raw
<1>3. orphans' = {} BY DEF Made, PcbEvent, ConnectedCb, AcceptCb, FinCb, ErrCb
<1>4. \A s \in Socks : s # x => (Raw(s)' <=> Raw(s))
      BY <1>t DEF PcbEvent, ConnectedCb, AcceptCb, FinCb, ErrCb, TcpError, Raw
<1>5. \A s : (Creating(s)' <=> Creating(s)) /\ (Sent(s)' <=> Sent(s))
      BY <1>1 DEF Creating, Sent
<1>6. ASSUME NEW s \in Socks
      PROVE  /\ ~in_use'[s] => Raw(s)' /\ ~in_use[s]
             /\ Creating(s)' \/ Sent(s)' => Raw(s)'
      BY <1>1, <1>2, <1>4, <1>5 DEF Made
<1> QED BY <1>1, <1>3, <1>6, MadeKept

LEMMA MadeStep == TypeOK /\ MadeInv /\ [Next]_vars => MadeInv'
<1> SUFFICES ASSUME TypeOK, MadeInv, [Next]_vars, ~overrun' PROVE Made'
    BY DEF MadeInv
<1> USE DEF slotVars, ctrlVars, history
<1>0. ~overrun
  <2>1. ASSUME NEW o \in Callers, StartOp(o) \/ ContinueOp(o) PROVE UNCHANGED overrun
        BY <2>1 DEF StartOp, ContinueOp, StartCreate, RetryCreate, CreateLeaves, Disconnect,
                    Close, Send, ForceClose, Begin, CreatePost, OpenCheck, OpenPost, CleanScan,
                    CleanSlot, CleanDone, ForceTest, MarkClosing, ClosePost, Drop, SendPost
  <2>2. CASE TcpipStep
        BY <2>2 DEF TcpipStep, HandleMessage, HandleTx, HandleCreate, HandleConnect,
                    HandleListen, HandleClose, CbEnter, CbReturn
  <2>3. ASSUME NEW s \in Socks, PcbEvent(s) PROVE ~overrun
        BY <2>3 DEF PcbEvent, ConnectedCb, AcceptCb, FinCb, ErrCb
  <2>4. ASSUME NEW p \in orphans, OrphanEvent(p) PROVE UNCHANGED overrun
        BY <2>4 DEF OrphanEvent, FinCb, ErrCb
  <2>5. CASE UNCHANGED vars BY <2>5 DEF vars
  <2> QED BY <2>1, <2>2, <2>3, <2>4, <2>5 DEF Next
<1>1. Made BY <1>0 DEF MadeInv
<1>2. ASSUME NEW o \in Callers, NEW m, \/ FoundSlot(o, m)
                                       \/ NoSlot(Of(o)) /\ Goto(o, "clean") /\ UNCHANGED slot
                                       \/ NoSlot(Of(o)) /\ Finish(o),
             CreateLeaves, pc[o] # "created"
      PROVE  Made'
  <2>1. CASE FoundSlot(o, m) BY <1>1, <1>2, <2>1, MadeFound
  <2>2. CASE NoSlot(Of(o)) /\ ((Goto(o, "clean") /\ UNCHANGED slot) \/ Finish(o))
    <3>1. UNCHANGED rawVars /\ UNCHANGED <<orphans, mailbox>>
          BY <1>2, <2>2 DEF NoSlot, CreateLeaves, rawVars
    <3>2. \A p \in Callers : pc'[p] = "created" => pc[p] = "created" /\ slot'[p] = slot[p]
          BY <2>2 DEF TypeOK, Goto, Finish
    <3> QED BY <1>1, <3>1, <3>2, MadeQuiet
  <2> QED BY <1>2, <2>1, <2>2
<1>3. ASSUME NEW o \in Callers, StartOp(o) PROVE Made'
  <2>1. ASSUME NEW t \in Threads, StartCreate(o, t) PROVE Made'
    <3>1. CreateLeaves /\ pc[o] # "created" BY <2>1 DEF StartCreate, MayStart
    <3> QED BY <1>2, <2>1, <3>1 DEF StartCreate
  <2> QED BY <1>1, <1>3, <2>1, MadeOps DEF StartOp
<1>4. ASSUME NEW o \in Callers, ContinueOp(o) PROVE Made'
  <2>1. CASE RetryCreate(o)
    <3>1. CreateLeaves /\ pc[o] # "created" BY <2>1 DEF RetryCreate
    <3> QED BY <1>2, <2>1, <3>1 DEF RetryCreate
  <2> QED BY <1>1, <1>4, <2>1, MadeOps, MadePost DEF ContinueOp
<1>5. CASE CbEnter \/ CbReturn \/ UNCHANGED vars
  <2>1. UNCHANGED rawVars /\ UNCHANGED <<orphans, mailbox, pc, slot>>
        BY <1>5 DEF CbEnter, CbReturn, vars, rawVars
  <2> QED BY <1>1, <2>1, MadeQuiet
<1>6. ASSUME NEW p \in orphans PROVE FALSE BY <1>1, <1>6 DEF Made
<1> QED BY <1>0, <1>1, <1>3, <1>4, <1>5, <1>6, MadeRequest, MadePcb DEF Next, TcpipStep

\* The LWIP_ASSERT of net_lwip_create_socket holds while closes of one socket overlap: a
\* slot is free only when it has no pcb and none was asked for.
THEOREM FreeSlotsHaveNoPcb == Spec => []FreeSlotHasNoPcb
<1>1. MadeInv => FreeSlotHasNoPcb BY DEF MadeInv, Made, Raw, Sent, FreeSlotHasNoPcb
<1>2. TypeOK /\ MadeInv /\ [Next]_vars => (TypeOK /\ MadeInv)' BY TypeStep, MadeStep
<1> QED BY <1>1, <1>2, InitTypeOK, InitMade, PTL DEF Spec

-----------------------------------------------------------------------------
(* One call on a ctrl at a time, while none has overlapped another *)

Sole(o) == \A p \in Callers : p # o /\ Of(p) = Of(o) => pc[p] = "idle"

AloneInv == ~crossed => \A o \in Callers : pc[o] # "idle" => Sole(o)

LEMMA InitAlone == Init => AloneInv
BY DEF Init, AloneInv, Sole

\* A step is one caller's, which was in a call or begins one, or nobody's.
LEMMA PcSteps ==
    ASSUME TypeOK, [Next]_vars
    PROVE  /\ crossed' \in BOOLEAN /\ (crossed => crossed')
           /\ \/ UNCHANGED pc
              \/ \E o \in Callers :
                    /\ \A p \in Callers : p # o => pc'[p] = pc[p]
                    /\ \/ pc[o] # "idle"
                       \/ \E t : MayStart(o, t)
<1> USE DEF slotVars, ctrlVars, history
<1>t. pc \in [Callers -> Steps] /\ crossed \in BOOLEAN BY DEF TypeOK
<1> DEFINE Done == /\ crossed' \in BOOLEAN /\ (crossed => crossed')
                   /\ \/ UNCHANGED pc
                      \/ \E o \in Callers :
                            /\ \A p \in Callers : p # o => pc'[p] = pc[p]
                            /\ pc[o] # "idle" \/ \E t : MayStart(o, t)
<1>1. ASSUME NEW o \in Callers, StartOp(o) PROVE Done
  <2>1. PICK t \in Threads :
           StartCreate(o, t) \/ Disconnect(o, t) \/ Send(o, t) \/ Close(o, t) \/ ForceClose(o, t)
        BY <1>1 DEF StartOp
  <2>2. MayStart(o, t) BY <2>1 DEF StartCreate, Disconnect, Send, Close, ForceClose
  <2>3. \E step : Goto(o, step)
        BY <2>1 DEF StartCreate, FoundSlot, Disconnect, Send, Close, ForceClose, Begin
  <2>4. \A p \in Callers : p # o => pc'[p] = pc[p] BY <1>t, <2>3 DEF Goto
  <2>5. crossed' \in BOOLEAN /\ (crossed => crossed') BY <1>t, <2>2 DEF MayStart
  <2> QED BY <2>2, <2>4, <2>5
<1>2. ASSUME NEW o \in Callers, ContinueOp(o) PROVE Done
  <2>1. pc[o] # "idle" /\ UNCHANGED crossed
    <3>1. CASE CleanDone(o) BY <3>1 DEF CleanDone
    <3> QED BY <1>2, <3>1 DEF ContinueOp, RetryCreate, CreatePost, OpenCheck, OpenPost, CleanScan,
               CleanSlot, ForceTest, MarkClosing, ClosePost, Drop, SendPost, Posts
  <2>2. UNCHANGED pc \/ \E step : Goto(o, step)
    <3>1. CASE RetryCreate(o) \/ CreatePost(o) \/ OpenCheck(o) \/ OpenPost(o)
          BY <3>1 DEF RetryCreate, FoundSlot, CreatePost, OpenCheck, OpenPost, Finish
    <3>2. CASE CleanScan(o) \/ CleanSlot(o) \/ CleanDone(o)
          BY <3>2 DEF CleanScan, CleanSlot, CleanDone
    <3>3. CASE ForceTest(o) \/ MarkClosing(o) \/ ClosePost(o) \/ Drop(o) \/ SendPost(o)
          BY <3>3 DEF ForceTest, MarkClosing, ClosePost, Drop, SendPost, Finish
    <3> QED BY <1>2, <3>1, <3>2, <3>3 DEF ContinueOp
  <2>3. \A p \in Callers : p # o => pc'[p] = pc[p] BY <1>t, <2>2 DEF Goto
  <2> QED BY <1>t, <2>1, <2>3
<1>3. CASE TcpipStep
      BY <1>3, <1>t DEF TcpipStep, HandleMessage, HandleTx, HandleCreate, HandleConnect,
             HandleListen, HandleClose, CbEnter, CbReturn
<1>4. ASSUME NEW s \in Socks, PcbEvent(s) PROVE Done
      BY <1>4, <1>t DEF PcbEvent, ConnectedCb, AcceptCb, FinCb, ErrCb
<1>5. ASSUME NEW p \in orphans, OrphanEvent(p) PROVE Done
      BY <1>5, <1>t DEF OrphanEvent, FinCb, ErrCb
<1>6. CASE UNCHANGED vars BY <1>6, <1>t DEF vars
<1> QED BY <1>1, <1>2, <1>3, <1>4, <1>5, <1>6 DEF Next

\* A call that begins without making crossed true has its ctrl for itself.
LEMMA StartIsSole ==
    ASSUME NEW o \in Callers, NEW t, MayStart(o, t), ~crossed'
    PROVE  Sole(o)
BY DEF MayStart, Sole

LEMMA AloneStep == TypeOK /\ AloneInv /\ [Next]_vars => AloneInv'
<1> SUFFICES ASSUME TypeOK, AloneInv, [Next]_vars, ~crossed',
                    NEW q \in Callers, pc'[q] # "idle",
                    NEW p \in Callers, p # q, Of(p) = Of(q)
             PROVE  pc'[p] = "idle"
    BY DEF AloneInv, Sole
<1>1. ~crossed BY PcSteps
<1>2. pc[q] # "idle" => pc[p] = "idle" BY <1>1 DEF AloneInv, Sole
<1>3. pc[p] # "idle" => pc[q] = "idle" BY <1>1 DEF AloneInv, Sole
<1>4. CASE UNCHANGED pc BY <1>2, <1>4
<1>5. ASSUME NEW o \in Callers, \A r \in Callers : r # o => pc'[r] = pc[r],
             pc[o] # "idle" \/ \E t : MayStart(o, t)
      PROVE  pc'[p] = "idle"
  <2>1. Sole(o) BY <1>1, <1>5, StartIsSole DEF AloneInv
  <2>2. CASE q = o BY <1>5, <2>1, <2>2 DEF Sole
  <2>3. CASE p = o BY <1>5, <2>1, <2>3 DEF Sole
  <2>4. CASE q # o /\ p # o BY <1>2, <1>5, <2>4
  <2> QED BY <2>2, <2>3, <2>4
<1> QED BY <1>4, <1>5, PcSteps

-----------------------------------------------------------------------------
(* Calm behaviours: a slot is closed by nobody but its owner, calls on a ctrl  *)
(* do not overlap, and a listening slot accepts one peer                       *)

\* CLOSE is on its way to slot s
CloseSent(s) == \E i \in 1 .. Len(mailbox) : mailbox[i].id = "CLOSE" /\ mailbox[i].sock = s

\* the socket a request was posted for is still there
Alive(m) ==
    /\ in_use[m.sock] /\ tag[m.sock] = m.own
    /\ m.id = "CLOSE" => state[m.sock] = 1

\* nothing follows a CLOSE to its slot
CloseIsLast ==
    \A i, j \in 1 .. Len(mailbox) :
        i < j /\ mailbox[i].id = "CLOSE" => mailbox[j].sock # mailbox[i].sock

Mail == (\A i \in 1 .. Len(mailbox) : Alive(mailbox[i])) /\ CloseIsLast

Mine(c, s) == in_use[s] /\ tag[s] = ctag[c]

Opening == {"created", "selflock"}
Seeking == {"clean", "cleaning", "retry"}
Using == {"opened", "post_open", "disc", "force_mark", "send"}
Claiming == Opening \union Using \union Posts

\* what no call does that leaves the slots of others alone
Stealing == {"cleaning_mark", "cleaning_post", "sweeping_mark", "sweeping_post"}

\* what a call on c knows of the slot it is about
Bond(o) ==
    LET c == Of(o)
        s == slot[o]
    IN
    /\ pc[o] \notin Stealing
    /\ pc[o] \in Seeking => o = Locked(c) /\ socket_id[c] = -1
    /\ pc[o] \in Opening =>
           o = Locked(c) /\ Mine(c, s) /\ state[s] = 0 /\ socket_id[c] = -1
    /\ pc[o] \in Using => Mine(c, s) /\ state[s] = 0 /\ socket_id[c] = s
    /\ pc[o] \in Posts =>
           Mine(c, s) /\ state[s] = 1 /\ socket_id[c] \in {s, -1} /\ ~CloseSent(s)
    /\ pc[o] = "force" =>
           socket_id[c] \in {s, -1} /\ (Mine(c, s) /\ state[s] = 0 => socket_id[c] = s)
    /\ pc[o] = "drop" =>
           socket_id[c] \in {s, -1} /\ ~(Mine(c, s) /\ state[s] = 0 /\ socket_id[c] = s)

\* a free slot has nothing left of its socket, and a pcb was made for the present one
Clean(s) ==
    /\ ~in_use[s] => pcb[s] = "null" /\ ~listen_tcp[s] /\ state[s] = 0 /\ ~remote_close[s]
    /\ pcb[s] # "null" => own[s] = tag[s]

\* an open slot has a holder
Held(s) ==
    in_use[s] /\ state[s] = 0 =>
        /\ param[s] \in Ctrls /\ ctag[param[s]] = tag[s]
        /\ \/ socket_id[param[s]] = s
           \/ pc[Locked(param[s])] \in Opening /\ slot[Locked(param[s])] = s

Good ==
    /\ \A o \in Callers : Bond(o)
    /\ \A s \in Socks : Clean(s)
    /\ \A s \in Socks : Held(s)
    /\ Mail
    /\ orphans = {}
    /\ cb.origin = cb.tag

CalmInv == Calm => Good

LEMMA InitCalm == Init => CalmInv
<1> SUFFICES ASSUME Init PROVE Good BY DEF CalmInv
<1>1. \A o \in Callers : Bond(o)
      BY DEF Init, Bond, Opening, Seeking, Using, Stealing, Posts
<1>2. Len(mailbox) = 0 /\ \A i \in 1 .. Len(mailbox) : FALSE BY DEF Init
<1> QED BY <1>1, <1>2 DEF Init, Good, Clean, Held, Mail, CloseIsLast, NoCb

\* Nothing undoes what ended the calm.
LEMMA CalmBefore ==
    ASSUME TypeOK, [Next]_vars, Calm'
    PROVE  Calm
<1> USE DEF slotVars, ctrlVars, history, Calm
<1>1. meddled \in BOOLEAN /\ overrun \in BOOLEAN /\ crossed \in BOOLEAN BY DEF TypeOK
<1>2. ~crossed BY PcSteps
<1>3. ASSUME NEW o \in Callers, StartOp(o) PROVE Calm
      BY <1>2, <1>3 DEF StartOp, StartCreate, CreateLeaves, Disconnect, Close, Send, ForceClose,
             Begin
<1>4. ASSUME NEW o \in Callers, ContinueOp(o) PROVE Calm
      BY <1>1, <1>2, <1>4 DEF ContinueOp, RetryCreate, CreateLeaves, CreatePost, OpenCheck,
             OpenPost, CleanScan, CleanSlot, CleanDone, ForceTest, MarkClosing, ClosePost, Drop,
             SendPost
<1>5. CASE TcpipStep
      BY <1>5 DEF TcpipStep, HandleMessage, HandleTx, HandleCreate, HandleConnect,
             HandleListen, HandleClose, CbEnter, CbReturn
<1>6. ASSUME NEW s \in Socks, PcbEvent(s) PROVE Calm
      BY <1>1, <1>6 DEF PcbEvent, ConnectedCb, AcceptCb, FinCb, ErrCb
<1>7. ASSUME NEW o \in orphans, OrphanEvent(o) PROVE Calm
      BY <1>7 DEF OrphanEvent, FinCb, ErrCb
<1>8. CASE UNCHANGED vars BY <1>8 DEF vars
<1> QED BY <1>3, <1>4, <1>5, <1>6, <1>7, <1>8 DEF Next

\* A request is posted to a slot that has no CLOSE before it.
LEMMA MailAppend ==
    ASSUME mailbox \in Seq(Message), NEW m \in Message, mailbox' = Append(mailbox, m)
    PROVE  /\ \A s : CloseSent(s)' <=> CloseSent(s) \/ (m.id = "CLOSE" /\ m.sock = s)
           /\ \A i \in 1 .. Len(mailbox') :
                  mailbox'[i] = m \/ \E j \in 1 .. Len(mailbox) : mailbox'[i] = mailbox[j]
           /\ CloseIsLast /\ ~CloseSent(m.sock) => CloseIsLast'
<1> DEFINE n == Len(mailbox)
<1>1. /\ n \in Nat /\ Len(mailbox') = n + 1
      /\ \A i \in 1 .. n : mailbox'[i] = mailbox[i]
      /\ mailbox'[n + 1] = m
      BY AppendProperties
<1> HIDE DEF n
<1>2. \A i \in 1 .. n + 1 : i \in 1 .. n \/ i = n + 1 BY <1>1
<1>3. n + 1 \in 1 .. n + 1 /\ \A i \in 1 .. n : i \in 1 .. n + 1 BY <1>1
<1>4. ASSUME NEW s PROVE CloseSent(s)' <=> CloseSent(s) \/ (m.id = "CLOSE" /\ m.sock = s)
      BY <1>1, <1>2, <1>3 DEF CloseSent, n
<1>5. \A i \in 1 .. Len(mailbox') :
          mailbox'[i] = m \/ \E j \in 1 .. Len(mailbox) : mailbox'[i] = mailbox[j]
      BY <1>1, <1>2 DEF n
<1>6. ASSUME CloseIsLast, ~CloseSent(m.sock),
             NEW i \in 1 .. n + 1, NEW j \in 1 .. n + 1, i < j, mailbox'[i].id = "CLOSE"
      PROVE  mailbox'[j].sock # mailbox'[i].sock
  <2>1. i \in 1 .. n BY <1>1, <1>6
  <2>2. mailbox'[i] = mailbox[i] BY <1>1, <2>1
  <2>3. CASE j \in 1 .. n BY <1>1, <1>6, <2>1, <2>2, <2>3 DEF CloseIsLast, n
  <2>4. CASE j = n + 1 BY <1>1, <1>6, <2>1, <2>2, <2>4 DEF CloseSent, n
  <2> QED BY <1>2, <2>3, <2>4
<1>7. CloseIsLast /\ ~CloseSent(m.sock) => CloseIsLast' BY <1>1, <1>6 DEF CloseIsLast, n
<1> QED BY <1>4, <1>5, <1>7

\* What is left when a message is taken; and after a CLOSE nothing about its slot.
LEMMA MailTail ==
    ASSUME mailbox \in Seq(Message), mailbox # <<>>, mailbox' = Tail(mailbox)
    PROVE  /\ Head(mailbox) = mailbox[1] /\ 1 \in 1 .. Len(mailbox)
           /\ \A s : CloseSent(s)' => CloseSent(s)
           /\ \A i \in 1 .. Len(mailbox') :
                  \E j \in 1 .. Len(mailbox) :
                      /\ 1 < j /\ mailbox'[i] = mailbox[j]
           /\ CloseIsLast => CloseIsLast'
<1> DEFINE n == Len(mailbox) - 1
<1>1. /\ n \in Nat /\ Len(mailbox) = n + 1 /\ Len(mailbox') = n
      /\ \A i \in 1 .. n : mailbox'[i] = mailbox[i + 1]
      BY EmptySeq, HeadTailProperties
<1>0. Head(mailbox) = mailbox[1] BY HeadTailProperties
<1> HIDE DEF n
<1>2. \A i \in 1 .. n : i + 1 \in 1 .. n + 1 /\ 1 < i + 1 BY <1>1
<1>3. \A i \in 1 .. n : \E j \in 1 .. n + 1 : 1 < j /\ mailbox'[i] = mailbox[j] BY <1>1, <1>2
<1>4. \A s : CloseSent(s)' => CloseSent(s) BY <1>1, <1>3 DEF CloseSent
<1>5. ASSUME CloseIsLast, NEW i \in 1 .. n, NEW j \in 1 .. n, i < j, mailbox'[i].id = "CLOSE"
      PROVE  mailbox'[j].sock # mailbox'[i].sock
  <2>1. i + 1 < j + 1 BY <1>5
  <2> QED BY <1>1, <1>2, <1>5, <2>1 DEF CloseIsLast
<1>6. CloseIsLast => CloseIsLast' BY <1>1, <1>5 DEF CloseIsLast
<1>7. 1 \in 1 .. n + 1 BY <1>1
<1> QED BY <1>0, <1>1, <1>3, <1>4, <1>6, <1>7

-----------------------------------------------------------------------------
(* What keeps the parts of Good *)

LEMMA MinesAreMine ==
    ASSUME TypeOK, TagNamesOwner, NEW c \in Ctrls, NEW d \in Ctrls, NEW s \in Socks,
           Mine(c, s), Mine(d, s)
    PROVE  c = d
BY DEF TagNamesOwner, Mine

\* the slot of a call that does not move changes only when nobody claims it
LEMMA BondKept ==
    ASSUME NEW p \in Callers, Bond(p), NEW d, d = Of(p), NEW s, s = slot[p], s \in Socks,
           pc'[p] = pc[p], slot'[p] = slot[p], ctag'[d] = ctag[d],
           \/ socket_id'[d] = socket_id[d]
           \/ socket_id'[d] = -1 /\ ~CheckSocket(d),
           pc[p] \in Claiming =>
               /\ in_use'[s] = in_use[s] /\ state'[s] = state[s] /\ tag'[s] = tag[s]
               /\ CloseSent(s)' => CloseSent(s),
           in_use'[s] /\ state'[s] = 0 /\ tag'[s] = ctag[d]
               => in_use[s] /\ state[s] = 0 /\ tag[s] = ctag[d]
    PROVE  Bond(p)'
<1> DEFINE step == pc[p]
<1> USE DEF Opening, Seeking, Using, Posts, Stealing, Claiming
<1>0. step \notin Stealing BY DEF Bond
<1>1. CASE step \in Opening
  <2>1. p = Locked(d) /\ Mine(d, s) /\ state[s] = 0 /\ socket_id[d] = -1 BY <1>1 DEF Bond
  <2>2. /\ pc'[p] \in Opening /\ in_use'[s] /\ tag'[s] = ctag'[d] /\ state'[s] = 0
        /\ socket_id'[d] = -1
        BY <1>1, <2>1 DEF Mine
  <2> QED BY <2>1, <2>2 DEF Bond, Mine
<1>2. CASE step \in Using
  <2>1. Mine(d, s) /\ state[s] = 0 /\ socket_id[d] = s BY <1>2 DEF Bond
  <2>2. CheckSocket(d) BY <2>1 DEF CheckSocket, Mine
  <2> QED BY <1>2, <2>1, <2>2 DEF Bond, Mine
<1>3. CASE step \in Posts
  <2>1. Mine(d, s) /\ state[s] = 1 /\ socket_id[d] \in {s, -1} /\ ~CloseSent(s)
        BY <1>3 DEF Bond
  <2>2. ~CloseSent(s)' BY <1>3, <2>1
  <2>3. /\ pc'[p] \in Posts /\ in_use'[s] /\ tag'[s] = ctag'[d] /\ state'[s] = 1
        /\ socket_id'[d] \in {s, -1}
        BY <1>3, <2>1 DEF Mine
  <2> QED BY <2>2, <2>3 DEF Bond, Mine
<1>4. CASE step = "force"
  <2>1. socket_id[d] \in {s, -1} /\ (Mine(d, s) /\ state[s] = 0 => socket_id[d] = s)
        BY <1>4 DEF Bond
  <2>2. Mine(d, s) /\ state[s] = 0 => CheckSocket(d) BY <2>1 DEF CheckSocket, Mine
  <2> QED BY <1>4, <2>1, <2>2 DEF Bond, Mine
<1>5. CASE step = "drop"
  <2>1. socket_id[d] \in {s, -1} /\ ~(Mine(d, s) /\ state[s] = 0 /\ socket_id[d] = s)
        BY <1>5 DEF Bond
  <2>2. s # -1 BY SocksFacts
  <2> QED BY <1>5, <2>1, <2>2 DEF Bond, Mine
<1>6. CASE step \in Seeking
  <2>1. p = Locked(d) /\ socket_id[d] = -1 BY <1>6 DEF Bond
  <2> QED BY <1>6, <2>1 DEF Bond
<1>7. CASE step \notin Claiming \union Seeking \union {"force", "drop"}
      BY <1>0, <1>7 DEF Bond
<1> QED BY <1>1, <1>2, <1>3, <1>4, <1>5, <1>6, <1>7

\* an open slot keeps its holder
LEMMA HeldKept ==
    ASSUME TypeOK, NEW s \in Socks, Held(s),
           in_use'[s] /\ state'[s] = 0 =>
               in_use[s] /\ state[s] = 0 /\ tag'[s] = tag[s] /\ param'[s] = param[s],
           \A p \in Ctrls : in_use'[s] /\ state'[s] = 0 /\ Mine(p, s) =>
               /\ ctag'[p] = ctag[p]
               /\ socket_id[p] = s => socket_id'[p] = s
               /\ pc[Locked(p)] \in Opening /\ slot[Locked(p)] = s =>
                      \/ socket_id'[p] = s
                      \/ pc'[Locked(p)] \in Opening /\ slot'[Locked(p)] = s
    PROVE  Held(s)'
<1> SUFFICES ASSUME in_use'[s], state'[s] = 0
             PROVE  /\ param'[s] \in Ctrls /\ ctag'[param'[s]] = tag'[s]
                    /\ \/ socket_id'[param'[s]] = s
                       \/ /\ pc'[Locked(param'[s])] \in Opening
                          /\ slot'[Locked(param'[s])] = s
    BY DEF Held
<1>1. in_use[s] /\ state[s] = 0 /\ tag'[s] = tag[s] /\ param'[s] = param[s] OBVIOUS
<1> DEFINE p == param[s]
<1>2. /\ p \in Ctrls /\ ctag[p] = tag[s]
      /\ socket_id[p] = s \/ (pc[Locked(p)] \in Opening /\ slot[Locked(p)] = s)
      BY <1>1 DEF Held
<1>3. Mine(p, s) BY <1>1, <1>2 DEF Mine
<1> HIDE DEF p
<1>4. /\ ctag'[p] = ctag[p]
      /\ socket_id[p] = s => socket_id'[p] = s
      /\ pc[Locked(p)] \in Opening /\ slot[Locked(p)] = s =>
             socket_id'[p] = s \/ (pc'[Locked(p)] \in Opening /\ slot'[Locked(p)] = s)
      BY <1>2, <1>3
<1>5. param'[s] = p BY <1>1 DEF p
<1> QED BY <1>1, <1>2, <1>4, <1>5

\* lwIP's events are addressed with the tag of the slot they come from
LEMMA DeliverOrigin ==
    ASSUME NEW c, NEW ev, NEW t, Deliver(c, ev, t, t)
    PROVE  cb'.origin = cb'.tag
BY DEF Deliver, NoCb

-----------------------------------------------------------------------------
(* The lwIP thread keeps Good *)

tableVars == <<in_use, state, tag, param, ctag, pc, slot, socket_id>>

\* A message is taken, or none, and the table stays as it is.
LEMMA TableKept ==
    ASSUME TypeOK, Good, UNCHANGED tableVars,
           \/ UNCHANGED mailbox
           \/ mailbox # <<>> /\ mailbox' = Tail(mailbox)
    PROVE  (\A o \in Callers : Bond(o)') /\ (\A s \in Socks : Held(s)') /\ Mail'
<1> USE DEF tableVars
<1>0. mailbox \in Seq(Message) BY DEF TypeOK
<1>1. \A s : CloseSent(s)' => CloseSent(s) BY <1>0, MailTail DEF CloseSent
<1>2. ASSUME NEW o \in Callers PROVE Bond(o)'
  <2>1. PICK s \in Socks : s = slot[o] BY DEF TypeOK
  <2>2. Bond(o) BY DEF Good
  <2> DEFINE d == Of(o)
  <2>3. d = Of(o) OBVIOUS
  <2> HIDE DEF d
  <2>4. /\ in_use'[s] = in_use[s] /\ state'[s] = state[s] /\ tag'[s] = tag[s]
        /\ CloseSent(s)' => CloseSent(s)
        BY <1>1
  <2> QED BY <2>1, <2>2, <2>3, <2>4, BondKept
<1>3. ASSUME NEW s \in Socks PROVE Held(s)'
  <2>1. Held(s) BY DEF Good
  <2> QED BY <2>1 DEF Held
<1>4. Mail'
  <2>1. Mail BY DEF Good
  <2>2. CASE UNCHANGED mailbox
    <3>1. \A i \in 1 .. Len(mailbox) : Alive(mailbox[i]) BY <2>1 DEF Mail
    <3>2. \A m : Alive(m) => Alive(m)' BY DEF Alive
    <3>3. CloseIsLast' BY <2>1, <2>2 DEF Mail, CloseIsLast
    <3> QED BY <2>2, <3>1, <3>2, <3>3 DEF Mail
  <2>3. CASE mailbox # <<>> /\ mailbox' = Tail(mailbox)
    <3>1. CloseIsLast' BY <1>0, <2>1, <2>3, MailTail DEF Mail
    <3>2. ASSUME NEW i \in 1 .. Len(mailbox') PROVE Alive(mailbox[i])'
      <4>1. \E j \in 1 .. Len(mailbox) : mailbox'[i] = mailbox[j] BY <1>0, <2>3, MailTail
      <4> DEFINE m == mailbox'[i]
      <4>2. Alive(m) BY <2>1, <4>1 DEF Mail
      <4> HIDE DEF m
      <4>3. in_use'[m.sock] /\ tag'[m.sock] = m.own /\ (m.id = "CLOSE" => state'[m.sock] = 1)
            BY <4>2 DEF Alive
      <4> QED BY <4>3 DEF Alive, m
    <3> QED BY <3>1, <3>2 DEF Mail
  <2> QED BY <2>2, <2>3
<1> QED BY <1>2, <1>3, <1>4

\* The message taken is about a socket that is still there.
LEMMA HeadAlive ==
    ASSUME TypeOK, Good, NEW id, Take(id)
    PROVE  LET m == Head(mailbox) IN
           /\ m \in Message /\ m.sock \in Socks /\ m.own \in Nat /\ m.notify \in BOOLEAN
           /\ m.id = id /\ Alive(m)
           /\ in_use[m.sock] /\ m.own = tag[m.sock]
           /\ mailbox \in Seq(Message) /\ mailbox # <<>> /\ mailbox' = Tail(mailbox)
           /\ Head(mailbox) = mailbox[1] /\ 1 \in 1 .. Len(mailbox)
<1>1. mailbox \in Seq(Message) /\ mailbox # <<>> /\ mailbox' = Tail(mailbox)
      BY DEF Take, TypeOK
<1>2. Head(mailbox) = mailbox[1] /\ 1 \in 1 .. Len(mailbox) BY <1>1, MailTail
<1>3. Alive(mailbox[1]) BY <1>2 DEF Good, Mail
<1> QED BY <1>1, <1>2, <1>3, TakeType DEF Take, Alive

\* The slots stay clean when what changes of them belongs to a slot that is in use, and
\* a pcb that appears is made for the socket the slot has.
LEMMA CleanKept ==
    ASSUME Good, NEW x \in Socks, UNCHANGED <<in_use, state, tag>>,
           \A s \in Socks : s # x =>
               /\ pcb'[s] = pcb[s] /\ own'[s] = own[s]
               /\ listen_tcp'[s] = listen_tcp[s] /\ remote_close'[s] = remote_close[s],
           \/ in_use[x]
           \/ UNCHANGED <<pcb, own, listen_tcp, remote_close>>,
           \/ pcb'[x] = "null"
           \/ own'[x] = tag[x]
           \/ pcb[x] # "null" /\ own'[x] = own[x]
           \/ UNCHANGED <<pcb, own>>
    PROVE  \A s \in Socks : Clean(s)'
<1>1. ASSUME NEW s \in Socks, s # x PROVE Clean(s)'
  <2>1. Clean(s) BY DEF Good
  <2> QED BY <1>1, <2>1 DEF Clean
<1>2. Clean(x)'
  <2>1. Clean(x) BY DEF Good
  <2> QED BY <2>1 DEF Clean
<1> QED BY <1>1, <1>2

\* A request other than CLOSE.
LEMMA CalmRequest ==
    ASSUME TypeOK, Good, HandleTx \/ HandleCreate \/ HandleConnect \/ HandleListen
    PROVE  Good'
<1> USE DEF slotVars, ctrlVars, history
<1> DEFINE m == Head(mailbox)
           x == m.sock
<1>1. /\ x \in Socks /\ m.own = tag[x] /\ in_use[x]
      /\ mailbox # <<>> /\ mailbox' = Tail(mailbox)
      BY HeadAlive DEF HandleTx, HandleCreate, HandleConnect, HandleListen
<1>2. UNCHANGED tableVars /\ UNCHANGED orphans
      BY DEF HandleTx, HandleCreate, HandleConnect, HandleListen, tableVars
<1>3. (\A o \in Callers : Bond(o)') /\ (\A s \in Socks : Held(s)') /\ Mail'
      BY <1>1, <1>2, TableKept
<1>4. cb.origin = cb.tag /\ orphans = {} BY DEF Good
<1>5. /\ pcb \in [Socks -> PcbStates] /\ own \in [Socks -> Nat]
      /\ listen_tcp \in [Socks -> BOOLEAN] /\ remote_close \in [Socks -> BOOLEAN]
      BY DEF TypeOK
<1> HIDE DEF m, x
<1>6. UNCHANGED cb \/ \E ev : Notify(x, ev, tag[x])
      BY <1>1 DEF HandleTx, HandleCreate, HandleConnect, HandleListen, TcpError, m, x
<1>7. cb'.origin = cb'.tag BY <1>4, <1>6, DeliverOrigin DEF Notify
<1>8. \A s \in Socks : s # x =>
          /\ pcb'[s] = pcb[s] /\ own'[s] = own[s]
          /\ listen_tcp'[s] = listen_tcp[s] /\ remote_close'[s] = remote_close[s]
      BY <1>1, <1>5 DEF HandleTx, HandleCreate, HandleConnect, HandleListen, NewPcb, TcpError, m, x
<1>9. \/ pcb'[x] = "null"
      \/ own'[x] = tag[x]
      \/ pcb[x] # "null" /\ own'[x] = own[x]
      \/ UNCHANGED <<pcb, own>>
      BY <1>1, <1>5 DEF HandleTx, HandleCreate, HandleConnect, HandleListen, NewPcb, m, x
<1>10. \A s \in Socks : Clean(s)'
      BY <1>1, <1>2, <1>8, <1>9, CleanKept DEF tableVars
<1> QED BY <1>2, <1>3, <1>4, <1>7, <1>10 DEF Good

\* lwIP's callbacks.
LEMMA CalmPcb ==
    ASSUME TypeOK, Good, Calm', NEW x \in Socks, PcbEvent(x)
    PROVE  Good'
<1> USE DEF slotVars, ctrlVars, history
<1>1. UNCHANGED tableVars /\ UNCHANGED mailbox
      BY DEF PcbEvent, ConnectedCb, AcceptCb, FinCb, ErrCb, tableVars
<1>2. (\A o \in Callers : Bond(o)') /\ (\A s \in Socks : Held(s)') /\ Mail'
      BY <1>1, TableKept
<1>3. cb.origin = cb.tag /\ orphans = {} /\ Clean(x) BY DEF Good
<1>4. /\ pcb \in [Socks -> PcbStates] /\ own \in [Socks -> Nat]
      /\ listen_tcp \in [Socks -> BOOLEAN] /\ remote_close \in [Socks -> BOOLEAN]
      BY DEF TypeOK
<1>5. pcb[x] # "null" \/ listen_tcp[x]
      BY DEF PcbEvent, ConnectedCb, AcceptCb
<1>6. in_use[x] /\ (pcb[x] # "null" => own[x] = tag[x]) BY <1>3, <1>5 DEF Clean
<1>7. orphans' = {} BY <1>3 DEF PcbEvent, ConnectedCb, AcceptCb, FinCb, ErrCb, Calm
<1>8. UNCHANGED cb \/ \E ev : Notify(x, ev, tag[x])
      BY <1>6 DEF PcbEvent, ConnectedCb, AcceptCb, FinCb, ErrCb, TcpError
<1>9. cb'.origin = cb'.tag BY <1>3, <1>8, DeliverOrigin DEF Notify
<1>10. \A s \in Socks : s # x =>
          /\ pcb'[s] = pcb[s] /\ own'[s] = own[s]
          /\ listen_tcp'[s] = listen_tcp[s] /\ remote_close'[s] = remote_close[s]
      BY <1>4 DEF PcbEvent, ConnectedCb, AcceptCb, FinCb, ErrCb, TcpError
<1>11. \/ pcb'[x] = "null"
       \/ own'[x] = tag[x]
       \/ pcb[x] # "null" /\ own'[x] = own[x]
       \/ UNCHANGED <<pcb, own>>
      BY <1>4 DEF PcbEvent, ConnectedCb, AcceptCb, FinCb, ErrCb
<1>12. \A s \in Socks : Clean(s)'
      BY <1>1, <1>6, <1>10, <1>11, CleanKept DEF tableVars
<1> QED BY <1>2, <1>7, <1>9, <1>12 DEF Good

\* A CLOSE was the last request about its slot, and nobody's operation is about it.
LEMMA CalmClose ==
    ASSUME TypeOK, TagNamesOwner, Good, HandleClose
    PROVE  Good'
<1> USE DEF slotVars, ctrlVars, history
<1> DEFINE m == Head(mailbox)
           x == m.sock
<1>1. /\ m \in Message /\ x \in Socks /\ m.own = tag[x] /\ in_use[x] /\ m.id = "CLOSE" /\ Alive(m)
      /\ mailbox \in Seq(Message) /\ mailbox # <<>> /\ mailbox' = Tail(mailbox)
      /\ m = mailbox[1] /\ 1 \in 1 .. Len(mailbox)
      BY HeadAlive DEF HandleClose
<1>2. CASE UNCHANGED <<pcb, own, listen_tcp, remote_close, state, in_use, param, cb>>
  <2>1. UNCHANGED tableVars /\ UNCHANGED orphans BY <1>2 DEF HandleClose, tableVars
  <2>2. (\A o \in Callers : Bond(o)') /\ (\A s \in Socks : Held(s)') /\ Mail'
        BY <1>1, <2>1, TableKept
  <2>3. \A s \in Socks : Clean(s)' BY <1>1, <1>2, <2>1, CleanKept DEF tableVars
  <2> QED BY <1>2, <2>1, <2>2, <2>3 DEF Good
<1>3. CASE CloseDone(x, m.notify, m.own)
  <2> HIDE DEF m, x
  <2>1. UNCHANGED <<tag, ctag, pc, slot, socket_id, orphans>> BY DEF HandleClose
  <2>2. /\ in_use \in [Socks -> BOOLEAN] /\ state \in [Socks -> {0, 1}]
        /\ pcb \in [Socks -> PcbStates] /\ own \in [Socks -> Nat]
        /\ listen_tcp \in [Socks -> BOOLEAN] /\ remote_close \in [Socks -> BOOLEAN]
        /\ param \in [Socks -> Ctrls \cup {NoCtrl}]
        BY DEF TypeOK
  <2>3. \A s \in Socks : s # x =>
            /\ in_use'[s] = in_use[s] /\ state'[s] = state[s] /\ param'[s] = param[s]
            /\ pcb'[s] = pcb[s] /\ own'[s] = own[s]
            /\ listen_tcp'[s] = listen_tcp[s] /\ remote_close'[s] = remote_close[s]
        BY <1>1, <1>3, <2>2 DEF CloseDone
  <2>4. /\ ~in_use'[x] /\ pcb'[x] = "null" /\ ~listen_tcp'[x] /\ state'[x] = 0
        /\ ~remote_close'[x]
        BY <1>1, <1>3, <2>2 DEF CloseDone
  <2>5. CloseSent(x) /\ state[x] = 1 BY <1>1 DEF CloseSent, Alive, m, x
  <2>6. \A s : CloseSent(s)' => CloseSent(s) BY <1>1, MailTail
  <2>7. ASSUME NEW o \in Callers PROVE Bond(o)'
    <3> DEFINE d == Of(o)
    <3>d. d = Of(o) OBVIOUS
    <3> HIDE DEF d
    <3>1. PICK s \in Socks : s = slot[o] BY DEF TypeOK
    <3>2. Bond(o) BY DEF Good
    <3>3. pc[o] \in Claiming => s # x
          BY <2>5, <3>1, <3>2 DEF Bond, Claiming
    <3>4. /\ pc[o] \in Claiming =>
               /\ in_use'[s] = in_use[s] /\ state'[s] = state[s] /\ tag'[s] = tag[s]
               /\ CloseSent(s)' => CloseSent(s)
          /\ in_use'[s] /\ state'[s] = 0 /\ tag'[s] = ctag[d]
               => in_use[s] /\ state[s] = 0 /\ tag[s] = ctag[d]
          BY <2>1, <2>3, <2>4, <2>6, <3>3
    <3> QED BY <2>1, <3>d, <3>1, <3>2, <3>4, BondKept
  <2>8. ASSUME NEW s \in Socks PROVE Held(s)'
    <3>1. Held(s) BY DEF Good
    <3>2. in_use'[s] => s # x BY <2>4
    <3> QED BY <2>1, <2>3, <3>1, <3>2, HeldKept
  <2>9. ASSUME NEW s \in Socks PROVE Clean(s)'
    <3>1. Clean(s) BY DEF Good
    <3>2. CASE s = x BY <2>4, <3>2 DEF Clean
    <3>3. CASE s # x BY <2>1, <2>3, <3>1, <3>3 DEF Clean
    <3> QED BY <3>2, <3>3
  <2>10. Mail'
    <3>1. CloseIsLast /\ CloseIsLast' BY <1>1, MailTail DEF Good, Mail
    <3>2. ASSUME NEW i \in 1 .. Len(mailbox') PROVE Alive(mailbox[i])'
      <4> DEFINE r == mailbox'[i]
      <4>1. PICK j \in 1 .. Len(mailbox) : 1 < j /\ r = mailbox[j] BY <1>1, MailTail
      <4>2. Alive(r) BY <4>1 DEF Good, Mail
      <4>3. r.sock # x BY <1>1, <3>1, <4>1 DEF CloseIsLast, x
      <4>4. r \in Message BY <1>1, <4>1
      <4>5. r.sock \in Socks BY <4>4 DEF Message
      <4> HIDE DEF r
      <4>6. in_use'[r.sock] /\ tag'[r.sock] = r.own /\ (r.id = "CLOSE" => state'[r.sock] = 1)
            BY <2>1, <2>3, <4>2, <4>3, <4>5 DEF Alive
      <4> QED BY <4>6 DEF Alive, r
    <3> QED BY <3>1, <3>2 DEF Mail
  <2>11. cb'.origin = cb'.tag
    <3>1. cb.origin = cb.tag BY DEF Good
    <3>2. UNCHANGED cb \/ Notify(x, "CLOSE_OK", tag[x]) BY <1>1, <1>3 DEF CloseDone
    <3> QED BY <3>1, <3>2, DeliverOrigin DEF Notify
  <2> QED BY <2>1, <2>7, <2>8, <2>9, <2>10, <2>11 DEF Good
<1> QED BY <1>2, <1>3 DEF HandleClose

LEMMA CalmTcpip ==
    ASSUME TypeOK, TagNamesOwner, Good, Calm',
           \/ TcpipStep
           \/ \E s \in Socks : PcbEvent(s)
           \/ \E o \in orphans : OrphanEvent(o)
    PROVE  Good'
<1> USE DEF slotVars, ctrlVars, history
<1>1. CASE CbEnter \/ CbReturn
  <2>1. /\ UNCHANGED tableVars
        /\ UNCHANGED <<mailbox, orphans, pcb, own, listen_tcp, remote_close>>
        BY <1>1 DEF CbEnter, CbReturn, tableVars
  <2>2. (\A o \in Callers : Bond(o)') /\ (\A s \in Socks : Held(s)') /\ Mail'
        BY <2>1, TableKept
  <2>3. 0 \in Socks BY SocksFacts
  <2>4. \A s \in Socks : Clean(s)' BY <2>1, <2>3, CleanKept DEF tableVars
  <2>5. cb \in CbType /\ cb.origin = cb.tag BY DEF TypeOK, CbType, Good
  <2>6. cb'.origin = cb'.tag BY <1>1, <2>5 DEF CbEnter, CbReturn, NoCb, CbType
  <2> QED BY <2>1, <2>2, <2>4, <2>6 DEF Good
<1>2. orphans = {} BY DEF Good
<1> QED BY <1>1, <1>2, CalmRequest, CalmClose, CalmPcb DEF TcpipStep, HandleMessage

-----------------------------------------------------------------------------
(* The operations keep Good *)

othersAlone(o) ==
    /\ \A p \in Callers : p # o => pc'[p] = pc[p] /\ slot'[p] = slot[p]
    /\ \A d \in Ctrls : d # Of(o) => socket_id'[d] = socket_id[d]

\* A call that is over claims no slot.
LEMMA BondOver ==
    ASSUME NEW p \in Callers, pc'[p] \in {"idle", "sweep", "sweeping"}
    PROVE  Bond(p)'
BY DEF Bond, Opening, Seeking, Using, Posts, Stealing

\* A call on c marks at most its own open slot as closing, posts at most one request, and
\* gives up at most a number whose slot is not open.
LEMMA OperationKeeps ==
    ASSUME TypeOK, TagNamesOwner, Good, NEW o \in Callers, Sole(o),
           NEW c \in Ctrls, c = Of(o), NEW x \in Socks,
           UNCHANGED <<in_use, tag, param, ctag, orphans, cb>>,
           othersAlone(o),
           \A s \in Socks : s # x => state'[s] = state[s],
           state'[x] = state[x] \/ (state'[x] = 1 /\ state[x] = 0 /\ Mine(c, x)),
           \/ UNCHANGED mailbox
           \/ \E m \in Message :
                 /\ mailbox' = Append(mailbox, m)
                 /\ Alive(m) /\ ~CloseSent(m.sock)
                 /\ m.id = "CLOSE" => Mine(c, m.sock),
           \A s \in Socks : Mine(c, s) /\ state'[s] = 0 =>
               /\ socket_id[c] = s => socket_id'[c] = s
               /\ pc[o] \in Opening /\ slot[o] = s =>
                      socket_id'[c] = s \/ (pc'[o] \in Opening /\ slot'[o] = s),
           Bond(o)',
           \A s \in Socks : Clean(s)'
    PROVE  Good'
<1>0. /\ mailbox \in Seq(Message) /\ state \in [Socks -> {0, 1}]
      /\ cb.origin = cb.tag /\ orphans = {} /\ Mail
      BY DEF TypeOK, Good
<1>1. ASSUME NEW p \in Callers, p # o PROVE Bond(p)'
  <2>0. PICK s \in Socks : s = slot[p] BY DEF TypeOK
  <2>d. PICK d \in Ctrls : d = Of(p) BY CallersFacts
  <2>1. Bond(p) BY DEF Good
  <2>2. pc'[p] = pc[p] /\ slot'[p] = slot[p] BY <1>1 DEF othersAlone
  <2>c. CASE d = c
    <3>1. pc'[p] = "idle" BY <1>1, <2>d, <2>2, <2>c DEF Sole
    <3> QED BY <3>1, BondOver
  <2> SUFFICES ASSUME d # c PROVE Bond(p)'
      BY <2>c
  <2>s. ctag'[d] = ctag[d] /\ socket_id'[d] = socket_id[d] BY DEF othersAlone
  <2>3. ~(Mine(d, s) /\ Mine(c, s)) BY MinesAreMine
  <2>4. pc[p] \in Claiming => Mine(d, s)
        BY <2>0, <2>d, <2>1 DEF Bond, Claiming
  <2>5. Mine(d, s) => state'[s] = state[s] BY <2>3
  <2>6. Mine(d, s) /\ CloseSent(s)' => CloseSent(s)
    <3>1. CASE UNCHANGED mailbox BY <3>1 DEF CloseSent
    <3>2. ASSUME NEW m \in Message, mailbox' = Append(mailbox, m), m.id = "CLOSE" => Mine(c, m.sock)
          PROVE  Mine(d, s) /\ CloseSent(s)' => CloseSent(s)
      <4>1. CloseSent(s)' <=> CloseSent(s) \/ (m.id = "CLOSE" /\ m.sock = s)
            BY <1>0, <3>2, MailAppend
      <4> QED BY <2>3, <3>2, <4>1
    <3> QED BY <3>1, <3>2
  <2>7. in_use'[s] /\ state'[s] = 0 /\ tag'[s] = ctag[d]
            => in_use[s] /\ state[s] = 0 /\ tag[s] = ctag[d]
        BY <2>1
  <2> QED BY <2>0, <2>d, <2>1, <2>2, <2>s, <2>4, <2>5, <2>6, <2>7, BondKept
<1>2. ASSUME NEW s \in Socks PROVE Held(s)'
  <2>1. Held(s) BY DEF Good
  <2>2. state'[s] = 0 => state[s] = 0 BY DEF TypeOK
  <2>3. ASSUME NEW p \in Ctrls, Mine(p, s), state'[s] = 0
        PROVE  /\ ctag'[p] = ctag[p]
               /\ socket_id[p] = s => socket_id'[p] = s
               /\ pc[Locked(p)] \in Opening /\ slot[Locked(p)] = s =>
                      \/ socket_id'[p] = s
                      \/ pc'[Locked(p)] \in Opening /\ slot'[Locked(p)] = s
    <3>0. Locked(p) \in Callers /\ Of(Locked(p)) = p BY CallersFacts
    <3>1. CASE Locked(p) = o BY <2>3, <3>0, <3>1
    <3>2. CASE Locked(p) # o /\ p = c
      <4>1. pc[Locked(p)] = "idle" BY <3>0, <3>2 DEF Sole
      <4> QED BY <2>3, <3>2, <4>1 DEF Opening
    <3>3. CASE Locked(p) # o /\ p # c BY <2>3, <3>0, <3>3 DEF othersAlone
    <3> QED BY <3>1, <3>2, <3>3
  <2> QED BY <2>1, <2>2, <2>3, HeldKept
<1>3. ASSUME NEW m \in Message, Alive(m) PROVE in_use'[m.sock] /\ tag'[m.sock] = m.own
                                     /\ (m.id = "CLOSE" => state'[m.sock] = 1)
  <2>1. m.sock \in Socks BY DEF Message
  <2> QED BY <1>3, <2>1 DEF Alive
<1>4. Mail'
  <2>1. CloseIsLast'
    <3>1. CASE UNCHANGED mailbox BY <1>0, <3>1 DEF Mail, CloseIsLast
    <3>2. ASSUME NEW m \in Message, mailbox' = Append(mailbox, m), ~CloseSent(m.sock)
          PROVE  CloseIsLast'
          BY <1>0, <3>2, MailAppend DEF Mail
    <3> QED BY <3>1, <3>2
  <2>2. ASSUME NEW i \in 1 .. Len(mailbox') PROVE Alive(mailbox[i])'
    <3> DEFINE r == mailbox'[i]
    <3>0. i \in 1 .. Len(mailbox') /\ r = mailbox'[i] BY <2>2
    <3> HIDE DEF r
    <3>1. Alive(r) /\ r \in Message
      <4>1. CASE UNCHANGED mailbox
        <5>1. r = mailbox[i] /\ i \in 1 .. Len(mailbox) BY <3>0, <4>1
        <5> QED BY <1>0, <5>1 DEF Mail
      <4>2. ASSUME NEW m \in Message, mailbox' = Append(mailbox, m), Alive(m)
            PROVE  Alive(r) /\ r \in Message
        <5>1. r = m \/ \E j \in 1 .. Len(mailbox) : r = mailbox[j]
              BY <1>0, <3>0, <4>2, MailAppend
        <5> QED BY <1>0, <4>2, <5>1 DEF Mail
      <4> QED BY <4>1, <4>2
    <3>2. in_use'[r.sock] /\ tag'[r.sock] = r.own /\ (r.id = "CLOSE" => state'[r.sock] = 1)
          BY <1>3, <3>1
    <3> QED BY <3>2 DEF Alive, r
  <2> QED BY <2>1, <2>2 DEF Mail
<1>5. \A p \in Callers : Bond(p)' BY <1>1
<1> QED BY <1>0, <1>2, <1>4, <1>5 DEF Good

\* The slots stay clean when only the mark of a slot in use changes.
LEMMA MarkKeepsClean ==
    ASSUME TypeOK, Good, NEW x \in Socks,
           UNCHANGED <<in_use, tag, pcb, own, listen_tcp, remote_close>>,
           \A s \in Socks : s # x => state'[s] = state[s],
           in_use[x] \/ state'[x] = state[x]
    PROVE  \A s \in Socks : Clean(s)'
<1> SUFFICES ASSUME NEW s \in Socks PROVE Clean(s)' OBVIOUS
<1>1. Clean(s) BY DEF Good
<1> QED BY <1>1 DEF Clean

\* The steps of a call that only change what the call is doing.
quietVars == <<in_use, tag, param, ctag, state, mailbox, orphans, cb, pcb, own, listen_tcp,
               remote_close>>

LEMMA CalmMoves ==
    ASSUME TypeOK, TagNamesOwner, Good, NEW o \in Callers, Sole(o), NEW c \in Ctrls, c = Of(o),
           UNCHANGED quietVars, othersAlone(o),
           pc[o] \notin Opening,
           \/ socket_id'[c] = socket_id[c]
           \/ ~(socket_id[c] \in Socks /\ Mine(c, socket_id[c]) /\ state[socket_id[c]] = 0),
           Bond(o)'
    PROVE  Good'
<1> USE DEF quietVars
<1>1. 0 \in Socks BY SocksFacts
<1>2. \A s \in Socks : Clean(s)' BY <1>1, MarkKeepsClean
<1>3. \A s \in Socks : Mine(c, s) /\ state'[s] = 0 => (socket_id[c] = s => socket_id'[c] = s)
      OBVIOUS
<1> QED BY <1>1, <1>2, <1>3, OperationKeeps

LEMMA GotoStep ==
    ASSUME TypeOK, NEW o \in Callers, NEW step, Goto(o, step)
    PROVE  pc'[o] = step /\ \A p \in Callers : p # o => pc'[p] = pc[p]
BY DEF TypeOK, Goto

LEMMA FinishSteps ==
    ASSUME TypeOK, NEW o \in Callers, Finish(o)
    PROVE  /\ pc'[o] = "idle" /\ Bond(o)'
           /\ \A p \in Callers : p # o => pc'[p] = pc[p] /\ slot'[p] = slot[p]
<1>1. pc'[o] = "idle" /\ \A p \in Callers : p # o => pc'[p] = pc[p] BY GotoStep DEF Finish
<1>2. \A p \in Callers : p # o => slot'[p] = slot[p] BY DEF Finish, TypeOK
<1> QED BY <1>1, <1>2, BondOver

\* A call begins about the slot whose number the ctrl has.
LEMMA CalmBegin ==
    ASSUME TypeOK, TagNamesOwner, Good, NEW o \in Callers, Sole(o), pc[o] = "idle",
           NEW t, NEW step, Begin(o, t, step), socket_id[Of(o)] \in Socks,
           \/ step \in {"disc", "send"} /\ CheckSocket(Of(o))
           \/ step \in {"force", "sweep"}
           \/ step = "drop" /\ ~CheckSocket(Of(o))
    PROVE  Good'
<1> USE DEF slotVars
<1>0. PICK c \in Ctrls : c = Of(o) BY CallersFacts
<1>1. UNCHANGED quietVars /\ UNCHANGED <<ctag, socket_id>> BY DEF Begin, quietVars
<1>2. pc[o] \notin Opening BY DEF Opening
<1>3. slot'[o] = socket_id[c] /\ \A p \in Callers : p # o => slot'[p] = slot[p]
      BY <1>0 DEF Begin, TypeOK
<1>4. pc'[o] = step /\ \A p \in Callers : p # o => pc'[p] = pc[p] BY GotoStep DEF Begin
<1>5. othersAlone(o) BY <1>1, <1>3, <1>4 DEF othersAlone
<1>6. Bond(o)'
  <2>1. \A s : Mine(c, s)' <=> Mine(c, s) BY <1>1 DEF Mine, quietVars
  <2>2. state' = state /\ socket_id'[c] = socket_id[c] BY <1>1 DEF quietVars
  <2>3. PICK s \in Socks : s = socket_id[c] BY <1>0
  <2>4. CheckSocket(c) <=> Mine(c, s) /\ state[s] = 0 BY <2>3 DEF CheckSocket, Mine
  <2> QED BY <1>0, <1>3, <1>4, <2>1, <2>2, <2>3, <2>4
          DEF Bond, Opening, Seeking, Using, Posts, Stealing
<1> QED BY <1>0, <1>1, <1>2, <1>5, <1>6, CalmMoves

LEMMA CalmStart ==
    ASSUME TypeOK, TagNamesOwner, Good, ~crossed', NEW o \in Callers, NEW t \in Threads,
           Disconnect(o, t) \/ Close(o, t) \/ Send(o, t) \/ ForceClose(o, t)
    PROVE  Good'
<1>1. MayStart(o, t) BY DEF Disconnect, Close, Send, ForceClose
<1>2. Sole(o) /\ pc[o] = "idle" BY <1>1, StartIsSole DEF MayStart
<1>3. CASE Disconnect(o, t) \/ Send(o, t)
      BY <1>2, <1>3, CalmBegin DEF Disconnect, Send, CheckSocket
<1>4. CASE Close(o, t)
  <2>1. PICK step : /\ Begin(o, t, step) /\ socket_id[Of(o)] \in Socks
                    /\ \/ step \in {"force", "sweep"}
                       \/ step = "drop" /\ ~in_use[socket_id[Of(o)]]
        BY <1>4 DEF Close
  <2> QED BY <1>2, <2>1, CalmBegin DEF CheckSocket
<1>5. CASE ForceClose(o, t) BY <1>2, <1>5, CalmBegin DEF ForceClose
<1> QED BY <1>3, <1>4, <1>5

\* The checks of an operation, the test of a close, and the end of one.
LEMMA CalmCheck ==
    ASSUME TypeOK, TagNamesOwner, Good, Calm', NEW o \in Callers, Sole(o),
           OpenCheck(o) \/ CleanDone(o) \/ ForceTest(o) \/ Drop(o)
    PROVE  Good'
<1> USE DEF slotVars
<1>0. PICK c \in Ctrls : c = Of(o) BY CallersFacts
<1>x. PICK x \in Socks : x = slot[o] BY DEF TypeOK
<1>1. UNCHANGED quietVars /\ UNCHANGED ctag
      BY DEF OpenCheck, CleanDone, ForceTest, Drop, quietVars
<1>2. pc[o] \notin Opening BY DEF OpenCheck, CleanDone, ForceTest, Drop, Opening
<1>3. Bond(o) BY DEF Good
<1>t. /\ socket_id \in [Ctrls -> Socks \cup {-1}] /\ slot \in [Callers -> Socks]
      /\ state \in [Socks -> {0, 1}]
      BY DEF TypeOK
<1>m. /\ \A s : Mine(c, s)' <=> Mine(c, s)
      /\ state' = state
      BY <1>1 DEF Mine, quietVars
<1>b. -1 \notin Socks BY SocksFacts
<1>4. CASE OpenCheck(o)
  <2>1. Mine(c, x) /\ state[x] = 0 /\ socket_id[c] = x
        BY <1>0, <1>x, <1>3, <1>4 DEF OpenCheck, Bond, Using
  <2>2. CheckSocket(c) BY <2>1 DEF CheckSocket, Mine
  <2>3. Goto(o, "post_open") /\ UNCHANGED <<slot, socket_id>> BY <1>0, <1>4, <2>2 DEF OpenCheck
  <2>4. pc'[o] = "post_open" /\ othersAlone(o) BY <2>3, GotoStep DEF othersAlone
  <2>5. slot'[o] = x /\ socket_id'[c] = x BY <1>x, <2>1, <2>3
  <2>6. Bond(o)'
        BY <1>0, <1>m, <2>1, <2>4, <2>5 DEF Bond, Opening, Seeking, Using, Posts, Stealing
  <2> QED BY <1>0, <1>1, <1>2, <2>3, <2>4, <2>6, CalmMoves
<1>5. CASE CleanDone(o)
  <2>1. UNCHANGED socket_id BY <1>5 DEF CleanDone
  <2>2. \/ pc[o] = "cleaning" /\ Goto(o, "retry") /\ UNCHANGED slot
        \/ /\ socket_id[c] \in Socks /\ Goto(o, "force")
           /\ slot' = [slot EXCEPT ![o] = socket_id[c]]
        \/ socket_id[c] = -1 /\ Goto(o, "drop") /\ UNCHANGED slot
        BY <1>0, <1>5 DEF CleanDone
  <2>3. othersAlone(o)
    <3>1. \A p \in Callers : p # o => pc'[p] = pc[p] BY <2>2, GotoStep
    <3>2. \A p \in Callers : p # o => slot'[p] = slot[p] BY <2>2, <1>t
    <3> QED BY <2>1, <3>1, <3>2 DEF othersAlone
  <2>4. Bond(o)'
    <3>1. CASE pc[o] = "cleaning" /\ Goto(o, "retry") /\ UNCHANGED slot
      <4>1. pc'[o] = "retry" BY <3>1, GotoStep
      <4>2. o = Locked(c) /\ socket_id'[c] = -1
            BY <1>0, <1>3, <2>1, <3>1 DEF Bond, Seeking
      <4> QED BY <1>0, <4>1, <4>2 DEF Bond, Opening, Seeking, Using, Posts, Stealing
    <3>2. CASE /\ socket_id[c] \in Socks /\ Goto(o, "force")
               /\ slot' = [slot EXCEPT ![o] = socket_id[c]]
      <4>1. pc'[o] = "force" BY <3>2, GotoStep
      <4>2. slot'[o] = socket_id[c] /\ socket_id'[c] = socket_id[c] BY <1>t, <2>1, <3>2
      <4> QED BY <1>0, <4>1, <4>2 DEF Bond, Opening, Seeking, Using, Posts, Stealing
    <3>3. CASE socket_id[c] = -1 /\ Goto(o, "drop") /\ UNCHANGED slot
      <4>1. pc'[o] = "drop" BY <3>3, GotoStep
      <4>2. slot'[o] = x /\ socket_id'[c] = -1 /\ x # -1 BY <1>x, <1>b, <2>1, <3>3
      <4> QED BY <1>0, <4>1, <4>2 DEF Bond, Opening, Seeking, Using, Posts, Stealing
    <3> QED BY <2>2, <3>1, <3>2, <3>3
  <2> QED BY <1>0, <1>1, <1>2, <2>1, <2>3, <2>4, CalmMoves
<1>6. CASE ForceTest(o)
  <2>1. socket_id[c] \in {x, -1} /\ (Mine(c, x) /\ state[x] = 0 => socket_id[c] = x)
        BY <1>0, <1>x, <1>3, <1>6 DEF ForceTest, Bond
  <2>2. UNCHANGED <<slot, socket_id>> BY <1>6 DEF ForceTest
  <2>3. \/ in_use[x] /\ state[x] = 0 /\ Goto(o, "force_mark")
        \/ ~(in_use[x] /\ state[x] = 0) /\ Goto(o, "drop")
        BY <1>x, <1>6 DEF ForceTest
  <2>4. in_use[x] /\ state[x] = 0 => tag[x] = ctag[c]
        BY <1>0, <1>x, <1>6 DEF ForceTest, Calm
  <2>5. othersAlone(o) BY <2>2, <2>3, GotoStep DEF othersAlone
  <2>6. \/ pc'[o] = "force_mark" /\ Mine(c, x) /\ state[x] = 0
        \/ pc'[o] = "drop" /\ ~(Mine(c, x) /\ state[x] = 0)
        BY <2>3, <2>4, GotoStep DEF Mine
  <2>7. slot'[o] = x /\ socket_id'[c] = socket_id[c] BY <1>x, <2>2
  <2>8. Bond(o)'
        BY <1>0, <1>m, <2>1, <2>6, <2>7 DEF Bond, Opening, Seeking, Using, Posts, Stealing
  <2> QED BY <1>0, <1>1, <1>2, <2>2, <2>5, <2>8, CalmMoves
<1>7. CASE Drop(o)
  <2>1. socket_id[c] \in {x, -1} /\ ~(Mine(c, x) /\ state[x] = 0 /\ socket_id[c] = x)
        BY <1>0, <1>x, <1>3, <1>7 DEF Drop, Bond
  <2>2. socket_id' = [socket_id EXCEPT ![c] = -1] /\ Finish(o) BY <1>0, <1>7 DEF Drop
  <2>3. Bond(o)' /\ othersAlone(o) BY <1>0, <1>t, <2>2, FinishSteps DEF othersAlone
  <2> QED BY <1>0, <1>1, <1>2, <1>b, <2>1, <2>3, CalmMoves
<1> QED BY <1>4, <1>5, <1>6, <1>7

\* The requests of an operation: CONNECT or LISTEN, TX and CLOSE.
LEMMA CalmPost ==
    ASSUME TypeOK, TagNamesOwner, Good, NEW o \in Callers, Sole(o),
           OpenPost(o) \/ SendPost(o) \/ ClosePost(o)
    PROVE  Good'
<1> USE DEF slotVars
<1>0. PICK c \in Ctrls : c = Of(o) BY CallersFacts
<1>x. PICK x \in Socks : x = slot[o] BY DEF TypeOK
<1>t. /\ slot \in [Callers -> Socks] /\ ctag[c] \in Nat /\ tag[x] \in Nat
      BY DEF TypeOK
<1>1. UNCHANGED <<in_use, tag, param, ctag, orphans, cb, state, socket_id>>
      /\ UNCHANGED <<pcb, own, listen_tcp, remote_close>>
      BY DEF OpenPost, SendPost, ClosePost
<1>2. Bond(o) BY DEF Good
<1>3. \A s \in Socks : Clean(s)' BY <1>1, MarkKeepsClean
<1>4. pc[o] \notin Opening BY DEF OpenPost, SendPost, ClosePost, Posts, Opening
<1>5. CASE OpenPost(o) \/ SendPost(o)
  <2>1. Finish(o) BY <1>5 DEF OpenPost, SendPost
  <2>2. Bond(o)' /\ othersAlone(o) BY <1>1, <2>1, FinishSteps DEF othersAlone
  <2>3. Mine(c, x) /\ state[x] = 0
        BY <1>0, <1>x, <1>2, <1>5 DEF OpenPost, SendPost, Bond, Using
  <2>4. ~CloseSent(x) BY <2>3 DEF Good, Mail, CloseSent, Alive
  <2>5. PICK id \in {"CONNECT", "LISTEN", "TX"} : Post(id, x, FALSE, ctag[c])
        BY <1>0, <1>x, <1>5 DEF OpenPost, SendPost
  <2> DEFINE m == [id |-> id, sock |-> x, notify |-> FALSE, own |-> ctag[c]]
  <2>6. m \in Message /\ m.sock = x /\ m.id # "CLOSE" /\ m.own = tag[x]
        BY <1>t, <2>3 DEF Message, Requests, Mine
  <2>7. mailbox' = Append(mailbox, m) BY <2>5 DEF Post
  <2> HIDE DEF m
  <2>8. Alive(m) BY <2>3, <2>6 DEF Alive, Mine
  <2>9. ~CloseSent(m.sock) BY <2>4, <2>6
  <2> QED BY <1>0, <1>1, <1>3, <1>4, <2>2, <2>6, <2>7, <2>8, <2>9, OperationKeeps
<1>6. CASE ClosePost(o)
  <2>1. Mine(c, x) /\ state[x] = 1 /\ socket_id[c] \in {x, -1} /\ ~CloseSent(x)
        BY <1>0, <1>x, <1>2, <1>6 DEF ClosePost, Bond
  <2>2. PICK n \in BOOLEAN : Post("CLOSE", x, n, tag[x]) BY <1>x, <1>6 DEF ClosePost
  <2> DEFINE m == [id |-> "CLOSE", sock |-> x, notify |-> n, own |-> tag[x]]
  <2>3. m \in Message /\ m.sock = x /\ m.own = tag[x]
        BY <1>t DEF Message, Requests
  <2>4. mailbox' = Append(mailbox, m) BY <2>2 DEF Post
  <2> HIDE DEF m
  <2>5. Alive(m) BY <2>1, <2>3 DEF Alive, Mine
  <2>6. pc[o] \notin Stealing BY <1>2 DEF Bond
  <2>7. \/ Finish(o)
        \/ Goto(o, "drop") /\ UNCHANGED slot
        BY <1>6, <2>6 DEF ClosePost, Stealing
  <2>8. Bond(o)' /\ othersAlone(o)
    <3>1. CASE Finish(o) BY <1>1, <3>1, FinishSteps DEF othersAlone
    <3>2. CASE Goto(o, "drop") /\ UNCHANGED slot
      <4>1. pc'[o] = "drop" /\ othersAlone(o) BY <1>1, <3>2, GotoStep DEF othersAlone
      <4>2. slot'[o] = x /\ socket_id'[c] = socket_id[c] /\ state'[x] = 1
            BY <1>x, <1>1, <2>1, <3>2
      <4> QED BY <1>0, <2>1, <4>1, <4>2 DEF Bond, Opening, Seeking, Using, Posts, Stealing
    <3> QED BY <2>7, <3>1, <3>2
  <2>9. ~CloseSent(m.sock) /\ Mine(c, m.sock) BY <2>1, <2>3
  <2> QED BY <1>0, <1>1, <1>3, <1>4, <2>3, <2>4, <2>5, <2>8, <2>9, OperationKeeps
<1> QED BY <1>5, <1>6

\* state = 1.  While no call overlaps another, what was tested before is still so.
LEMMA CalmMark ==
    ASSUME TypeOK, TagNamesOwner, Good, NEW o \in Callers, Sole(o), MarkClosing(o)
    PROVE  Good'
<1> USE DEF slotVars
<1>0. PICK c \in Ctrls : c = Of(o) BY CallersFacts
<1>x. PICK x \in Socks : x = slot[o] BY DEF TypeOK
<1>t. state \in [Socks -> {0, 1}] BY DEF TypeOK
<1>1. /\ UNCHANGED <<in_use, tag, param, ctag, orphans, cb, mailbox, slot, socket_id>>
      /\ UNCHANGED <<pcb, own, listen_tcp, remote_close>>
      /\ state' = [state EXCEPT ![x] = 1]
      BY <1>x DEF MarkClosing
<1>2. Bond(o) BY DEF Good
<1>3. pc[o] \notin Stealing BY <1>2 DEF Bond
<1>4. /\ pc[o] \in {"disc", "force_mark"}
      /\ Goto(o, "disc_post") \/ Goto(o, "force_post")
      BY <1>3 DEF MarkClosing, Stealing
<1>5. Mine(c, x) /\ state[x] = 0 /\ socket_id[c] = x
      BY <1>0, <1>x, <1>2, <1>4 DEF Bond, Using
<1>6. pc'[o] \in {"disc_post", "force_post"} /\ othersAlone(o)
      BY <1>1, <1>4, GotoStep DEF othersAlone
<1>7. ~CloseSent(x) BY <1>5 DEF Good, Mail, CloseSent, Alive
<1>8. state'[x] = 1 /\ \A s \in Socks : s # x => state'[s] = state[s] BY <1>1, <1>t
<1>9. Bond(o)'
  <2>1. ~CloseSent(x)' BY <1>1, <1>7 DEF CloseSent
  <2>2. slot'[o] = x /\ socket_id'[c] = x /\ in_use'[x] /\ tag'[x] = ctag'[c]
        BY <1>x, <1>1, <1>5 DEF Mine
  <2> QED BY <1>0, <1>6, <1>8, <2>1, <2>2
          DEF Bond, Mine, Opening, Seeking, Using, Posts, Stealing
<1>10. \A s \in Socks : Clean(s)' BY <1>1, <1>5, <1>8, <1>t, MarkKeepsClean DEF Mine
<1>11. pc[o] \notin Opening BY <1>4 DEF Opening
<1> QED BY <1>0, <1>1, <1>5, <1>6, <1>8, <1>9, <1>10, <1>11, OperationKeeps

\* One turn of net_lwip_socket_clean: an open slot has its owner, so that setting about
\* closing it would end the calm.
LEMMA CalmCleanSlot ==
    ASSUME TypeOK, TagNamesOwner, Good, Calm', NEW o \in Callers, Sole(o), CleanSlot(o)
    PROVE  Good'
<1> USE DEF slotVars
<1>0. PICK c \in Ctrls : c = Of(o) BY CallersFacts
<1>1. PICK s \in todo[o] :
          \/ /\ in_use[s] /\ state[s] = 0
             /\ meddled' = (meddled \/ \E d \in Ctrls : ctag[d] = tag[s])
          \/ pc[o] \in {"cleaning", "sweeping"} /\ UNCHANGED <<pc, slot>>
      BY DEF CleanSlot
<1>2. s \in Socks BY DEF TypeOK
<1>3. pc[o] \in {"cleaning", "sweeping"} /\ UNCHANGED <<pc, slot>>
  <2>1. ASSUME in_use[s], state[s] = 0 PROVE \E d \in Ctrls : ctag[d] = tag[s]
        BY <1>2, <2>1 DEF Good, Held
  <2> QED BY <1>1, <2>1 DEF Calm
<1>4. UNCHANGED quietVars /\ UNCHANGED <<ctag, socket_id>> BY DEF CleanSlot, quietVars
<1>5. pc[o] \notin Opening BY <1>3 DEF Opening
<1>6. Bond(o)'
  <2>1. CASE pc[o] = "cleaning"
    <3>1. o = Locked(c) /\ socket_id[c] = -1 BY <1>0, <2>1 DEF Good, Bond, Seeking
    <3>2. pc'[o] = "cleaning" /\ socket_id'[c] = -1 BY <1>3, <1>4, <2>1, <3>1
    <3> QED BY <1>0, <3>1, <3>2 DEF Bond, Opening, Seeking, Using, Posts, Stealing
  <2>2. CASE pc[o] = "sweeping" BY <1>3, <2>2, BondOver
  <2> QED BY <1>3, <2>1, <2>2
<1> QED BY <1>0, <1>3, <1>4, <1>5, <1>6, CalmMoves DEF othersAlone

\* network_clean_invaild_socket takes the numbers of those whose socket is closing or gone.
LEMMA CalmScan ==
    ASSUME TypeOK, TagNamesOwner, Good, NEW o \in Callers, CleanScan(o)
    PROVE  Good'
<1> USE DEF slotVars
<1>t. /\ socket_id \in [Ctrls -> Socks \cup {-1}] /\ slot \in [Callers -> Socks]
      /\ pc \in [Callers -> Steps]
      BY DEF TypeOK
<1>0. PICK c \in Ctrls : c = Of(o) BY CallersFacts
<1>1. UNCHANGED quietVars /\ UNCHANGED <<ctag, slot>> BY DEF CleanScan, quietVars
<1>2. /\ \/ pc[o] = "clean" /\ pc'[o] = "cleaning"
         \/ pc[o] = "sweep" /\ pc'[o] = "sweeping"
      /\ \A p \in Callers : p # o => pc'[p] = pc[p]
      BY GotoStep DEF CleanScan
<1>3. \A d \in Ctrls : \/ socket_id'[d] = socket_id[d]
                       \/ socket_id'[d] = -1 /\ ~CheckSocket(d)
      BY DEF CleanScan
<1>4. ASSUME NEW p \in Callers PROVE Bond(p)'
  <2>1. CASE p = o
    <3>1. CASE pc[o] = "clean"
      <4>1. o = Locked(c) /\ socket_id[c] = -1 BY <1>0, <3>1 DEF Good, Bond, Seeking
      <4>2. pc'[o] = "cleaning" /\ socket_id'[c] = -1 BY <1>2, <1>3, <3>1, <4>1
      <4> QED BY <1>0, <2>1, <4>1, <4>2 DEF Bond, Opening, Seeking, Using, Posts, Stealing
    <3>2. CASE pc'[o] = "sweeping" BY <2>1, <3>2, BondOver
    <3> QED BY <1>2, <3>1, <3>2
  <2>2. CASE p # o
    <3>1. PICK s \in Socks : s = slot[p] BY <1>t
    <3>d. PICK d \in Ctrls : d = Of(p) BY CallersFacts
    <3>2. Bond(p) BY DEF Good
    <3>3. pc'[p] = pc[p] /\ slot'[p] = slot[p] /\ ctag'[d] = ctag[d] BY <1>1, <1>2, <2>2
    <3>4. /\ in_use'[s] = in_use[s] /\ state'[s] = state[s] /\ tag'[s] = tag[s]
          /\ CloseSent(s)' => CloseSent(s)
          BY <1>1 DEF quietVars, CloseSent
    <3> QED BY <1>3, <3>1, <3>d, <3>2, <3>3, <3>4, BondKept
  <2> QED BY <2>1, <2>2
<1>5. ASSUME NEW s \in Socks PROVE Held(s)'
  <2>1. Held(s) BY DEF Good
  <2>2. in_use'[s] = in_use[s] /\ state'[s] = state[s] /\ tag'[s] = tag[s] /\ param'[s] = param[s]
        BY <1>1 DEF quietVars
  <2>3. ASSUME NEW p \in Ctrls, in_use'[s], state'[s] = 0, Mine(p, s)
        PROVE  /\ ctag'[p] = ctag[p]
               /\ socket_id[p] = s => socket_id'[p] = s
               /\ pc[Locked(p)] \in Opening /\ slot[Locked(p)] = s =>
                      \/ socket_id'[p] = s
                      \/ pc'[Locked(p)] \in Opening /\ slot'[Locked(p)] = s
    <3>0. Locked(p) \in Callers BY CallersFacts
    <3>1. socket_id[p] = s => CheckSocket(p) BY <2>2, <2>3 DEF CheckSocket, Mine
    <3>2. pc[Locked(p)] \in Opening => Locked(p) # o BY <1>2 DEF Opening
    <3> QED BY <1>1, <1>2, <1>3, <3>0, <3>1, <3>2
  <2> QED BY <2>1, <2>2, <2>3, HeldKept
<1>6. \A s \in Socks : Clean(s)' BY <1>1, SocksFacts, MarkKeepsClean DEF quietVars
<1>7. Mail'
  <2>1. Mail BY DEF Good
  <2>2. \A m : Alive(m) => Alive(m)' BY <1>1 DEF Alive, quietVars
  <2>3. UNCHANGED mailbox BY <1>1 DEF quietVars
  <2>4. CloseIsLast' BY <2>1, <2>3 DEF Mail, CloseIsLast
  <2>5. \A i \in 1 .. Len(mailbox) : Alive(mailbox[i]) BY <2>1 DEF Mail
  <2> QED BY <2>2, <2>3, <2>4, <2>5 DEF Mail
<1> QED BY <1>1, <1>4, <1>5, <1>6, <1>7 DEF Good, quietVars

\* The pcb of a new socket, and the CREATE request that makes it.
LEMMA CalmCreatePost ==
    ASSUME TypeOK, TagNamesOwner, Good, NEW o \in Callers, Sole(o), CreatePost(o)
    PROVE  Good'
<1> USE DEF slotVars
<1>0. PICK c \in Ctrls : c = Of(o) BY CallersFacts
<1>x. PICK x \in Socks : x = slot[o] BY DEF TypeOK
<1>t. /\ socket_id \in [Ctrls -> Socks \cup {-1}] /\ ctag[c] \in Nat
      /\ pcb \in [Socks -> PcbStates] /\ own \in [Socks -> Nat]
      /\ remote_close \in [Socks -> BOOLEAN] /\ mailbox \in Seq(Message)
      BY DEF TypeOK
<1>1. UNCHANGED <<in_use, tag, param, ctag, orphans, cb, state, slot, listen_tcp>>
      BY DEF CreatePost
<1>2. pc[o] = "created" /\ Bond(o) BY DEF CreatePost, Good
<1>3. o = Locked(c) /\ Mine(c, x) /\ state[x] = 0 /\ socket_id[c] = -1
      BY <1>0, <1>x, <1>2 DEF Bond, Opening
<1>4. ~CloseSent(x) BY <1>3 DEF Good, Mail, CloseSent, Alive
<1>5. \/ socket_id' = [socket_id EXCEPT ![c] = x] /\ Goto(o, "opened")
      \/ UNCHANGED socket_id /\ Goto(o, "selflock")
      BY <1>0, <1>x DEF CreatePost
<1>6. othersAlone(o)
  <2>1. \A p \in Callers : p # o => pc'[p] = pc[p] BY <1>5, GotoStep
  <2>2. \A d \in Ctrls : d # c => socket_id'[d] = socket_id[d] BY <1>5, <1>t
  <2> QED BY <1>0, <1>1, <2>1, <2>2 DEF othersAlone
<1>7. \/ pc'[o] = "opened" /\ socket_id'[c] = x
      \/ pc'[o] = "selflock" /\ socket_id'[c] = -1
      BY <1>3, <1>5, <1>t, GotoStep
<1>8. Bond(o)'
  <2>1. slot'[o] = x /\ in_use'[x] /\ tag'[x] = ctag'[c] /\ state'[x] = 0
        BY <1>x, <1>1, <1>3 DEF Mine
  <2> QED BY <1>0, <1>3, <1>7, <2>1 DEF Bond, Mine, Opening, Seeking, Using, Posts, Stealing
<1>9. ASSUME NEW s \in Socks, Mine(c, s)
      PROVE  /\ socket_id[c] = s => socket_id'[c] = s
             /\ pc[o] \in Opening /\ slot[o] = s =>
                    socket_id'[c] = s \/ (pc'[o] \in Opening /\ slot'[o] = s)
  <2>1. socket_id[c] # s BY <1>3, <1>9, SocksFacts
  <2> QED BY <1>x, <1>1, <1>7, <2>1 DEF Opening
<1>10. \A s \in Socks : Clean(s)'
  <2>1. /\ \A s \in Socks : s # x =>
               /\ pcb'[s] = pcb[s] /\ own'[s] = own[s]
               /\ listen_tcp'[s] = listen_tcp[s] /\ remote_close'[s] = remote_close[s]
        /\ own'[x] = tag[x] \/ UNCHANGED <<pcb, own>>
        BY <1>x, <1>1, <1>t DEF CreatePost, NewPcb
  <2> QED BY <1>1, <1>3, <2>1, CleanKept DEF Mine
<1>11. \/ UNCHANGED mailbox
       \/ \E m \in Message :
             /\ mailbox' = Append(mailbox, m)
             /\ Alive(m) /\ ~CloseSent(m.sock)
             /\ m.id = "CLOSE" => Mine(c, m.sock)
  <2>1. CASE UNCHANGED mailbox BY <2>1
  <2>2. CASE Post("CREATE", x, FALSE, ctag[c])
    <3> DEFINE m == [id |-> "CREATE", sock |-> x, notify |-> FALSE, own |-> ctag[c]]
    <3>1. m \in Message /\ m.sock = x /\ m.own = tag[x] /\ m.id # "CLOSE"
          BY <1>t, <1>3 DEF Message, Requests, Mine
    <3>2. mailbox' = Append(mailbox, m) BY <2>2 DEF Post
    <3> HIDE DEF m
    <3>3. Alive(m) BY <1>3, <3>1 DEF Alive, Mine
    <3> QED BY <1>4, <3>1, <3>2, <3>3
  <2> QED BY <1>0, <1>x, <2>1, <2>2 DEF CreatePost
<1> QED BY <1>0, <1>1, <1>6, <1>8, <1>9, <1>10, <1>11, OperationKeeps

\* net_lwip_create_socket gives c a slot nobody claims, under a tag nobody has; without a
\* free slot c forgets its last tag, which no open slot has.
LEMMA CalmCreate ==
    ASSUME TypeOK, TagNamesOwner, Good, NEW c \in Ctrls, NEW o \in Callers,
           o = Locked(c), Sole(o), socket_id[c] = -1, pc[o] \in {"idle", "retry"},
           CreateLeaves, NEW m,
           \/ FoundSlot(o, m)
           \/ NoSlot(c) /\ Goto(o, "clean") /\ UNCHANGED slot
           \/ NoSlot(c) /\ Finish(o)
    PROVE  Good'
<1>t. /\ socket_tag \in Nat /\ tag \in [Socks -> Nat] /\ ctag \in [Ctrls -> Nat]
      /\ in_use \in [Socks -> BOOLEAN] /\ param \in [Socks -> Ctrls \cup {NoCtrl}]
      /\ slot \in [Callers -> Socks] /\ pc \in [Callers -> Steps]
      BY DEF TypeOK
<1>0. Of(o) = c BY CallersFacts
<1>1. UNCHANGED <<state, remote_close, pcb, listen_tcp, own, mailbox, orphans, socket_id, cb>>
      BY DEF CreateLeaves
<1>3. \A s \in Socks : tag[s] <= socket_tag BY DEF TagNamesOwner
<1>4. \A d \in Ctrls : ctag[d] <= socket_tag BY DEF TagNamesOwner
<1>5. \A s \in Socks : in_use[s] /\ state[s] = 0 => ~Mine(c, s)
  <2> SUFFICES ASSUME NEW s \in Socks, in_use[s], state[s] = 0, Mine(c, s) PROVE FALSE
      OBVIOUS
  <2>1. param[s] = c BY DEF TagNamesOwner, Mine
  <2>2. socket_id[c] = s \/ pc[o] \in Opening BY <2>1 DEF Good, Held
  <2> QED BY <2>2, SocksFacts DEF Opening
<1>6. CASE FoundSlot(o, m)
  <2>1. PICK x \in Socks : /\ NextSlot(x) /\ TakeSlot(c, x, m)
                           /\ slot' = [slot EXCEPT ![o] = x] /\ Goto(o, "created")
        BY <1>0, <1>6 DEF FoundSlot
  <2>2. ~in_use[x] BY <2>1 DEF NextSlot
  <2>a. /\ ctag' = [ctag EXCEPT ![c] = socket_tag + 1]
        /\ in_use' = [in_use EXCEPT ![x] = TRUE]
        /\ tag' = [tag EXCEPT ![x] = socket_tag + 1]
        /\ param' = [param EXCEPT ![x] = c]
        BY <2>1 DEF TakeSlot
  <2>3. /\ ctag'[c] = socket_tag + 1 /\ \A d \in Ctrls : d # c => ctag'[d] = ctag[d]
        /\ in_use'[x] /\ tag'[x] = socket_tag + 1 /\ param'[x] = c
        /\ \A s \in Socks : s # x =>
               in_use'[s] = in_use[s] /\ tag'[s] = tag[s] /\ param'[s] = param[s]
        BY <1>t, <2>a
  <2>b. slot'[o] = x /\ \A p \in Callers : p # o => slot'[p] = slot[p] BY <1>t, <2>1
  <2>4. pc'[o] = "created" /\ \A p \in Callers : p # o => pc'[p] = pc[p] BY <2>1, GotoStep
  <2>5. Clean(x) /\ state'[x] = 0 /\ pcb[x] = "null" BY <1>1, <2>2 DEF Good, Clean
  <2>6. ASSUME NEW p \in Callers PROVE Bond(p)'
    <3>d. PICK d \in Ctrls : d = Of(p) BY CallersFacts
    <3>1. CASE p = o
      <4>1. socket_id'[c] = -1 BY <1>1
      <4> QED BY <1>0, <2>b, <2>3, <2>4, <2>5, <3>1, <4>1
              DEF Bond, Mine, Opening, Seeking, Using, Posts, Stealing
    <3>2. CASE p # o /\ d = c
      <4>1. pc'[p] = "idle" BY <1>0, <2>4, <3>d, <3>2 DEF Sole
      <4> QED BY <4>1, BondOver
    <3>3. CASE d # c
      <4>1. PICK s \in Socks : s = slot[p] BY <1>t
      <4>2. Bond(p) BY DEF Good
      <4>p. p # o BY <1>0, <3>d, <3>3
      <4>3. pc'[p] = pc[p] /\ slot'[p] = slot[p] /\ ctag'[d] = ctag[d] /\ socket_id'[d] = socket_id[d]
            BY <1>1, <2>b, <2>3, <2>4, <3>3, <4>p
      <4>4. pc[p] \in Claiming => s # x
            BY <2>2, <4>1, <4>2 DEF Bond, Mine, Claiming
      <4>5. pc[p] \in Claiming =>
               /\ in_use'[s] = in_use[s] /\ state'[s] = state[s] /\ tag'[s] = tag[s]
               /\ CloseSent(s)' => CloseSent(s)
            BY <1>1, <2>3, <4>4 DEF CloseSent
      <4>6. tag'[x] # ctag[d] BY <1>4, <1>t, <2>3
      <4>7. in_use'[s] /\ state'[s] = 0 /\ tag'[s] = ctag[d]
               => in_use[s] /\ state[s] = 0 /\ tag[s] = ctag[d]
            BY <1>1, <2>3, <4>6
      <4> QED BY <3>d, <4>1, <4>2, <4>3, <4>5, <4>7, BondKept
    <3> QED BY <3>1, <3>2, <3>3
  <2>7. ASSUME NEW s \in Socks PROVE Held(s)'
    <3>1. CASE s = x BY <2>b, <2>3, <2>4, <3>1 DEF Held, Opening
    <3>2. CASE s # x
      <4>1. Held(s) BY DEF Good
      <4>2. in_use'[s] = in_use[s] /\ state'[s] = state[s] /\ tag'[s] = tag[s]
            /\ param'[s] = param[s]
            BY <1>1, <2>3, <3>2
      <4>4. ASSUME NEW p \in Ctrls, in_use'[s], state'[s] = 0, Mine(p, s)
            PROVE  /\ ctag'[p] = ctag[p]
                   /\ socket_id[p] = s => socket_id'[p] = s
                   /\ pc[Locked(p)] \in Opening /\ slot[Locked(p)] = s =>
                          \/ socket_id'[p] = s
                          \/ pc'[Locked(p)] \in Opening /\ slot'[Locked(p)] = s
        <5>1. p # c BY <1>5, <4>2, <4>4
        <5>2. Locked(p) \in Callers /\ Locked(p) # o BY <5>1, CallersFacts
        <5> QED BY <1>1, <2>b, <2>3, <2>4, <5>1, <5>2
      <4> QED BY <4>1, <4>2, <4>4, HeldKept
    <3> QED BY <3>1, <3>2
  <2>8. ASSUME NEW s \in Socks PROVE Clean(s)'
    <3>1. Clean(s) BY DEF Good
    <3>2. CASE s = x BY <1>1, <2>3, <2>5, <3>2 DEF Clean
    <3>3. CASE s # x BY <1>1, <2>3, <3>1, <3>3 DEF Clean
    <3> QED BY <3>2, <3>3
  <2>9. Mail'
    <3>1. Mail BY DEF Good
    <3>2. \A r : r.sock \in Socks /\ Alive(r) => Alive(r)' BY <1>1, <2>2, <2>3 DEF Alive
    <3>3. CloseIsLast' BY <1>1, <3>1 DEF Mail, CloseIsLast
    <3>4. \A i \in 1 .. Len(mailbox) : Alive(mailbox[i]) /\ mailbox[i].sock \in Socks
      <4>1. mailbox \in Seq(Message) BY DEF TypeOK
      <4>2. \A i \in 1 .. Len(mailbox) : mailbox[i] \in Message BY <4>1
      <4> QED BY <3>1, <4>2 DEF Mail, Message
    <3> QED BY <1>1, <3>2, <3>3, <3>4 DEF Mail
  <2> QED BY <1>1, <2>6, <2>7, <2>8, <2>9 DEF Good
<1>7. CASE NoSlot(c) /\ ((Goto(o, "clean") /\ UNCHANGED slot) \/ Finish(o))
  <2>0. ctag' = [ctag EXCEPT ![c] = 0] /\ UNCHANGED <<in_use, tag, param>> BY <1>7 DEF NoSlot
  <2>1. ctag'[c] = 0 /\ \A d \in Ctrls : d # c => ctag'[d] = ctag[d] BY <2>0, <1>t
  <2>2. pc'[o] \in {"clean", "idle"}
        /\ \A p \in Callers : p # o => pc'[p] = pc[p] /\ slot'[p] = slot[p]
        BY <1>7, GotoStep, FinishSteps
  <2>3. ASSUME NEW p \in Callers PROVE Bond(p)'
    <3>d. PICK d \in Ctrls : d = Of(p) BY CallersFacts
    <3>1. CASE p = o
      <4>1. socket_id'[c] = -1 BY <1>1
      <4> QED BY <1>0, <2>2, <3>1, <4>1 DEF Bond, Opening, Seeking, Using, Posts, Stealing
    <3>2. CASE p # o /\ d = c
      <4>1. pc'[p] = "idle" BY <1>0, <2>2, <3>d, <3>2 DEF Sole
      <4> QED BY <4>1, BondOver
    <3>3. CASE d # c
      <4>1. PICK s \in Socks : s = slot[p] BY <1>t
      <4>2. Bond(p) BY DEF Good
      <4>p. p # o BY <1>0, <3>d, <3>3
      <4>3. pc'[p] = pc[p] /\ slot'[p] = slot[p] /\ ctag'[d] = ctag[d] /\ socket_id'[d] = socket_id[d]
            BY <1>1, <2>1, <2>2, <3>3, <4>p
      <4>4. CloseSent(s)' => CloseSent(s) BY <1>1 DEF CloseSent
      <4> QED BY <1>1, <2>0, <3>d, <4>1, <4>2, <4>3, <4>4, BondKept
    <3> QED BY <3>1, <3>2, <3>3
  <2>4. ASSUME NEW s \in Socks PROVE Held(s)'
    <3>1. Held(s) BY DEF Good
    <3>3. ASSUME NEW p \in Ctrls, in_use'[s], state'[s] = 0, Mine(p, s)
          PROVE  /\ ctag'[p] = ctag[p]
                 /\ socket_id[p] = s => socket_id'[p] = s
                 /\ pc[Locked(p)] \in Opening /\ slot[Locked(p)] = s =>
                        \/ socket_id'[p] = s
                        \/ pc'[Locked(p)] \in Opening /\ slot'[Locked(p)] = s
      <4>1. p # c BY <1>1, <2>0, <1>5, <3>3
      <4>2. Locked(p) \in Callers /\ Locked(p) # o BY <4>1, CallersFacts
      <4> QED BY <1>1, <2>1, <2>2, <4>1, <4>2
    <3> QED BY <1>1, <2>0, <3>1, <3>3, HeldKept
  <2>5. \A s \in Socks : Clean(s)' BY <1>1, <2>0, SocksFacts, MarkKeepsClean
  <2>6. Mail'
    <3>1. Mail BY DEF Good
    <3>2. \A r : Alive(r) => Alive(r)' BY <1>1, <2>0 DEF Alive
    <3>3. CloseIsLast' BY <1>1, <3>1 DEF Mail, CloseIsLast
    <3>4. \A i \in 1 .. Len(mailbox) : Alive(mailbox[i]) BY <3>1 DEF Mail
    <3> QED BY <1>1, <3>2, <3>3, <3>4 DEF Mail
  <2> QED BY <1>1, <2>3, <2>4, <2>5, <2>6 DEF Good
<1> QED BY <1>6, <1>7

\* What a caller starts, or goes on with.
LEMMA CalmOp ==
    ASSUME TypeOK, TagNamesOwner, AloneInv, Good, Calm, Calm', NEW o \in Callers,
           StartOp(o) \/ ContinueOp(o)
    PROVE  Good'
<1>0. PICK c \in Ctrls : c = Of(o) BY CallersFacts
<1>1. ~crossed /\ ~crossed' BY DEF Calm
<1>2. pc[o] # "idle" => Sole(o) BY <1>1 DEF AloneInv
<1>3. ASSUME NEW t \in Threads, StartCreate(o, t), o = Locked(c) PROVE Good'
  <2>1. MayStart(o, t) /\ socket_id[c] = -1 /\ CreateLeaves BY <1>0, <1>3 DEF StartCreate
  <2>2. Sole(o) /\ pc[o] = "idle" BY <1>1, <2>1, StartIsSole DEF MayStart
  <2>3. PICK m : FoundSlot(o, m) \/ (NoSlot(c) /\ Goto(o, "clean") /\ UNCHANGED slot)
        BY <1>0, <1>3 DEF StartCreate
  <2> QED BY <1>3, <2>1, <2>2, <2>3, CalmCreate
<1>4. CASE StartOp(o)
  <2>1. PICK t \in Threads :
           \/ o = Locked(Of(o)) /\ StartCreate(o, t)
           \/ Disconnect(o, t) \/ Send(o, t) \/ Close(o, t) \/ ForceClose(o, t)
        BY <1>4 DEF StartOp
  <2> QED BY <1>0, <1>1, <1>3, <2>1, CalmStart
<1>5. CASE RetryCreate(o)
  <2>1. pc[o] = "retry" /\ Bond(o) /\ CreateLeaves BY <1>5 DEF RetryCreate, Good
  <2>2. Sole(o) /\ o = Locked(c) /\ socket_id[c] = -1 BY <1>0, <1>2, <2>1 DEF Bond, Seeking
  <2>3. PICK m : FoundSlot(o, m) \/ (NoSlot(c) /\ Finish(o)) BY <1>0, <1>5 DEF RetryCreate
  <2> QED BY <2>1, <2>2, <2>3, CalmCreate
<1>6. CASE CreatePost(o) BY <1>2, <1>6, CalmCreatePost DEF CreatePost
<1>7. CASE OpenCheck(o) \/ CleanDone(o) \/ ForceTest(o) \/ Drop(o)
  <2>1. pc[o] # "idle" BY <1>7 DEF OpenCheck, CleanDone, ForceTest, Drop
  <2> QED BY <1>2, <1>7, <2>1, CalmCheck
<1>8. CASE OpenPost(o) \/ SendPost(o) \/ ClosePost(o)
  <2>1. pc[o] # "idle" BY <1>8 DEF OpenPost, SendPost, ClosePost, Posts
  <2> QED BY <1>2, <1>8, <2>1, CalmPost
<1>9. CASE CleanSlot(o) \/ MarkClosing(o)
  <2>1. pc[o] # "idle" BY <1>9 DEF CleanSlot, MarkClosing
  <2> QED BY <1>2, <1>9, <2>1, CalmCleanSlot, CalmMark
<1> QED BY <1>4, <1>5, <1>6, <1>7, <1>8, <1>9, CalmScan DEF ContinueOp

LEMMA CalmStep == TypeOK /\ TagNamesOwner /\ AloneInv /\ CalmInv /\ [Next]_vars => CalmInv'
<1> SUFFICES ASSUME TypeOK, TagNamesOwner, AloneInv, CalmInv, [Next]_vars, Calm' PROVE Good'
    BY DEF CalmInv
<1>1. Good /\ Calm BY CalmBefore DEF CalmInv
<1>2. CASE UNCHANGED vars
  <2>1. UNCHANGED tableVars /\ UNCHANGED mailbox
        /\ UNCHANGED <<pcb, own, listen_tcp, remote_close, orphans, cb>>
        BY <1>2 DEF vars, slotVars, ctrlVars, tableVars
  <2>2. (\A o \in Callers : Bond(o)') /\ (\A s \in Socks : Held(s)') /\ Mail'
        BY <1>1, <2>1, TableKept
  <2>3. \A s \in Socks : Clean(s)' BY <1>1, <2>1, SocksFacts, MarkKeepsClean DEF tableVars
  <2> QED BY <1>1, <2>1, <2>2, <2>3 DEF Good
<1> QED BY <1>1, <1>2, CalmOp, CalmTcpip DEF Next

LEMMA CalmInvariant == Spec => [](TypeOK /\ TagNamesOwner /\ AloneInv /\ CalmInv)
<1>1. Init => TypeOK /\ TagNamesOwner /\ AloneInv /\ CalmInv
      BY InitTypeOK, InitTag, InitAlone, InitCalm
<1>2. TypeOK /\ TagNamesOwner /\ AloneInv /\ CalmInv /\ [Next]_vars
      => (TypeOK /\ TagNamesOwner /\ AloneInv /\ CalmInv)'
      BY TypeStep, TagStep, AloneStep, CalmStep
<1> QED BY <1>1, <1>2, PTL DEF Spec

\* In a calm behaviour net_lwip_create_socket finds nothing left of the last socket in the
\* slot it takes.
THEOREM FreeSlotsAreClean == Spec => []FreeSlotIsClean
<1>1. CalmInv => FreeSlotIsClean BY DEF CalmInv, Good, Clean, FreeSlotIsClean
<1> QED BY <1>1, CalmInvariant, PTL

\* In a calm behaviour every request the lwIP thread takes is about the socket it was
\* posted for.
THEOREM RequestsAreOnTarget == Spec => []RequestsHitTheirSocket
<1>1. CalmInv => RequestsHitTheirSocket
      BY DEF CalmInv, Good, Mail, Alive, RequestsHitTheirSocket
<1> QED BY <1>1, CalmInvariant, PTL

\* In a calm behaviour no open slot is lost: somebody holds its number.
THEOREM OpenSlotsAreHeld == Spec => []OpenSlotIsHeld
<1>1. CalmInv => OpenSlotIsHeld
      BY DEF CalmInv, Good, Held, OpenSlotIsHeld, Opening
<1> QED BY <1>1, CalmInvariant, PTL

\* In a calm behaviour an event that passes the tag comparison was caused by a pcb or a
\* request of the socket made under that tag.  It says nothing of the socket the ctrl has
\* when, later, it acts on the event.
THEOREM EventsCarryTheirTag == Spec => []EventFromOwnSocket
<1>1. CalmInv => EventFromOwnSocket BY DEF CalmInv, Good, EventFromOwnSocket
<1> QED BY <1>1, CalmInvariant, PTL
=============================================================================
