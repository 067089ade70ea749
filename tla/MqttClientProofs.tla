-------------------------- MODULE MqttClientProofs --------------------------
(***************************************************************************)
(* Theorems about MqttClient, for every buffer, every broker and every     *)
(* order of the threads: the types of its variables, that a lost           *)
(* connection is tried again or reported, that mqtt_state is that of the   *)
(* connection there is, and that packets are parsed whole.                 *)
(***************************************************************************)
EXTENDS MqttClient, SequenceLemmas

-----------------------------------------------------------------------------
(* Sequences of at most two elements *)

LEMMA EmptyIffShort ==
    ASSUME NEW S, NEW s \in Seq(S)
    PROVE  s = <<>> <=> Len(s) = 0
BY EmptySeq

LEMMA TailOfShort ==
    ASSUME NEW S, NEW s \in Seq(S), Len(s) \in 1 .. 2
    PROVE  Tail(s) = IF Len(s) > 1 THEN <<s[2]>> ELSE <<>>
<1> DEFINE r == Tail(s)
<1>1. s # <<>> BY EmptyIffShort
<1>2. r \in Seq(S) /\ Len(r) = Len(s) - 1 /\ \A i \in 1 .. Len(r) : r[i] = s[i + 1]
      BY <1>1, HeadTailProperties
<1> HIDE DEF r
<1>3. CASE Len(s) = 1
  <2>1. r = <<>> BY <1>2, <1>3, EmptyIffShort
  <2> QED BY <1>3, <2>1 DEF r
<1>4. CASE Len(s) = 2
  <2> DEFINE q == <<s[2]>>
  <2>1. q \in Seq(S) /\ Len(q) = 1 /\ q[1] = s[2] BY <1>4, ElementOfSeq
  <2> HIDE DEF q
  <2>2. Len(r) = 1 /\ r[1] = s[2] BY <1>2, <1>4
  <2>3. r = q BY <1>2, <2>1, <2>2, SeqEqual
  <2> QED BY <1>4, <2>3 DEF r, q
<1> QED BY <1>3, <1>4

LEMMA JoinShort ==
    ASSUME NEW S, NEW a \in S, NEW b \in S
    PROVE  /\ <<a>> \o <<b>> = <<a, b>> /\ <<a>> \o <<>> = <<a>> /\ <<>> \o <<a>> = <<a>>
           /\ <<a, b>> \o <<>> = <<a, b>> /\ <<>> \o <<>> = <<>>
<1> DEFINE s == <<a>> \o <<b>>
           r == <<a, b>>
<1>1. <<a>> \in Seq(S) /\ <<b>> \in Seq(S) /\ <<>> \in Seq(S) OBVIOUS
<1>2. s \in Seq(S) /\ Len(s) = 2 /\ s[1] = a /\ s[2] = b BY <1>1, ConcatProperties
<1>3. r \in Seq(S) /\ Len(r) = 2 /\ r[1] = a /\ r[2] = b OBVIOUS
<1> HIDE DEF r, s
<1>4. s = r BY <1>3, <1>2, SeqEqual
<1> QED BY <1>1, <1>3, <1>4, ConcatEmptySeq DEF r, s

-----------------------------------------------------------------------------
(* Stacks: a thread has two steps to do at most, Top(t) and then Rest(t) *)

Steps ==
    {"close", "drop", "leave", "shut", "retry", "closed", "send", "send_connect", "greet", "connect",
     "connect_locked", "sconnect", "online", "wait", "read", "fetch", "fetched", "parse",
     "consume"}

Top(t) == IF Idle(t) THEN "none" ELSE Head(stack[t])
Rest(t) == IF Len(stack[t]) > 1 THEN stack[t][2] ELSE "none"

StackType ==
    /\ stack \in [Threads -> Seq(Steps)]
    /\ \A t \in Threads : Len(stack[t]) <= 2

\* thread t has a to do now, and b after it; the others have what they had
Turns(t, a, b) ==
    /\ StackType'
    /\ Top("timer")' = (IF t = "timer" THEN a ELSE Top("timer"))
    /\ Rest("timer")' = (IF t = "timer" THEN b ELSE Rest("timer"))
    /\ Top("lwip")' = (IF t = "lwip" THEN a ELSE Top("lwip"))
    /\ Rest("lwip")' = (IF t = "lwip" THEN b ELSE Rest("lwip"))
    /\ Top("app")' = (IF t = "app" THEN a ELSE Top("app"))
    /\ Rest("app")' = (IF t = "app" THEN b ELSE Rest("app"))

LEMMA TopFacts ==
    ASSUME StackType, NEW t \in Threads
    PROVE  /\ Idle(t) <=> Top(t) = "none"
           /\ Idle(t) => Rest(t) = "none"
           /\ \A x : x # "none" => (At(t, x) <=> Top(t) = x)
           /\ Top(t) \in Steps \union {"none"} /\ Rest(t) \in Steps \union {"none"}
           /\ ~Idle(t) => Tail(stack[t]) = IF Rest(t) = "none" THEN <<>> ELSE <<Rest(t)>>
<1>1. stack[t] \in Seq(Steps) /\ Len(stack[t]) \in 0 .. 2
  <2>1. stack[t] \in Seq(Steps) /\ Len(stack[t]) <= 2 BY DEF StackType
  <2>2. Len(stack[t]) \in Nat BY <2>1, LenProperties
  <2> DEFINE n == Len(stack[t])
  <2> HIDE DEF n
  <2>3. n \in Nat /\ n <= 2 BY <2>1, <2>2 DEF n
  <2>4. n \in 0 .. 2 BY <2>3
  <2> QED BY <2>1, <2>4 DEF n
<1>2. Idle(t) <=> Len(stack[t]) = 0 BY <1>1, EmptyIffShort DEF Idle
<1>3. \A i \in 1 .. Len(stack[t]) : stack[t][i] \in Steps BY <1>1, ElementOfSeq
<1>4. "none" \notin Steps BY DEF Steps
<1>5. ~Idle(t) => Head(stack[t]) \in Steps BY <1>1, HeadTailProperties DEF Idle
<1>6. Len(stack[t]) > 1 => stack[t][2] \in Steps BY <1>1, <1>3
<1>7. /\ Idle(t) <=> Top(t) = "none"
      /\ Top(t) \in Steps \union {"none"}
      /\ \A x : x # "none" => (At(t, x) <=> Top(t) = x)
      BY <1>4, <1>5 DEF At, Top
<1>8. /\ Rest(t) \in Steps \union {"none"}
      /\ Rest(t) = "none" <=> ~(Len(stack[t]) > 1)
      BY <1>4, <1>6 DEF Rest
<1>9. ~Idle(t) => Tail(stack[t]) = IF Rest(t) = "none" THEN <<>> ELSE <<Rest(t)>>
  <2> SUFFICES ASSUME ~Idle(t)
               PROVE  Tail(stack[t]) = IF Rest(t) = "none" THEN <<>> ELSE <<Rest(t)>>
      OBVIOUS
  <2>1. Len(stack[t]) \in 1 .. 2 BY <1>1, <1>2
  <2>2. Tail(stack[t]) = IF Len(stack[t]) > 1 THEN <<stack[t][2]>> ELSE <<>>
        BY <1>1, <2>1, TailOfShort
  <2>3. Len(stack[t]) > 1 => Rest(t) = stack[t][2] BY DEF Rest
  <2> QED BY <1>8, <2>2, <2>3
<1> QED BY <1>1, <1>2, <1>7, <1>8, <1>9

LEMMA NewStack ==
    ASSUME StackType, NEW t \in Threads, NEW s \in Seq(Steps), Len(s) <= 2,
           stack' = [stack EXCEPT ![t] = s]
    PROVE  Turns(t, IF s = <<>> THEN "none" ELSE Head(s),
                    IF Len(s) > 1 THEN s[2] ELSE "none")
<1>1. stack'[t] = s /\ \A u \in Threads \ {t} : stack'[u] = stack[u] BY DEF StackType
<1>2. StackType' BY <1>1 DEF StackType
<1>3. \A u \in Threads :
        /\ Top(u)' = IF u = t THEN (IF s = <<>> THEN "none" ELSE Head(s)) ELSE Top(u)
        /\ Rest(u)' = IF u = t THEN (IF Len(s) > 1 THEN s[2] ELSE "none") ELSE Rest(u)
      BY <1>1 DEF Top, Rest, Idle
<1>4. "timer" \in Threads /\ "lwip" \in Threads /\ "app" \in Threads BY DEF Threads
<1> QED BY <1>2, <1>3, <1>4 DEF Turns

LEMMA ThenNone ==
    ASSUME StackType, NEW t \in Threads, ~Idle(t), Then(t, <<>>)
    PROVE  Turns(t, Rest(t), "none")
<1> DEFINE s == IF Rest(t) = "none" THEN <<>> ELSE <<Rest(t)>>
<1>1. Tail(stack[t]) = s /\ Rest(t) \in Steps \union {"none"} BY TopFacts
<1>2. s \in Seq(Steps) /\ Len(s) <= 2 /\ <<>> \o s = s BY <1>1, JoinShort
<1>3. stack' = [stack EXCEPT ![t] = s] BY <1>1, <1>2 DEF Then
<1>4. Turns(t, IF s = <<>> THEN "none" ELSE Head(s), IF Len(s) > 1 THEN s[2] ELSE "none")
  <2> HIDE DEF s
  <2> QED BY <1>2, <1>3, NewStack
<1> QED BY <1>1, <1>4

LEMMA ThenOne ==
    ASSUME StackType, NEW t \in Threads, ~Idle(t), NEW a \in Steps, Then(t, <<a>>)
    PROVE  Turns(t, a, Rest(t))
<1> DEFINE s == IF Rest(t) = "none" THEN <<a>> ELSE <<a, Rest(t)>>
<1>1. /\ Tail(stack[t]) = IF Rest(t) = "none" THEN <<>> ELSE <<Rest(t)>>
      /\ Rest(t) \in Steps \union {"none"}
      BY TopFacts
<1>2. s \in Seq(Steps) /\ Len(s) <= 2 BY <1>1
<1>3. <<a>> \o Tail(stack[t]) = s BY <1>1, JoinShort
<1>4. stack' = [stack EXCEPT ![t] = s] BY <1>3 DEF Then
<1>5. Turns(t, IF s = <<>> THEN "none" ELSE Head(s), IF Len(s) > 1 THEN s[2] ELSE "none")
  <2> HIDE DEF s
  <2> QED BY <1>2, <1>4, NewStack
<1> QED BY <1>1, <1>5

LEMMA ThenTwo ==
    ASSUME StackType, NEW t \in Threads, ~Idle(t), NEW a \in Steps, NEW b \in Steps,
           Rest(t) = "none", Then(t, <<a, b>>)
    PROVE  Turns(t, a, b)
<1> DEFINE s == <<a, b>>
<1>1. Tail(stack[t]) = <<>> BY TopFacts
<1>2. s \in Seq(Steps) /\ Len(s) = 2 /\ s # <<>> /\ Head(s) = a /\ s[2] = b OBVIOUS
<1>3. s \o <<>> = s BY JoinShort
<1>4. stack' = [stack EXCEPT ![t] = s] BY <1>1, <1>3 DEF Then
<1>5. Turns(t, IF s = <<>> THEN "none" ELSE Head(s), IF Len(s) > 1 THEN s[2] ELSE "none")
  <2> HIDE DEF s
  <2>1. Len(s) <= 2 BY <1>2
  <2> QED BY <1>2, <1>4, <2>1, NewStack
<1> QED BY <1>2, <1>5

LEMMA BeginOne ==
    ASSUME StackType, NEW t \in Threads, NEW a \in Steps, Begin(t, a)
    PROVE  Turns(t, a, "none")
<1> DEFINE s == <<a>>
<1>1. s \in Seq(Steps) /\ Len(s) = 1 /\ s # <<>> /\ Head(s) = a OBVIOUS
<1>2. stack' = [stack EXCEPT ![t] = s] BY DEF Begin
<1>3. Turns(t, IF s = <<>> THEN "none" ELSE Head(s), IF Len(s) > 1 THEN s[2] ELSE "none")
  <2> HIDE DEF s
  <2>1. Len(s) <= 2 BY <1>1
  <2> QED BY <1>1, <1>2, <2>1, NewStack
<1> QED BY <1>1, <1>3

LEMMA SameStack ==
    ASSUME StackType, UNCHANGED stack, NEW t \in Threads
    PROVE  Turns(t, Top(t), Rest(t))
<1>1. StackType' BY DEF StackType
<1>2. \A u : Top(u)' = Top(u) /\ Rest(u)' = Rest(u) BY DEF Top, Rest, Idle
<1> QED BY <1>1, <1>2 DEF Turns

-----------------------------------------------------------------------------
(* The inductive invariant *)

CloseSteps == {"close", "drop", "leave", "shut", "retry", "closed"}

\* what the lwIP thread, or another one, may have to do
LwipShape(a, b) ==
    \/ a \in CloseSteps /\ b \in {"none", "close", "wait", "consume"}
    \/ a \in {"none", "online", "wait", "read", "fetch", "fetched", "parse", "consume"} /\ b = "none"
    \/ a \in {"send_connect", "greet"} /\ b = "wait"
    \/ a = "send" /\ b = "consume"

UserShape(a, b) ==
    \/ a \in CloseSteps \union {"none", "send", "connect", "sconnect"} /\ b = "none"
    \/ a = "connect_locked" /\ b = "sconnect"

Shape(t, a, b) == IF t = "lwip" THEN LwipShape(a, b) ELSE UserShape(a, b)

Shapes ==
    /\ StackType
    /\ \A t \in Threads : Shape(t, Top(t), Rest(t))

\* TypeOK, and what is read fits into the buffer
Types ==
    /\ TypeOK
    /\ Top("lwip") = "fetched" => Len(packet) + Len(hand) <= MQTT_RECV_BUF_LEN_MAX

\* the fields of the ctrl go together
Netc ==
    /\ wait = "ON_LINE" => state \in {"CONNECTING", "LINK_OFF"}
    /\ state = "ONLINE" => conn # "opening"
    /\ greeted \/ stream = <<>>
    /\ conn \in {"none", "opening"} \/ Top("lwip") \in {"online", "send_connect"} => ~greeted
    /\ ~astray => /\ state = "LINK_OFF" => conn = "none"
                  /\ new_rx_flag => conn \in {"up", "dead"}

\* some thread has x to do
Waiting(x) ==
    x \in {Top("timer"), Rest("timer"), Top("lwip"), Rest("lwip"), Top("app"), Rest("app")}

\* a timer, the application or a thread is to connect, or a close is on its way to see to it
Owed ==
    \/ reconnect_timer \/ told
    \/ Waiting("drop") \/ Waiting("shut") \/ Waiting("retry")
    \/ Waiting("connect") \/ Waiting("connect_locked") \/ Waiting("sconnect")

\* there is a connection, or its end is being reported
Engaged == mqtt_state # "DISCONNECT" /\ (Connecting \/ Up \/ Waiting("close"))

Tended == astray \/ Owed \/ Engaged

-----------------------------------------------------------------------------
(* What the steps do with the stacks *)

LEMMA TurnsShapes ==
    ASSUME Shapes, NEW t \in Threads, NEW a, NEW b, Turns(t, a, b), Shape(t, a, b)
    PROVE  Shapes'
BY DEF Shapes, Turns, Threads

LEMMA Tops ==
    ASSUME Shapes, NEW t \in Threads
    PROVE  /\ Idle(t) <=> Top(t) = "none"
           /\ Shape(t, Top(t), Rest(t))
           /\ \A x : x # "none" => (At(t, x) <=> Top(t) = x)
BY TopFacts DEF Shapes

LEMMA CloseTurns ==
    ASSUME Shapes, NEW t \in Threads, Close(t)
    PROVE  /\ Shapes'
           /\ CloseTest(t) => /\ Top(t) = "close"
                              /\ mqtt_state = "DISCONNECT" => Turns(t, "leave", Rest(t))
                              /\ mqtt_state # "DISCONNECT" => Turns(t, "drop", Rest(t))
           /\ CloseSet(t) => Top(t) = "drop" /\ Turns(t, "shut", Rest(t))
           /\ CloseShut(t) => Top(t) = "shut" /\ Turns(t, "retry", Rest(t))
           /\ CloseRetry(t) => Top(t) = "retry" /\ Turns(t, "closed", Rest(t))
           /\ Closed(t) => Top(t) \in {"closed", "leave"} /\ Turns(t, Rest(t), "none")
<1>1. /\ StackType /\ ~Idle(t) /\ Shape(t, Top(t), Rest(t))
      /\ CloseTest(t) => Top(t) = "close"
      /\ CloseSet(t) => Top(t) = "drop"
      /\ CloseShut(t) => Top(t) = "shut"
      /\ CloseRetry(t) => Top(t) = "retry"
      /\ Closed(t) => Top(t) \in {"closed", "leave"}
      BY Tops DEF Shapes, Close, CloseTest, CloseSet, CloseShut, CloseRetry, Closed, At
<1>2. /\ CloseTest(t) => /\ mqtt_state = "DISCONNECT" => Turns(t, "leave", Rest(t))
                         /\ mqtt_state # "DISCONNECT" => Turns(t, "drop", Rest(t))
      /\ CloseSet(t) => Turns(t, "shut", Rest(t))
      BY <1>1, ThenOne DEF CloseTest, CloseSet, Steps
<1>3. /\ CloseShut(t) => Turns(t, "retry", Rest(t))
      /\ CloseRetry(t) => Turns(t, "closed", Rest(t))
      /\ Closed(t) => Turns(t, Rest(t), "none")
      BY <1>1, ThenNone, ThenOne DEF CloseShut, CloseRetry, Closed, Steps
<1>4. Top(t) \in CloseSteps BY <1>1 DEF Close, CloseSteps
<1>5. /\ Shape(t, Rest(t), "none")
      /\ \A x \in CloseSteps : Shape(t, x, Rest(t))
      BY <1>1, <1>4 DEF Shape, LwipShape, UserShape, CloseSteps
<1>6. Shapes'
  <2>1. CASE CloseTest(t) BY <1>1, <1>2, <1>5, <2>1, TurnsShapes DEF CloseSteps
  <2>2. CASE ~CloseTest(t) BY <1>1, <1>2, <1>3, <1>5, <2>2, TurnsShapes DEF Close, CloseSteps
  <2> QED BY <2>1, <2>2
<1> QED BY <1>1, <1>2, <1>3, <1>6

LEMMA SendTurns ==
    ASSUME Shapes, NEW t \in Threads, Send(t)
    PROVE  /\ Top(t) \in {"send", "send_connect"} /\ Shapes'
           /\ \/ Turns(t, "close", Rest(t))
              \/ Top(t) = "send_connect" /\ ~Offline /\ Turns(t, "greet", Rest(t))
              \/ Top(t) = "send" /\ ~Offline /\ Turns(t, Rest(t), "none")
<1>1. PICK connect \in BOOLEAN : Send(t)!(connect) BY DEF Send
<1>2. /\ StackType /\ ~Idle(t) /\ Shape(t, Top(t), Rest(t))
      /\ Top(t) = IF connect THEN "send_connect" ELSE "send"
      BY <1>1, Tops DEF Shapes, At
<1>3. \/ Turns(t, "close", Rest(t))
      \/ connect /\ ~Offline /\ Turns(t, "greet", Rest(t))
      \/ ~connect /\ ~Offline /\ Turns(t, Rest(t), "none")
      BY <1>1, <1>2, ThenNone, ThenOne DEF Steps
<1>4. /\ Shape(t, "close", Rest(t))
      /\ connect => Shape(t, "greet", Rest(t))
      /\ ~connect => Shape(t, Rest(t), "none")
      BY <1>2 DEF Shape, LwipShape, UserShape, CloseSteps
<1> QED BY <1>2, <1>3, <1>4, TurnsShapes

LEMMA ConnectTurns ==
    ASSUME Shapes, NEW t \in Threads, Connect(t)
    PROVE  /\ t # "lwip" /\ Shapes'
           /\ ConnectLook(t) => /\ Top(t) = "connect"
                                /\ IF conn = "none" THEN Turns(t, "connect_locked", "sconnect")
                                   ELSE Turns(t, "sconnect", "none")
           /\ ConnectLocked(t) => Top(t) = "connect_locked" /\ Turns(t, "sconnect", "none")
           /\ ConnectDone(t) => Top(t) = "sconnect" /\ Turns(t, "none", "none")
<1>1. /\ StackType /\ ~Idle(t) /\ Shape(t, Top(t), Rest(t))
      /\ ConnectLook(t) => Top(t) = "connect"
      /\ ConnectLocked(t) => Top(t) = "connect_locked"
      /\ ConnectDone(t) => Top(t) = "sconnect"
      BY Tops DEF Shapes, Connect, ConnectLook, ConnectLocked, ConnectDone, At
<1>2. /\ t # "lwip"
      /\ Top(t) \in {"connect", "sconnect"} => Rest(t) = "none"
      /\ Top(t) = "connect_locked" => Rest(t) = "sconnect"
      BY <1>1 DEF Connect, Shape, LwipShape, UserShape, CloseSteps
<1>3. ConnectLook(t) => IF conn = "none" THEN Turns(t, "connect_locked", "sconnect")
                        ELSE Turns(t, "sconnect", "none")
      BY <1>1, <1>2, ThenOne, ThenTwo DEF ConnectLook, Steps
<1>4. /\ ConnectLocked(t) => Turns(t, "sconnect", "none")
      /\ ConnectDone(t) => Turns(t, "none", "none")
      BY <1>1, <1>2, ThenNone DEF ConnectLocked, ConnectDone
<1>5. /\ Shape(t, "connect_locked", "sconnect") /\ Shape(t, "sconnect", "none")
      /\ Shape(t, "none", "none")
      BY <1>2 DEF Shape, UserShape
<1> QED BY <1>1, <1>2, <1>3, <1>4, <1>5, TurnsShapes DEF Connect

LEMMA ResultTurns ==
    ASSUME Shapes, NEW r \in {-1, 0, 1}, Result(r)
    PROVE  /\ Top("lwip") = "none" /\ Runs("lwip") /\ Shapes'
           /\ r = -1 => Turns("lwip", "close", "none")
           /\ r = 0 => Turns("lwip", CASE wait = "ON_LINE" -> "online"
                                       [] wait = "TX_OK" -> "wait"
                                       [] OTHER -> "read", "none")
           /\ r = 1 => Turns("lwip", IF new_rx_flag' THEN "read" ELSE "none", "none")
<1>1. "lwip" \in Threads /\ StackType BY DEF Threads, Shapes
<1>2. Idle("lwip") /\ Runs("lwip") BY DEF Result, Begin
<1>3. Top("lwip") = "none" /\ Rest("lwip") = "none" BY <1>1, <1>2, TopFacts
<1>4. r = -1 => Turns("lwip", "close", "none") BY <1>1, BeginOne DEF Result, Steps
<1> DEFINE x == CASE wait = "ON_LINE" -> "online" [] wait = "TX_OK" -> "wait" [] OTHER -> "read"
<1>5. x \in {"online", "wait", "read"} OBVIOUS
<1>6. r = 0 => Turns("lwip", x, "none")
  <2>1. r = 0 => Begin("lwip", x) BY DEF Result
  <2> HIDE DEF x
  <2> QED BY <1>1, <1>5, <2>1, BeginOne DEF Steps
<1>7. r = 1 => Turns("lwip", IF new_rx_flag' THEN "read" ELSE "none", "none")
  <2>1. r = 1 /\ new_rx_flag' => Turns("lwip", "read", "none")
        BY <1>1, BeginOne DEF Result, Steps
  <2>2. r = 1 /\ ~new_rx_flag' => Turns("lwip", "none", "none")
        BY <1>1, <1>3, SameStack DEF Result
  <2> QED BY <2>1, <2>2
<1>8. \A y \in {"close", "online", "wait", "read", "none"} : Shape("lwip", y, "none")
      BY DEF Shape, LwipShape, CloseSteps
<1>9. Shapes'
  <2>1. CASE r = -1 BY <1>1, <1>4, <1>8, <2>1, TurnsShapes
  <2>2. CASE r = 0
    <3> HIDE DEF x
    <3> QED BY <1>1, <1>5, <1>6, <1>8, <2>2, TurnsShapes
  <2>3. CASE r = 1
    <3>1. CASE new_rx_flag' BY <1>1, <1>7, <1>8, <2>3, <3>1, TurnsShapes
    <3>2. CASE ~new_rx_flag' BY <1>1, <1>7, <1>8, <2>3, <3>2, TurnsShapes
    <3> QED BY <3>1, <3>2
  <2> QED BY <2>1, <2>2, <2>3
<1> QED BY <1>2, <1>3, <1>4, <1>6, <1>7, <1>9

LEMMA CallbackTurns ==
    ASSUME Shapes, Callback
    PROVE  /\ Shapes'
           /\ Online => Top("lwip") = "online" /\ Turns("lwip", "send_connect", "wait")
           /\ Greet => /\ Top("lwip") = "greet" /\ Rest("lwip") = "wait"
                       /\ Turns("lwip", "wait", "none")
           /\ Wait => /\ Top("lwip") = "wait" /\ Rest("lwip") = "none"
                      /\ \/ wait' = "EVENT" /\ (new_rx_flag \/ ~Offline)
                            /\ Turns("lwip", "none", "none")
                         \/ ~new_rx_flag /\ Offline /\ wait' = wait
                            /\ Turns("lwip", "close", "none")
<1>1. "lwip" \in Threads BY DEF Threads
<1>2. /\ StackType /\ ~Idle("lwip") /\ Shape("lwip", Top("lwip"), Rest("lwip"))
      /\ Online => Top("lwip") = "online"
      /\ Greet => Top("lwip") = "greet"
      /\ Wait => Top("lwip") = "wait"
      BY <1>1, Tops DEF Shapes, Callback, Online, Greet, Wait, At
<1>3. /\ Top("lwip") \in {"online", "wait"} => Rest("lwip") = "none"
      /\ Top("lwip") = "greet" => Rest("lwip") = "wait"
      BY <1>2 DEF Shape, LwipShape, CloseSteps
<1>4. Online => Turns("lwip", "send_connect", "wait")
      BY <1>1, <1>2, <1>3, ThenTwo DEF Online, Steps
<1>5. Greet => Turns("lwip", "wait", "none")
      BY <1>1, <1>2, <1>3, ThenNone DEF Greet
<1>6. Wait => \/ wait' = "EVENT" /\ (new_rx_flag \/ ~Offline) /\ Turns("lwip", "none", "none")
              \/ ~new_rx_flag /\ Offline /\ wait' = wait /\ Turns("lwip", "close", "none")
      BY <1>1, <1>2, <1>3, ThenNone, ThenOne DEF Wait, Steps
<1>7. /\ Shape("lwip", "send_connect", "wait") /\ Shape("lwip", "wait", "none")
      /\ Shape("lwip", "none", "none") /\ Shape("lwip", "close", "none")
      BY DEF Shape, LwipShape, CloseSteps
<1> QED BY <1>1, <1>2, <1>3, <1>4, <1>5, <1>6, <1>7, TurnsShapes DEF Callback

\* how much the next network_rx reads
Portion == Least(Unread, Least(MAX_READ, Room))

\* mqtt_parse waits for more, or has a packet that is whole if its header is h
Waits ==
    /\ Turns("lwip", "fetch", "none")
    /\ UNCHANGED <<mqtt_state, hand, misread>>

Handles(h) ==
    /\ hand' = SubSeq(packet, 1, h.size)
    /\ misread' = (misread \/ h.size # packet[1].size)
    /\ mqtt_state' = IF h.kind = "CONNACK" THEN "READY" ELSE mqtt_state
    /\ h.kind = "refusal" => Turns("lwip", "close", "close")
    /\ h.kind = "PUBLISH" => Turns("lwip", "send", "consume")
    /\ h.kind \notin {"refusal", "PUBLISH"} => Turns("lwip", "consume", "none")

LEMMA ReceiveTurns ==
    ASSUME Shapes, Receive
    PROVE  /\ Shapes' /\ Rest("lwip") = "none"
           /\ ReadLook => /\ Top("lwip") = "read"
                          /\ \/ Turns("lwip", "close", "none")
                             \/ Turns("lwip", "wait", "none")
                             \/ Turns("lwip", "fetch", "none")
           /\ Fetch => /\ Top("lwip") = "fetch"
                       /\ Turns("lwip", IF Portion = 0 THEN "wait" ELSE "fetched", "none")
           /\ Fetched => Top("lwip") = "fetched" /\ Turns("lwip", "parse", "none")
           /\ Parse => /\ Top("lwip") = "parse"
                       /\ \E h \in Headers : IF h.size <= Len(packet) THEN Handles(h) ELSE Waits
           /\ Consume => /\ Top("lwip") = "consume"
                         /\ Turns("lwip", IF packet' = <<>> THEN "fetch" ELSE "parse", "none")
<1>1. "lwip" \in Threads BY DEF Threads
<1>2. /\ StackType /\ ~Idle("lwip") /\ Shape("lwip", Top("lwip"), Rest("lwip"))
      /\ ReadLook => Top("lwip") = "read"
      /\ Fetch => Top("lwip") = "fetch"
      /\ Fetched => Top("lwip") = "fetched"
      /\ Parse => Top("lwip") = "parse"
      /\ Consume => Top("lwip") = "consume"
      BY <1>1, Tops DEF Shapes, Receive, ReadLook, Fetch, Fetched, Parse, Consume, At
<1>3. Rest("lwip") = "none" BY <1>2 DEF Receive, Shape, LwipShape, CloseSteps
<1>4. \A a \in {"close", "wait", "fetch", "fetched", "parse", "consume"} :
        Then("lwip", <<a>>) => Turns("lwip", a, "none")
      BY <1>1, <1>2, <1>3, ThenOne DEF Steps
<1>5. \A a, b \in {"close", "send", "consume"} :
        Then("lwip", <<a, b>>) => Turns("lwip", a, b)
  <2>1. {"close", "send", "consume"} \subseteq Steps BY DEF Steps
  <2> QED BY <1>1, <1>2, <1>3, <2>1, ThenTwo
<1>6. ReadLook => \/ Turns("lwip", "close", "none")
                  \/ Turns("lwip", "wait", "none")
                  \/ Turns("lwip", "fetch", "none")
      BY <1>4 DEF ReadLook
<1>7. Fetch => Turns("lwip", IF Portion = 0 THEN "wait" ELSE "fetched", "none")
      BY <1>4 DEF Fetch, Portion
<1>8. Fetched => Turns("lwip", "parse", "none") BY <1>4 DEF Fetched
<1>9. Parse => \E h \in Headers : IF h.size <= Len(packet) THEN Handles(h) ELSE Waits
  <2> SUFFICES ASSUME NEW h \in Headers, Parse!2!(h)
               PROVE  IF h.size <= Len(packet) THEN Handles(h) ELSE Waits
      BY DEF Parse
  <2> QED BY <1>4, <1>5 DEF Handle, Handles, Waits
<1>10. Consume => Turns("lwip", IF packet' = <<>> THEN "fetch" ELSE "parse", "none")
      BY <1>4 DEF Consume
<1>11. /\ \A a \in {"close", "wait", "fetch", "fetched", "parse", "consume"} :
            Shape("lwip", a, "none")
       /\ Shape("lwip", "close", "close") /\ Shape("lwip", "send", "consume")
      BY DEF Shape, LwipShape, CloseSteps
<1>12. Shapes'
  <2>1. CASE ReadLook BY <1>1, <1>6, <1>11, <2>1, TurnsShapes
  <2>2. CASE Fetch BY <1>1, <1>7, <1>11, <2>2, TurnsShapes
  <2>3. CASE Fetched BY <1>1, <1>8, <1>11, <2>3, TurnsShapes
  <2>4. CASE Parse
    <3>1. \/ Turns("lwip", "fetch", "none") \/ Turns("lwip", "consume", "none")
          \/ Turns("lwip", "close", "close") \/ Turns("lwip", "send", "consume")
          BY <1>9, <2>4 DEF Handles, Waits
    <3> QED BY <1>1, <1>11, <3>1, TurnsShapes
  <2>5. CASE Consume BY <1>1, <1>10, <1>11, <2>5, TurnsShapes
  <2> QED BY <2>1, <2>2, <2>3, <2>4, <2>5 DEF Receive
<1> QED BY <1>2, <1>3, <1>6, <1>7, <1>8, <1>9, <1>10, <1>12

LEMMA BeginTurns ==
    ASSUME Shapes, PingFires \/ ReconnectFires \/ App
    PROVE  /\ Shapes'
           /\ PingFires => Top("timer") = "none" /\ Turns("timer", "send", "none")
           /\ ReconnectFires => Top("timer") = "none" /\ Turns("timer", "connect", "none")
           /\ App => /\ Top("app") = "none" /\ Runs("app")
                     /\ AppConnects => Turns("app", "connect", "none")
                     /\ AppCloses => Turns("app", "close", "none")
                     /\ AppSends => Turns("app", "send", "none")
<1>1. "timer" \in Threads /\ "app" \in Threads /\ StackType BY DEF Threads, Shapes
<1>2. \A a \in {"send", "connect", "close"} :
        /\ Begin("timer", a) => Top("timer") = "none" /\ Turns("timer", a, "none")
        /\ Begin("app", a) => Top("app") = "none" /\ Runs("app") /\ Turns("app", a, "none")
      BY <1>1, BeginOne, TopFacts DEF Begin, Steps
<1>3. \A a \in {"send", "connect", "close"} : Shape("timer", a, "none") /\ Shape("app", a, "none")
      BY DEF Shape, UserShape, CloseSteps
<1>4. /\ PingFires => Begin("timer", "send")
      /\ ReconnectFires => Begin("timer", "connect")
      /\ AppConnects => Begin("app", "connect")
      /\ AppCloses => Begin("app", "close")
      /\ AppSends => Begin("app", "send")
      BY DEF PingFires, ReconnectFires, AppConnects, AppCloses, AppSends
<1> QED BY <1>1, <1>2, <1>3, <1>4, TurnsShapes DEF App

-----------------------------------------------------------------------------
(* Types *)

LEMMA ConstantFacts ==
    /\ MQTT_RECV_BUF_LEN_MAX \in Nat /\ MQTT_RECV_BUF_LEN_MAX > 0 /\ MAX_READ \in Nat
    /\ REM_LEN \in Nat /\ REM_LEN > 0
    /\ Streams \subseteq Seq(Pieces)
BY MqttAssumption

LEMMA PriorityFacts ==
    /\ Priority["app"] \in Nat /\ Priority["lwip"] \in Nat /\ Priority["timer"] \in Nat
    /\ Priority["timer"] > Priority["lwip"]
BY MqttAssumption DEF Threads

LEMMA StreamType ==
    ASSUME TypeOK
    PROVE  /\ stream \in Seq(Pieces) /\ Len(stream) \in Nat
           /\ arrived \in Nat /\ taken \in Nat /\ taken <= arrived /\ arrived <= Len(stream)
<1>1. stream \in Seq(Pieces)
  <2>1. stream \in Streams \/ stream = <<>> BY DEF TypeOK
  <2>2. Streams \subseteq Seq(Pieces) BY ConstantFacts
  <2>3. <<>> \in Seq(Pieces) BY EmptySeq
  <2> QED BY <2>1, <2>2, <2>3
<1>2. Len(stream) \in Nat BY <1>1, LenProperties
<1> QED BY <1>1, <1>2 DEF TypeOK

LEMMA ResetKeeps ==
    ASSUME Types, Shapes, NEW t \in Threads, ResetBuffer(t)
    PROVE  /\ packet' = <<>> /\ cut' \in BOOLEAN /\ misread' = misread
           /\ hand' \in Seq(Pieces) /\ Len(hand') = Len(hand)
           /\ Top("lwip") # "fetched" => hand' = hand
           /\ Top("lwip") = "fetched" => Len(hand') <= MQTT_RECV_BUF_LEN_MAX
<1>1. /\ packet \in Seq(Pieces) /\ hand \in Seq(Pieces) /\ cut \in BOOLEAN
      /\ Len(packet) \in Nat /\ Len(hand) \in Nat
      BY LenProperties DEF Types, TypeOK
<1>2. At("lwip", "fetched") <=> Top("lwip") = "fetched" BY Tops DEF Threads
<1>3. CASE Top("lwip") = "fetched"
  <2> DEFINE n == Len(hand)
             all == packet \o hand
  <2>1. all \in Seq(Pieces) /\ n <= Len(all) /\ n \in Nat
        BY <1>1, ConcatProperties
  <2>2. hand' = SubSeq(all, 1, n) BY <1>2, <1>3 DEF ResetBuffer
  <2> HIDE DEF n, all
  <2>3. SubSeq(all, 1, n) \in Seq(Pieces) /\ Len(SubSeq(all, 1, n)) = n
        BY <2>1, SubSeqProperties, ElementOfSeq
  <2>4. n <= MQTT_RECV_BUF_LEN_MAX BY <1>1, <1>3, ConstantFacts DEF Types, n
  <2> QED BY <1>1, <1>3, <2>2, <2>3, <2>4 DEF ResetBuffer, n
<1>4. CASE Top("lwip") # "fetched" BY <1>1, <1>2, <1>4 DEF ResetBuffer
<1> QED BY <1>3, <1>4

\* a step that empties the buffer, and changes mqtt_state and the reconnection timer at most
LEMMA ResetTypes ==
    ASSUME TypeOK, packet' \in Seq(Pieces), Len(packet') = 0, hand' \in Seq(Pieces),
           cut' \in BOOLEAN, misread' = misread, reconnect_timer' \in BOOLEAN,
           mqtt_state' \in {mqtt_state, "DISCONNECT"},
           UNCHANGED <<overrun, ping_timer, netcVars, connVars, otherVars>>
    PROVE  TypeOK'
<1>1. Len(packet') <= MQTT_RECV_BUF_LEN_MAX BY ConstantFacts
<1>2. {overrun, reconnect_timer, ping_timer, reconnect, need_close, new_rx_flag, greeted,
       link, told, astray, cut, misread}' \subseteq BOOLEAN
      BY DEF TypeOK, netcVars, connVars, otherVars
<1>3. mqtt_state' \in {"DISCONNECT", "SCONNECT", "MQTT", "READY"} BY DEF TypeOK
<1>4. UNCHANGED <<state, wait, conn, stream, arrived, taken>> BY DEF netcVars, connVars
<1> QED BY <1>1, <1>2, <1>3, <1>4 DEF TypeOK

\* a step that does not touch buffer and thread of lwIP leaves what is read in its place
LEMMA FitsKept ==
    ASSUME Types, UNCHANGED <<packet, hand>>, Top("lwip")' = "fetched" => Top("lwip") = "fetched"
    PROVE  Top("lwip")' = "fetched" => Len(packet') + Len(hand') <= MQTT_RECV_BUF_LEN_MAX
BY DEF Types

LEMMA SocketTypes ==
    ASSUME NEW c \in {"none", "opening"}, SetSocket(c)
    PROVE  /\ conn' \in {"none", "opening", "up", "dead"} /\ greeted' \in BOOLEAN
           /\ stream' \in Streams \cup {<<>>}
           /\ taken' \in 0 .. arrived' /\ arrived' \in 0 .. Len(stream')
<1>1. stream' = <<>> /\ arrived' = 0 /\ taken' = 0 /\ conn' = c /\ greeted' = FALSE BY DEF SetSocket
<1>2. Len(stream') = 0 BY <1>1
<1>3. taken' \in 0 .. arrived' /\ arrived' \in 0 .. Len(stream') BY <1>1, <1>2
<1>4. stream' \in Streams \cup {<<>>} BY <1>1
<1>5. conn' \in {"none", "opening", "up", "dead"} /\ greeted' \in BOOLEAN BY <1>1
<1> QED BY <1>3, <1>4, <1>5

LEMMA CloseTypes ==
    ASSUME Types, Shapes, NEW t \in Threads, Close(t)
    PROVE  Types'
<1>1. Shape(t, Top(t), Rest(t)) /\ TypeOK BY Tops DEF Types
<1>2. Top("lwip")' = "fetched" => Top("lwip") = "fetched"
      BY <1>1, CloseTurns DEF Close, Turns, Threads, Shape, LwipShape, CloseSteps
<1>3. CASE CloseTest(t)
  <2>1. TypeOK'
        BY <1>1, <1>3 DEF CloseTest, TypeOK, clientVars, netcVars, connVars, otherVars, bufferVars
  <2> QED BY <1>2, <1>3, <2>1, FitsKept DEF Types, CloseTest, clientVars
<1>4. CASE CloseSet(t) \/ Closed(t)
  <2>1. ResetBuffer(t) BY <1>4 DEF CloseSet, Closed
  <2>2. /\ packet' \in Seq(Pieces) /\ Len(packet') = 0 /\ hand' \in Seq(Pieces)
        /\ cut' \in BOOLEAN /\ misread' = misread
        BY <2>1, ResetKeeps, EmptySeq
  <2>3. TypeOK'
    <3>1. mqtt_state' \in {mqtt_state, "DISCONNECT"} /\ reconnect_timer' = reconnect_timer
          /\ UNCHANGED <<overrun, ping_timer, netcVars, connVars, otherVars>>
          BY <1>4 DEF CloseSet, Closed
    <3>2. reconnect_timer \in BOOLEAN BY <1>1 DEF TypeOK
    <3> QED BY <1>1, <2>2, <3>1, <3>2, ResetTypes
  <2> QED BY <1>2, <2>1, <2>2, <2>3, ResetKeeps, LenProperties DEF Types, TypeOK
<1>5. CASE CloseShut(t)
  <2>1. TypeOK'
        BY <1>1, <1>5, SocketTypes DEF CloseShut, TypeOK, clientVars, otherVars, bufferVars
  <2> QED BY <1>2, <1>5, <2>1, FitsKept DEF Types, CloseShut, clientVars
<1>6. CASE CloseRetry(t)
  <2>1. TypeOK' BY <1>1, <1>6 DEF CloseRetry, TypeOK, netcVars, connVars, bufferVars
  <2> QED BY <1>2, <1>6, <2>1, FitsKept DEF Types, CloseRetry
<1> QED BY <1>3, <1>4, <1>5, <1>6 DEF Close

LEMMA SendTypes ==
    ASSUME Types, Shapes, NEW t \in Threads, Send(t)
    PROVE  Types'
<1>1. PICK connect \in BOOLEAN : Send(t)!(connect) BY DEF Send
<1>2. TypeOK'
  <2>1. wait' \in {wait, "TX_OK"} /\ need_close' \in {TRUE, need_close}
        /\ greeted' \in {TRUE, FALSE, greeted}
        BY <1>1
  <2>2. UNCHANGED <<clientVars, state, new_rx_flag, conn, stream, arrived, taken, otherVars, bufferVars>>
        BY <1>1
  <2>3. {overrun, reconnect_timer, ping_timer, reconnect, need_close, new_rx_flag, greeted,
         link, told, astray, cut, misread}' \subseteq BOOLEAN
    <3>1. {overrun, reconnect_timer, ping_timer, reconnect, new_rx_flag, link, told, astray, cut,
           misread} \subseteq BOOLEAN /\ need_close \in BOOLEAN /\ greeted \in BOOLEAN
          BY DEF Types, TypeOK
    <3>2. UNCHANGED <<overrun, reconnect_timer, ping_timer, reconnect, new_rx_flag, link, told,
                      astray, cut, misread>>
          BY <2>2 DEF clientVars, otherVars, bufferVars
    <3>3. need_close' \in BOOLEAN /\ greeted' \in BOOLEAN BY <2>1, <3>1
    <3> QED BY <3>1, <3>2, <3>3
  <2>4. wait' \in {"NONE", "ON_LINE", "TX_OK", "EVENT"} BY <2>1 DEF Types, TypeOK
  <2>5. UNCHANGED <<mqtt_state, packet, hand, state, conn, stream, arrived, taken>>
        BY <2>2 DEF clientVars
  <2> QED BY <2>3, <2>4, <2>5 DEF Types, TypeOK
<1>3. Shape(t, Top(t), Rest(t)) BY Tops
<1>4. Top("lwip")' = "fetched" => Top("lwip") = "fetched"
      BY <1>3, SendTurns DEF Turns, Threads, Shape, LwipShape, CloseSteps
<1> QED BY <1>1, <1>2, <1>4, FitsKept DEF Types, clientVars

LEMMA ConnectTypes ==
    ASSUME Types, Shapes, NEW t \in Threads, Connect(t)
    PROVE  Types'
<1>1. Top("lwip")' = Top("lwip") /\ UNCHANGED <<packet, hand>>
      BY ConnectTurns
      DEF Turns, Threads, Connect, ConnectLook, ConnectLocked, ConnectDone, clientVars
<1>2. ConnectLook(t) => TypeOK'
      BY DEF ConnectLook, Types, TypeOK, clientVars, netcVars, connVars, otherVars, bufferVars
<1>3. ConnectLocked(t) => TypeOK'
      BY SocketTypes
      DEF ConnectLocked, PrepareConnect, Types, TypeOK, clientVars, connVars, Connecting, bufferVars
<1>4. ConnectDone(t) => TypeOK'
      BY DEF ConnectDone, Types, TypeOK, netcVars, connVars, Connecting, bufferVars
<1> QED BY <1>1, <1>2, <1>3, <1>4, FitsKept DEF Connect, Types

\* the result of every event
LEMMA EventResult ==
    ASSUME Event
    PROVE  \E r \in {-1, 0, 1} : Result(r)
<1>1. CASE Opened
  <2> DEFINE r == Outcome(state = "CONNECTING")
  <2>1. r \in {-1, 0, 1} BY DEF Outcome
  <2>2. Result(r) BY <1>1 DEF Opened
  <2> HIDE DEF r
  <2> QED BY <2>1, <2>2
<1>2. CASE Lost
  <2> DEFINE r == IF state \in {"CONNECTING", "ONLINE"} THEN -1 ELSE 1
  <2>1. r \in {-1, 0, 1} BY DEF Outcome
  <2>2. Result(r) BY <1>2 DEF Lost
  <2> HIDE DEF r
  <2> QED BY <2>1, <2>2
<1>3. CASE Arrive
  <2> DEFINE r == Outcome(state = "ONLINE" /\ wait # "TX_OK")
  <2>1. r \in {-1, 0, 1} BY DEF Outcome
  <2>2. Result(r) BY <1>3 DEF Arrive
  <2> HIDE DEF r
  <2> QED BY <2>1, <2>2
<1>4. CASE Acked
  <2> DEFINE r == Outcome(state = "ONLINE" /\ wait = "TX_OK")
  <2>1. r \in {-1, 0, 1} BY DEF Outcome
  <2>2. Result(r) BY <1>4 DEF Acked
  <2> HIDE DEF r
  <2> QED BY <2>1, <2>2
<1>5. CASE LinkChange
  <2>1. Result(1) \/ Result(-1) \/ Result(IF need_close' THEN -1 ELSE 1) BY <1>5 DEF LinkChange
  <2>2. (IF need_close' THEN -1 ELSE 1) \in {-1, 0, 1} BY DEF Outcome
  <2> QED BY <2>1, <2>2
<1> QED BY <1>1, <1>2, <1>3, <1>4, <1>5 DEF Event

LEMMA EventTurns ==
    ASSUME Shapes, Event
    PROVE  /\ Shapes' /\ Top("lwip") = "none" /\ Runs("lwip")
           /\ \/ Turns("lwip", "close", "none") /\ wait' = "NONE"
              \/ Turns("lwip", "online", "none") /\ wait' = "NONE"
              \/ Turns("lwip", "wait", "none") /\ wait' = "NONE"
              \/ Turns("lwip", "read", "none") /\ wait' \in {"NONE", wait}
              \/ Turns("lwip", "none", "none") /\ wait' = wait
<1>1. PICK r \in {-1, 0, 1} : Result(r) BY EventResult
<1>2. wait' = IF r = 1 THEN wait ELSE "NONE" BY <1>1 DEF Result
<1> QED BY <1>1, <1>2, ResultTurns

LEMMA EventTypes ==
    ASSUME Types, Shapes, Event
    PROVE  Types'
<1>1. wait' \in {"NONE", wait} BY EventTurns
<1>2. TypeOK BY DEF Types
<1>3. Opened => TypeOK'
      BY <1>1, <1>2 DEF Event, Opened, TypeOK, clientVars, bufferVars
<1>4. Lost => TypeOK'
      BY <1>1, <1>2 DEF Event, Lost, TypeOK, clientVars, bufferVars
<1>5. Arrive => TypeOK'
  <2> SUFFICES ASSUME Arrive PROVE TypeOK' OBVIOUS
  <2>1. stream' \in Streams \cup {<<>>} BY <1>2 DEF Arrive, TypeOK
  <2>2. stream' \in Seq(Pieces)
    <3>1. stream' \in Streams \/ stream' = <<>> BY <2>1
    <3>2. Streams \subseteq Seq(Pieces) BY ConstantFacts
    <3>3. <<>> \in Seq(Pieces) BY EmptySeq
    <3> QED BY <3>1, <3>2, <3>3
  <2>3. Len(stream') \in Nat BY <2>2, LenProperties
  <2>4. arrived' \in arrived + 1 .. Len(stream') /\ taken' = taken BY DEF Arrive
  <2>5. taken' \in 0 .. arrived' /\ arrived' \in 0 .. Len(stream')
        BY <1>2, <2>3, <2>4, StreamType
  <2> QED BY <1>1, <1>2, <2>1, <2>5 DEF Event, Arrive, TypeOK, clientVars, bufferVars
<1>6. Acked => TypeOK'
      BY <1>1, <1>2 DEF Event, Acked, TypeOK, clientVars, connVars, bufferVars
<1>7. LinkChange => TypeOK'
      BY <1>1, <1>2, SocketTypes
      DEF Event, LinkChange, PrepareConnect, TypeOK, clientVars, connVars, bufferVars
<1>8. Top("lwip")' # "fetched" BY EventTurns DEF Turns
<1> QED BY <1>3, <1>4, <1>5, <1>6, <1>7, <1>8 DEF Event, Types

LEMMA CallbackTypes ==
    ASSUME Types, Shapes, Callback
    PROVE  Types'
<1>1. TypeOK BY DEF Types
<1>2. TypeOK'
      BY <1>1 DEF Callback, Online, Greet, Wait, TypeOK, clientVars, netcVars, connVars, otherVars,
                 bufferVars
<1>3. Top("lwip")' # "fetched" BY CallbackTurns DEF Callback, Turns
<1> QED BY <1>2, <1>3 DEF Types

LEMMA BeginTypes ==
    ASSUME Types, Shapes, PingFires \/ ReconnectFires \/ App
    PROVE  Types'
<1>1. TypeOK BY DEF Types
<1>2. Top("lwip")' = Top("lwip") BY BeginTurns DEF App, Turns
<1>3. CASE ReconnectFires
  <2>1. ResetBuffer("timer") /\ "timer" \in Threads BY <1>3 DEF ReconnectFires, Threads
  <2>2. /\ packet' \in Seq(Pieces) /\ Len(packet') = 0 /\ hand' \in Seq(Pieces)
        /\ cut' \in BOOLEAN /\ misread' = misread
        BY <2>1, ResetKeeps, EmptySeq
  <2>3. /\ UNCHANGED <<mqtt_state, overrun, ping_timer, netcVars, connVars, otherVars>>
        /\ reconnect_timer' = FALSE
        BY <1>3 DEF ReconnectFires
  <2>4. TypeOK' BY <1>1, <2>2, <2>3, ResetTypes
  <2> QED BY <1>2, <2>1, <2>2, <2>4, ResetKeeps, LenProperties DEF Types, TypeOK
<1>4. CASE PingFires \/ App
  <2>1. TypeOK'
        BY <1>1, <1>4
        DEF PingFires, App, AppConnects, AppCloses, AppSends, TypeOK, clientVars, netcVars,
            connVars, otherVars, bufferVars
  <2>2. UNCHANGED <<packet, hand>>
        BY <1>4 DEF PingFires, App, AppConnects, AppCloses, AppSends, clientVars
  <2> QED BY <1>2, <2>1, <2>2, FitsKept DEF Types
<1> QED BY <1>3, <1>4

\* network_rx reads what has arrived, and no more than there is room for
LEMMA PortionFacts ==
    ASSUME TypeOK
    PROVE  /\ Len(packet) \in Nat /\ Room \in Nat /\ Room = MQTT_RECV_BUF_LEN_MAX - Len(packet)
           /\ Portion \in Nat /\ Portion <= Room /\ taken + Portion <= arrived
<1>1. Len(packet) \in Nat /\ Len(packet) <= MQTT_RECV_BUF_LEN_MAX BY LenProperties DEF TypeOK
<1>2. MQTT_RECV_BUF_LEN_MAX \in Nat /\ MAX_READ \in Nat BY ConstantFacts
<1>3. Room \in Nat BY <1>1, <1>2 DEF Room
<1>4. Unread \in Nat /\ taken + Unread <= arrived BY StreamType DEF Unread
<1>5. \A a, b \in Nat : Least(a, b) \in Nat /\ Least(a, b) <= a /\ Least(a, b) <= b BY DEF Least
<1>6. Least(MAX_READ, Room) \in Nat /\ Least(MAX_READ, Room) <= Room BY <1>2, <1>3, <1>5
<1>7. Portion \in Nat /\ Portion <= Unread /\ Portion <= Least(MAX_READ, Room)
      BY <1>4, <1>5, <1>6 DEF Portion
<1>8. Portion <= Room BY <1>3, <1>6, <1>7
<1>9. taken + Portion <= arrived BY <1>4, <1>7, StreamType
<1> QED BY <1>1, <1>3, <1>7, <1>8, <1>9 DEF Room

LEMMA FetchFacts ==
    ASSUME TypeOK, Fetch
    PROVE  /\ hand' \in Seq(Pieces) /\ Len(hand') = Portion /\ taken' = taken + Portion
           /\ \A i \in 1 .. Portion : hand'[i] = stream[taken + i]
<1> DEFINE n == Portion
<1>1. hand' = SubSeq(stream, taken + 1, taken + n) /\ taken' = taken + n BY DEF Fetch, Portion
<1>2. n \in Nat /\ taken + n <= Len(stream) /\ taken \in Nat /\ stream \in Seq(Pieces)
      /\ Len(stream) \in Nat
      BY PortionFacts, StreamType
<1> HIDE DEF n
<1>3. \A i \in taken + 1 .. taken + n : stream[i] \in Pieces BY <1>2, ElementOfSeq
<1>4. /\ SubSeq(stream, taken + 1, taken + n) \in Seq(Pieces)
      /\ Len(SubSeq(stream, taken + 1, taken + n)) =
            IF taken + 1 <= taken + n THEN taken + n - (taken + 1) + 1 ELSE 0
      /\ \A i \in 1 .. taken + n - (taken + 1) + 1 :
            SubSeq(stream, taken + 1, taken + n)[i] = stream[taken + 1 + i - 1]
      BY <1>2, <1>3, SubSeqProperties
<1>5. Len(hand') = n BY <1>1, <1>2, <1>4
<1>6. ASSUME NEW i \in 1 .. n PROVE hand'[i] = stream[taken + i]
  <2>1. i \in 1 .. taken + n - (taken + 1) + 1 /\ taken + 1 + i - 1 = taken + i BY <1>2
  <2>2. SubSeq(stream, taken + 1, taken + n)[i] = stream[taken + i] BY <1>4, <2>1
  <2> QED BY <1>1, <2>2
<1> QED BY <1>1, <1>4, <1>5, <1>6 DEF n

\* the pieces that are left of the buffer when its first n are dropped
LEMMA RestOfPacket ==
    ASSUME NEW q \in Seq(Pieces), NEW n \in Nat
    PROVE  /\ SubSeq(q, n + 1, Len(q)) \in Seq(Pieces)
           /\ n <= Len(q) => /\ Len(SubSeq(q, n + 1, Len(q))) = Len(q) - n
                             /\ \A i \in 1 .. Len(q) - n : SubSeq(q, n + 1, Len(q))[i] = q[n + i]
           /\ n > Len(q) => SubSeq(q, n + 1, Len(q)) = <<>>
           /\ n <= Len(q) => /\ SubSeq(q, 1, n) \in Seq(Pieces) /\ Len(SubSeq(q, 1, n)) = n
<1>1. Len(q) \in Nat BY LenProperties
<1> DEFINE m == Len(q)
<1>2. m \in Nat BY <1>1
<1>3. \A i \in 1 .. m : q[i] \in Pieces BY ElementOfSeq
<1> HIDE DEF m
<1>4. /\ SubSeq(q, n + 1, m) \in Seq(Pieces)
      /\ Len(SubSeq(q, n + 1, m)) = IF n + 1 <= m THEN m - (n + 1) + 1 ELSE 0
      /\ \A i \in 1 .. m - (n + 1) + 1 : SubSeq(q, n + 1, m)[i] = q[n + 1 + i - 1]
      BY <1>2, <1>3, SubSeqProperties
<1>5. n > m => SubSeq(q, n + 1, m) = <<>> BY <1>2, SubSeqEmpty
<1>6. n <= m => SubSeq(q, 1, n) \in Seq(Pieces) /\ Len(SubSeq(q, 1, n)) = n
  <2> SUFFICES ASSUME n <= m PROVE SubSeq(q, 1, n) \in Seq(Pieces) /\ Len(SubSeq(q, 1, n)) = n
      OBVIOUS
  <2>1. \A i \in 1 .. n : q[i] \in Pieces BY <1>2, <1>3
  <2>2. /\ SubSeq(q, 1, n) \in Seq(Pieces)
        /\ Len(SubSeq(q, 1, n)) = IF 1 <= n THEN n - 1 + 1 ELSE 0
        BY <2>1, SubSeqProperties
  <2> QED BY <2>2
<1>7. n <= m => Len(SubSeq(q, n + 1, m)) = m - n BY <1>2, <1>4
<1>8. n <= m => \A i \in 1 .. m - n : SubSeq(q, n + 1, m)[i] = q[n + i] BY <1>2, <1>4
<1> QED BY <1>4, <1>5, <1>6, <1>7, <1>8 DEF m

\* a length counted in 16 bits is not above the length
LEMMA Remainder ==
    ASSUME NEW a \in Nat, NEW m \in Nat, m > 0
    PROVE  a % m \in Nat /\ a % m <= a
OBVIOUS

\* the header of a packet has its kind, and at most its size
LEMMA HeaderFacts ==
    ASSUME TypeOK, NEW h \in Headers
    PROVE  /\ h.size \in Nat /\ h.size >= 1
           /\ packet # <<>> /\ packet[1].at = 1 =>
                h.kind = packet[1].kind /\ h.size <= packet[1].size /\ packet[1].size \in Nat
<1>1. CASE packet # <<>> /\ packet[1].at = 1
  <2>1. packet[1] \in Pieces BY <1>1, EmptyIffShort, LenProperties, ElementOfSeq DEF TypeOK
  <2> DEFINE n == packet[1].size
             r == (n - 1) % REM_LEN
  <2>2. n \in Nat /\ n >= 1 BY <2>1 DEF Pieces
  <2>3. n - 1 \in Nat BY <2>2
  <2>4. r \in Nat /\ r <= n - 1 BY <2>3, ConstantFacts, Remainder
  <2>5. h.kind = packet[1].kind /\ h.size = 1 + r BY <1>1 DEF Headers
  <2> HIDE DEF r
  <2> QED BY <2>2, <2>4, <2>5
<1>2. CASE ~(packet # <<>> /\ packet[1].at = 1)
  <2>1. h \in [kind : Kinds, size : 1 .. MQTT_RECV_BUF_LEN_MAX + 1] BY <1>2 DEF Headers
  <2>2. h.size \in 1 .. MQTT_RECV_BUF_LEN_MAX + 1 BY <2>1
  <2> QED BY <1>2, <2>2, ConstantFacts
<1> QED BY <1>1, <1>2

LEMMA ReceiveTypes ==
    ASSUME Types, Shapes, Receive
    PROVE  Types'
<1>1. TypeOK BY DEF Types
<1>2. CASE ReadLook
  <2>1. TypeOK' BY <1>1, <1>2 DEF ReadLook, TypeOK, clientVars, netcVars, connVars, otherVars, bufferVars
  <2>2. Top("lwip")' # "fetched" BY <1>2, ReceiveTurns DEF Turns
  <2> QED BY <2>1, <2>2 DEF Types
<1>3. CASE Fetch
  <2>1. taken' \in 0 .. arrived BY <1>1, <1>3, FetchFacts, PortionFacts, StreamType
  <2>2. new_rx_flag' \in BOOLEAN BY <1>3 DEF Fetch
  <2>3. TypeOK' BY <1>1, <1>3, <2>1, <2>2, FetchFacts DEF Fetch, TypeOK, otherVars, bufferVars
  <2>4. Len(packet) + Portion <= MQTT_RECV_BUF_LEN_MAX
        BY <1>1, PortionFacts, ConstantFacts
  <2>5. packet' = packet /\ Len(hand') = Portion BY <1>1, <1>3, FetchFacts DEF Fetch
  <2> QED BY <2>3, <2>4, <2>5 DEF Types
<1>4. CASE Fetched
  <2>1. packet' \in Seq(Pieces) /\ Len(packet') <= MQTT_RECV_BUF_LEN_MAX
    <3>1. packet' = packet \o hand /\ Top("lwip") = "fetched" BY <1>4, ReceiveTurns DEF Fetched
    <3>2. packet \in Seq(Pieces) /\ hand \in Seq(Pieces) BY <1>1 DEF TypeOK
    <3> QED BY <3>1, <3>2, ConcatProperties DEF Types
  <2>2. hand' \in Seq(Pieces) BY <1>4, EmptySeq DEF Fetched
  <2>3. TypeOK'
        BY <1>1, <1>4, <2>1, <2>2 DEF Fetched, TypeOK, netcVars, connVars, otherVars, bufferVars
  <2>4. Top("lwip")' # "fetched" BY <1>4, ReceiveTurns DEF Turns
  <2> QED BY <2>3, <2>4 DEF Types
<1>5. CASE Parse
  <2>1. PICK h \in Headers : IF h.size <= Len(packet) THEN Handles(h) ELSE Waits
        BY <1>5, ReceiveTurns
  <2>2. h.size \in Nat BY <1>1, HeaderFacts
  <2>3. hand' \in Seq(Pieces)
    <3>1. hand' = SubSeq(packet, 1, h.size) \/ hand' = hand BY <2>1 DEF Handles, Waits
    <3>2. h.size <= Len(packet) \/ hand' = hand BY <2>1 DEF Waits
    <3>3. hand \in Seq(Pieces) /\ packet \in Seq(Pieces) BY <1>1 DEF TypeOK
    <3> QED BY <2>2, <3>1, <3>2, <3>3, RestOfPacket
  <2>4. mqtt_state' \in {"READY", mqtt_state} /\ misread' \in BOOLEAN
        BY <1>1, <2>1 DEF TypeOK, Handles, Waits
  <2>5. TypeOK'
        BY <1>1, <1>5, <2>3, <2>4 DEF Parse, TypeOK, netcVars, connVars, otherVars
  <2>6. Top("lwip")' # "fetched" BY <2>1 DEF Handles, Waits, Turns
  <2> QED BY <2>5, <2>6 DEF Types
<1>6. CASE Consume
  <2>1. packet' \in Seq(Pieces) /\ Len(packet') <= MQTT_RECV_BUF_LEN_MAX
    <3> DEFINE n == Len(hand)
    <3>1. packet' = SubSeq(packet, n + 1, Len(packet)) BY <1>6 DEF Consume
    <3>2. n \in Nat /\ packet \in Seq(Pieces) /\ Len(packet) \in Nat
          /\ Len(packet) <= MQTT_RECV_BUF_LEN_MAX
          BY <1>1, LenProperties DEF TypeOK
    <3> HIDE DEF n
    <3>3. CASE n <= Len(packet)
      <4>1. packet' \in Seq(Pieces) /\ Len(packet') = Len(packet) - n
            BY <3>1, <3>2, <3>3, RestOfPacket
      <4>2. MQTT_RECV_BUF_LEN_MAX \in Nat BY ConstantFacts
      <4> QED BY <3>2, <4>1, <4>2
    <3>4. CASE n > Len(packet)
      <4>1. packet' = <<>> BY <3>1, <3>2, <3>4, RestOfPacket
      <4> QED BY <4>1, EmptySeq, ConstantFacts
    <3> QED BY <3>2, <3>3, <3>4
  <2>2. hand' \in Seq(Pieces) /\ overrun' \in BOOLEAN BY <1>6, EmptySeq DEF Consume
  <2>3. TypeOK'
        BY <1>1, <1>6, <2>1, <2>2 DEF Consume, TypeOK, netcVars, connVars, otherVars, bufferVars
  <2>4. Top("lwip")' # "fetched" BY <1>6, ReceiveTurns DEF Turns
  <2> QED BY <2>3, <2>4 DEF Types
<1> QED BY <1>2, <1>3, <1>4, <1>5, <1>6 DEF Receive

-----------------------------------------------------------------------------
(* The ctrl, and who is to go on *)

LEMMA CloseTended ==
    ASSUME Shapes, Netc, Tended, NEW t \in Threads, Close(t)
    PROVE  Netc' /\ Tended'
<1>1. Shape(t, Top(t), Rest(t)) BY Tops
<1>2. CASE CloseTest(t)
  <2>1. /\ Top(t) = "close"
        /\ mqtt_state = "DISCONNECT" => Turns(t, "leave", Rest(t))
        /\ mqtt_state # "DISCONNECT" => Turns(t, "drop", Rest(t))
        BY <1>2, CloseTurns
  <2>2. UNCHANGED <<netcVars, connVars, otherVars, reconnect_timer>> BY <1>2 DEF CloseTest, clientVars
  <2>3. Netc' BY <2>1, <2>2 DEF Netc, Turns, netcVars, connVars, otherVars
  <2>4. CASE mqtt_state = "DISCONNECT"
    <3>1. Turns(t, "leave", Rest(t)) /\ Top(t) = "close" BY <2>1, <2>4
    <3>2. \A x \in {"drop", "shut", "retry", "connect", "connect_locked", "sconnect"} :
            Waiting(x) => Waiting(x)'
          BY <3>1 DEF Waiting, Turns, Threads
    <3>3. UNCHANGED <<reconnect_timer, told, astray>> BY <2>2 DEF otherVars
    <3>4. astray \/ Owed BY <2>4 DEF Tended, Engaged
    <3> QED BY <2>3, <3>2, <3>3, <3>4 DEF Tended, Owed
  <2>5. CASE mqtt_state # "DISCONNECT"
    <3>1. Turns(t, "drop", Rest(t)) BY <2>1, <2>5
    <3>2. Tended' BY <3>1 DEF Tended, Owed, Waiting, Turns, Threads
    <3> QED BY <2>3, <3>2
  <2> QED BY <2>3, <2>4, <2>5
<1>3. CASE CloseSet(t)
  <2>1. Top(t) = "drop" /\ Turns(t, "shut", Rest(t)) BY <1>3, CloseTurns
  <2>2. UNCHANGED <<netcVars, connVars, otherVars>> BY <1>3 DEF CloseSet
  <2>3. Netc' BY <2>1, <2>2 DEF Netc, Turns, netcVars, connVars, otherVars
  <2>4. Tended' BY <2>1 DEF Tended, Owed, Waiting, Turns, Threads
  <2> QED BY <2>3, <2>4
<1>4. CASE CloseShut(t)
  <2>1. Top(t) = "shut" /\ Turns(t, "retry", Rest(t)) BY <1>4, CloseTurns
  <2>2. Netc' BY <1>4, <2>1 DEF CloseShut, SetSocket, Netc, Turns, otherVars
  <2>3. Tended' BY <2>1 DEF Tended, Owed, Waiting, Turns, Threads
  <2> QED BY <2>2, <2>3
<1>5. CASE CloseRetry(t)
  <2>1. Top(t) = "retry" /\ Turns(t, "closed", Rest(t)) BY <1>5, CloseTurns
  <2>2. Netc' BY <1>5, <2>1 DEF CloseRetry, Netc, Turns, netcVars, connVars
  <2>3. Tended' BY <1>5 DEF CloseRetry, Tended, Owed
  <2> QED BY <2>2, <2>3
<1>6. CASE Closed(t)
  <2>1. Top(t) \in {"closed", "leave"} /\ Turns(t, Rest(t), "none") BY <1>6, CloseTurns
  <2>2. t = "lwip" => Rest(t) \in {"none", "close", "wait", "consume"}
        BY <1>1, <2>1 DEF Shape, LwipShape, CloseSteps
  <2>3. UNCHANGED <<mqtt_state, netcVars, connVars, otherVars, reconnect_timer>>
        BY <1>6 DEF Closed
  <2>4. Netc' BY <2>1, <2>2, <2>3 DEF Netc, Turns, netcVars, connVars, otherVars
  <2>5. Tended'
        BY <2>1, <2>3
        DEF Tended, Owed, Engaged, Connecting, Up, Waiting, Turns, Threads, netcVars, connVars,
            otherVars
  <2> QED BY <2>4, <2>5
<1> QED BY <1>2, <1>3, <1>4, <1>5, <1>6 DEF Close

LEMMA SendTended ==
    ASSUME Types, Shapes, Netc, Tended, NEW t \in Threads, Send(t)
    PROVE  Netc' /\ Tended'
<1>1. PICK connect \in BOOLEAN : Send(t)!(connect) BY DEF Send
<1>2. Top(t) = IF connect THEN "send_connect" ELSE "send" BY <1>1, Tops
<1>3. Shape(t, Top(t), Rest(t)) BY Tops
<1>4. /\ t # "lwip" => Top(t) = "send" /\ Rest(t) = "none"
      /\ t = "lwip" => Rest(t) \in {"wait", "consume"}
      BY <1>2, <1>3 DEF Shape, LwipShape, UserShape, CloseSteps
<1>5. \/ Turns(t, "close", Rest(t))
      \/ Top(t) = "send_connect" /\ ~Offline /\ Turns(t, "greet", Rest(t))
      \/ Top(t) = "send" /\ ~Offline /\ Turns(t, Rest(t), "none")
      BY SendTurns
<1>6. UNCHANGED <<mqtt_state, reconnect_timer, state, new_rx_flag, conn, stream, told, astray>>
      BY <1>1 DEF clientVars, otherVars
<1>7. /\ wait' = wait \/ (wait' = "TX_OK" /\ ~Offline)
      /\ greeted' = greeted \/ (connect /\ greeted' = TRUE /\ ~Offline)
  <2>1. greeted \in BOOLEAN BY DEF Types, TypeOK
  <2>2. wait' = wait \/ (wait' = "TX_OK" /\ ~Offline) BY <1>1
  <2>3. greeted' = greeted \/ (greeted' = (greeted \/ connect) /\ ~Offline) BY <1>1
  <2>4. connect => greeted' = greeted \/ (greeted' = TRUE /\ ~Offline) BY <2>3
  <2>5. ~connect => greeted' = greeted BY <2>1, <2>3
  <2> QED BY <2>2, <2>4, <2>5
<1>8. ~Offline => state = "ONLINE" /\ conn # "none" BY DEF Offline
<1>9. Netc'
  <2>1. t = "lwip" /\ greeted' # greeted => Top("lwip")' # "online" /\ Top("lwip")' # "send_connect"
        BY <1>4, <1>5 DEF Turns
  <2>2. Top("lwip")' = Top("lwip") \/ Top("lwip")' \notin {"online", "send_connect"}
        BY <1>4, <1>5 DEF Turns
  <2> QED BY <1>2, <1>4, <1>6, <1>7, <1>8, <2>1, <2>2 DEF Netc
<1>10. Tended'
  <2>1. \A x \in {"drop", "shut", "retry", "connect", "connect_locked", "sconnect", "close"} :
            Waiting(x) => Waiting(x)'
        BY <1>2, <1>5 DEF Waiting, Turns, Threads
  <2>2. Connecting => Connecting' BY <1>6, <1>7, <1>8 DEF Connecting
  <2> QED BY <1>6, <2>1, <2>2 DEF Tended, Owed, Engaged, Up
<1> QED BY <1>9, <1>10

LEMMA ConnectTended ==
    ASSUME Shapes, Netc, Tended, NEW t \in Threads, Connect(t)
    PROVE  Netc' /\ Tended'
<1>1. t # "lwip" BY ConnectTurns
<1>2. CASE ConnectLook(t)
  <2>1. \/ Turns(t, "connect_locked", "sconnect")
        \/ Turns(t, "sconnect", "none")
        BY <1>2, ConnectTurns
  <2>2. Netc'
        BY <1>1, <1>2, <2>1 DEF ConnectLook, Netc, Turns, netcVars, connVars, otherVars
  <2>3. Tended' BY <2>1 DEF Tended, Owed, Waiting, Turns, Threads
  <2> QED BY <2>2, <2>3
<1>3. CASE ConnectLocked(t)
  <2>1. Turns(t, "sconnect", "none") BY <1>3, ConnectTurns
  <2>2. Top("lwip")' = Top("lwip") BY <1>1, <2>1 DEF Turns
  <2>3. Netc'
    <3>1. UNCHANGED new_rx_flag BY <1>3 DEF ConnectLocked
    <3>3. CASE state' = "LINK_OFF" /\ UNCHANGED connVars
      <4>1. astray' = (astray \/ Connecting \/ conn # "none") BY <1>3 DEF ConnectLocked
      <4> QED BY <2>2, <3>1, <3>3, <4>1 DEF Netc, connVars
    <3>4. CASE PrepareConnect(TRUE)
      <4>1. /\ conn' = "opening" /\ stream' = <<>> /\ greeted' = FALSE
            /\ state' = "CONNECTING"
            BY <3>4 DEF PrepareConnect, SetSocket
      <4>2. astray' = (astray \/ Connecting \/ conn # "none") BY <1>3 DEF ConnectLocked
      <4> QED BY <2>2, <3>1, <4>1, <4>2 DEF Netc
    <3>5. CASE PrepareConnect(FALSE) /\ wait' = "NONE"
      <4>1. /\ conn' = "none" /\ stream' = <<>> /\ greeted' = FALSE
            /\ state' = "OFF_LINE"
            BY <3>5 DEF PrepareConnect, SetSocket
      <4>2. astray' = (astray \/ Connecting \/ conn # "none") BY <1>3 DEF ConnectLocked
      <4> QED BY <2>2, <3>1, <3>5, <4>1, <4>2 DEF Netc
    <3> QED BY <1>3, <3>3, <3>4, <3>5 DEF ConnectLocked
  <2>4. Tended' BY <2>1 DEF Tended, Owed, Waiting, Turns, Threads
  <2> QED BY <2>3, <2>4
<1>4. CASE ConnectDone(t)
  <2>1. Turns(t, "none", "none") BY <1>4, ConnectTurns
  <2>2. Top("lwip")' = Top("lwip") BY <1>1, <2>1 DEF Turns
  <2>3. Netc' BY <1>4, <2>2 DEF ConnectDone, Netc, netcVars, connVars
  <2>4. Tended'
        BY <1>4 DEF ConnectDone, Tended, Engaged, Connecting, netcVars, connVars
  <2> QED BY <2>3, <2>4
<1> QED BY <1>2, <1>3, <1>4 DEF Connect

LEMMA CallbackTended ==
    ASSUME Shapes, Netc, Tended, Callback
    PROVE  Netc' /\ Tended'
<1>1. CASE Online
  <2>1. Top("lwip") = "online" /\ Turns("lwip", "send_connect", "wait") BY <1>1, CallbackTurns
  <2>2. Netc' BY <1>1, <2>1 DEF Online, Netc, Turns, netcVars, connVars, otherVars
  <2>3. Rest("lwip") = "none" BY <2>1, Tops DEF Shape, LwipShape, CloseSteps, Threads
  <2>4. Tended'
        BY <1>1, <2>1, <2>3
        DEF Online, Tended, Owed, Engaged, Connecting, Up, Waiting, Turns, netcVars, connVars,
            otherVars
  <2> QED BY <2>2, <2>4
<1>2. CASE Greet
  <2>1. Top("lwip") = "greet" /\ Rest("lwip") = "wait" /\ Turns("lwip", "wait", "none")
        BY <1>2, CallbackTurns
  <2>2. Netc' BY <1>2, <2>1 DEF Greet, Netc, Turns, netcVars, connVars, otherVars
  <2>3. Tended'
        BY <1>2, <2>1
        DEF Greet, Tended, Owed, Engaged, Connecting, Up, Waiting, Turns, netcVars, connVars,
            otherVars
  <2> QED BY <2>2, <2>3
<1>3. CASE Wait
  <2>1. /\ Top("lwip") = "wait" /\ Rest("lwip") = "none"
        /\ \/ wait' = "EVENT" /\ (new_rx_flag \/ ~Offline) /\ Turns("lwip", "none", "none")
           \/ ~new_rx_flag /\ Offline /\ wait' = wait /\ Turns("lwip", "close", "none")
        BY <1>3, CallbackTurns
  <2>2. Netc' BY <1>3, <2>1 DEF Wait, Netc, Turns, clientVars, connVars, otherVars
  <2>3. ~astray /\ Connecting => ~new_rx_flag /\ Offline BY DEF Netc, Connecting, Offline
  <2>4. Tended'
        BY <1>3, <2>1, <2>3
        DEF Wait, Tended, Owed, Engaged, Connecting, Up, Waiting, Turns, clientVars, connVars,
            otherVars
  <2> QED BY <2>2, <2>4
<1> QED BY <1>1, <1>2, <1>3 DEF Callback

LEMMA ReceiveTended ==
    ASSUME Shapes, Netc, Tended, Receive
    PROVE  Netc' /\ Tended'
<1>1. /\ UNCHANGED <<reconnect_timer, told, astray, state, wait, conn, greeted, stream>>
      /\ new_rx_flag' => new_rx_flag
      /\ mqtt_state' \in {mqtt_state, "READY"}
  <2>1. CASE ReadLook BY <2>1 DEF ReadLook, clientVars, netcVars, connVars, otherVars
  <2>2. CASE Fetch BY <2>2 DEF Fetch, otherVars
  <2>3. CASE Fetched BY <2>3 DEF Fetched, netcVars, connVars, otherVars
  <2>4. CASE Parse
    <3>1. UNCHANGED <<reconnect_timer, told, astray, state, wait, conn, greeted, stream, new_rx_flag>>
          BY <2>4 DEF Parse, netcVars, connVars, otherVars
    <3>2. mqtt_state' \in {mqtt_state, "READY"} BY <2>4, ReceiveTurns DEF Handles, Waits
    <3> QED BY <3>1, <3>2
  <2>5. CASE Consume BY <2>5 DEF Consume, netcVars, connVars, otherVars
  <2> QED BY <2>1, <2>2, <2>3, <2>4, <2>5 DEF Receive
<1>2. \E a \in {"close", "wait", "fetch", "fetched", "parse", "send", "consume"},
         b \in {"none", "close", "consume"} : Turns("lwip", a, b)
      BY ReceiveTurns DEF Receive, Handles, Waits
<1>3. /\ Top("lwip") \in {"read", "fetch", "fetched", "parse", "consume"} /\ Rest("lwip") = "none"
      BY ReceiveTurns DEF Receive
<1>4. Netc' BY <1>1, <1>2 DEF Netc, Turns
<1>5. \A x \in {"drop", "shut", "retry", "connect", "connect_locked", "sconnect", "close"} :
          Waiting(x) => Waiting(x)'
      BY <1>2, <1>3 DEF Waiting, Turns
<1>6. Tended' BY <1>1, <1>5 DEF Tended, Owed, Engaged, Connecting, Up
<1> QED BY <1>4, <1>6

LEMMA BeginTended ==
    ASSUME Shapes, Netc, Tended, PingFires \/ ReconnectFires \/ App
    PROVE  Netc' /\ Tended'
<1>1. /\ UNCHANGED <<mqtt_state, astray, state, wait, conn, greeted, stream, new_rx_flag>>
      /\ reconnect_timer' # reconnect_timer => ReconnectFires
      /\ told' # told => AppConnects
      BY DEF PingFires, ReconnectFires, App, AppConnects, AppCloses, AppSends, clientVars,
             netcVars, connVars, otherVars
<1>2. /\ Top("lwip")' = Top("lwip")
      /\ ReconnectFires \/ (App /\ AppConnects) => Waiting("connect")'
      BY BeginTurns DEF App, Turns, Waiting
<1>3. AppConnects => App BY DEF App
<1>4. Netc' BY <1>1, <1>2 DEF Netc
<1>5. \A x \in {"drop", "shut", "retry", "connect", "connect_locked", "sconnect", "close"} :
          Waiting(x) => Waiting(x)'
  <2>1. \/ Top("timer") = "none" /\ \E a : Turns("timer", a, "none")
        \/ Top("app") = "none" /\ \E a : Turns("app", a, "none")
        BY BeginTurns DEF App
  <2>2. /\ Top("timer") = "none" => Rest("timer") = "none"
        /\ Top("app") = "none" => Rest("app") = "none"
        BY Tops DEF Threads, Shape, UserShape, CloseSteps
  <2> QED BY <2>1, <2>2 DEF Waiting, Turns
<1>6. Tended' BY <1>1, <1>2, <1>3, <1>5 DEF Tended, Owed, Engaged, Connecting, Up
<1> QED BY <1>4, <1>6

\* an event gives the lwIP thread something to do, and takes nothing from anybody
LEMMA EventWaiting ==
    ASSUME Shapes, Event
    PROVE  /\ \A x \in {"drop", "shut", "retry", "connect", "connect_locked", "sconnect", "close"} :
                Waiting(x) => Waiting(x)'
           /\ UNCHANGED <<mqtt_state, reconnect_timer, told, astray>>
           /\ Owed => Owed'
<1>1. Top("lwip") = "none" /\ Rest("lwip") = "none"
      BY EventTurns, Tops DEF Threads, Shape, LwipShape, CloseSteps
<1>2. \E a : Turns("lwip", a, "none") BY EventTurns
<1>3. \A x \in {"drop", "shut", "retry", "connect", "connect_locked", "sconnect", "close"} :
          Waiting(x) => Waiting(x)'
      BY <1>1, <1>2 DEF Waiting, Turns
<1>4. UNCHANGED <<mqtt_state, reconnect_timer, told, astray>> BY DEF Event, clientVars
<1> QED BY <1>3, <1>4 DEF Owed

\* the result of an event is a close, or what the ctrl waited for, or nothing
LEMMA ResultTended ==
    ASSUME Shapes, NEW r \in {-1, 0, 1}, Result(r)
    PROVE  /\ wait' = IF r = 1 THEN wait ELSE "NONE"
           /\ r = -1 => Waiting("close")'
           /\ Top("lwip")' \in {"none", "close", "online", "wait", "read"}
           /\ Top("lwip")' = "online" => r = 0 /\ wait = "ON_LINE"
<1>1. wait' = IF r = 1 THEN wait ELSE "NONE" BY DEF Result
<1>2. CASE r = -1 BY <1>1, <1>2, ResultTurns DEF Turns, Waiting
<1>3. CASE r = 0
  <2> DEFINE x == CASE wait = "ON_LINE" -> "online" [] wait = "TX_OK" -> "wait" [] OTHER -> "read"
  <2>1. x \in {"online", "wait", "read"} /\ (x = "online" => wait = "ON_LINE") OBVIOUS
  <2>2. Turns("lwip", x, "none") BY <1>3, ResultTurns
  <2> HIDE DEF x
  <2> QED BY <1>1, <1>3, <2>1, <2>2 DEF Turns
<1>4. CASE r = 1
  <2>1. Turns("lwip", IF new_rx_flag' THEN "read" ELSE "none", "none") BY <1>4, ResultTurns
  <2>2. (IF new_rx_flag' THEN "read" ELSE "none") \in {"read", "none"} OBVIOUS
  <2> QED BY <1>1, <1>4, <2>1, <2>2 DEF Turns
<1> QED BY <1>2, <1>3, <1>4

LEMMA OpenedTended ==
    ASSUME Shapes, Netc, Tended, Event, Opened
    PROVE  Netc' /\ Tended'
<1> DEFINE r == Outcome(state = "CONNECTING")
<1>1. /\ r \in {-1, 0, 1} /\ Result(r)
      /\ Refused => r = -1
      /\ ~Refused /\ state = "CONNECTING" => r = 0
      /\ ~Refused /\ state # "CONNECTING" => r = 1
  <2>1. Result(r) BY DEF Opened
  <2>2. /\ r \in {-1, 0, 1}
        /\ Refused => r = -1
        /\ ~Refused /\ state = "CONNECTING" => r = 0
        /\ ~Refused /\ state # "CONNECTING" => r = 1
        BY DEF Outcome
  <2> HIDE DEF r
  <2> QED BY <2>1, <2>2
<1> HIDE DEF r
<1>2. /\ wait' = IF r = 1 THEN wait ELSE "NONE"
      /\ r = -1 => Waiting("close")'
      BY <1>1, ResultTended
<1>3. /\ conn = "opening" /\ conn' = "up" /\ UNCHANGED <<new_rx_flag, stream, greeted>>
      /\ state' = IF state = "CONNECTING" /\ ~Refused THEN "ONLINE" ELSE state
      BY DEF Opened
<1>4. Netc' BY <1>1, <1>2, <1>3, EventWaiting DEF Netc
<1>5. Tended'
      BY <1>1, <1>2, <1>3, EventWaiting DEF Tended, Engaged, Connecting, Up, Netc
<1> QED BY <1>4, <1>5

LEMMA LostTended ==
    ASSUME Shapes, Netc, Tended, Event, Lost
    PROVE  Netc' /\ Tended'
<1> DEFINE r == IF state \in {"CONNECTING", "ONLINE"} THEN -1 ELSE 1
<1>1. /\ r \in {-1, 1} /\ r \in {-1, 0, 1} /\ Result(r)
      /\ state \in {"CONNECTING", "ONLINE"} => r = -1
      BY DEF Lost
<1> HIDE DEF r
<1>2. /\ wait' = IF r = 1 THEN wait ELSE "NONE"
      /\ r = -1 => Waiting("close")'
      /\ Top("lwip")' \notin {"online", "send_connect"}
      BY <1>1, ResultTended
<1>3. conn \in {"opening", "up"} /\ conn' = "dead" /\ UNCHANGED <<state, new_rx_flag, stream, greeted>>
      BY DEF Lost
<1>4. Netc' BY <1>1, <1>2, <1>3, EventWaiting DEF Netc
<1>5. Tended'
      BY <1>1, <1>2, <1>3, EventWaiting DEF Tended, Engaged, Connecting, Up, Netc
<1> QED BY <1>4, <1>5

LEMMA DataTended ==
    ASSUME Shapes, Netc, Tended, Event, Arrive \/ Acked
    PROVE  Netc' /\ Tended'
<1> DEFINE r == Outcome(state = "ONLINE" /\ wait # "TX_OK")
           q == Outcome(state = "ONLINE" /\ wait = "TX_OK")
<1>1. r \in {-1, 0, 1} /\ q \in {-1, 0, 1} /\ (Arrive => Result(r)) /\ (Acked => Result(q))
      BY DEF Arrive, Acked, Outcome
<1>2. PICK p \in {-1, 0, 1} : Result(p) /\ (p = 0 => state = "ONLINE")
                              /\ (p = -1 => Refused)
  <2>1. (r = 0 => state = "ONLINE") /\ (q = 0 => state = "ONLINE")
        /\ (r = -1 => Refused) /\ (q = -1 => Refused)
        BY DEF Outcome
  <2> HIDE DEF r, q
  <2> QED BY <1>1, <2>1
<1> HIDE DEF r, q
<1>3. /\ wait' = IF p = 1 THEN wait ELSE "NONE"
      /\ p = -1 => Waiting("close")'
      /\ Top("lwip")' = "online" => p = 0 /\ wait = "ON_LINE"
      /\ Top("lwip")' # "send_connect"
      BY <1>2, ResultTended
<1>4. /\ conn = "up" /\ greeted /\ UNCHANGED <<state, conn, greeted>>
      BY DEF Arrive, Acked, connVars
<1>5. wait = "ON_LINE" => state # "ONLINE" BY DEF Netc
<1>6. Netc' BY <1>2, <1>3, <1>4, <1>5, EventWaiting DEF Netc
<1>7. Tended'
      BY <1>2, <1>3, <1>4, EventWaiting DEF Tended, Engaged, Connecting, Up, Netc
<1> QED BY <1>6, <1>7

LEMMA LinkTended ==
    ASSUME Shapes, Netc, Tended, Event, LinkChange
    PROVE  Netc' /\ Tended'
<1>1. UNCHANGED new_rx_flag BY DEF LinkChange
<1>2. CASE state = "LINK_OFF" /\ wait = "ON_LINE" /\ PrepareConnect(TRUE) /\ Result(1)
  <2>1. conn' = "opening" /\ stream' = <<>> /\ greeted' = FALSE /\ state' = "CONNECTING"
        BY <1>2 DEF PrepareConnect, SetSocket
  <2>2. wait' = "ON_LINE" /\ Top("lwip")' \notin {"online", "send_connect"} BY <1>2, ResultTended
  <2>3. ~astray => ~new_rx_flag BY <1>2 DEF Netc
  <2>4. Netc' BY <1>1, <2>1, <2>2, <2>3, EventWaiting DEF Netc
  <2>5. Tended' BY <1>2, <2>1, <2>2, EventWaiting DEF Tended, Engaged, Connecting, Up
  <2> QED BY <2>4, <2>5
<1>3. CASE state = "LINK_OFF" /\ wait = "ON_LINE" /\ PrepareConnect(FALSE) /\ Result(-1)
  <2>1. conn' = "none" /\ stream' = <<>> /\ greeted' = FALSE /\ state' = "OFF_LINE"
        BY <1>3 DEF PrepareConnect, SetSocket
  <2>2. wait' = "NONE" /\ Waiting("close")' /\ Top("lwip")' \notin {"online", "send_connect"}
        BY <1>3, ResultTended
  <2>3. ~astray => ~new_rx_flag BY <1>3 DEF Netc
  <2>4. Netc' BY <1>1, <2>1, <2>2, <2>3, EventWaiting DEF Netc
  <2>5. Tended' BY <1>3, <2>1, <2>2, EventWaiting DEF Tended, Engaged, Connecting, Up
  <2> QED BY <2>4, <2>5
<1>4. CASE /\ state \in {"LINK_OFF", "OFF_LINE"} /\ state' \in {"OFF_LINE", state} /\ Result(1)
           /\ state' # state => ~(state = "LINK_OFF" /\ wait = "ON_LINE")
           /\ UNCHANGED connVars
  <2>1. wait' = wait /\ Top("lwip")' \notin {"online", "send_connect"} BY <1>4, ResultTended
  <2>2. UNCHANGED <<conn, stream, greeted>> BY <1>4 DEF connVars
  <2>3. Netc' BY <1>1, <1>4, <2>1, <2>2, EventWaiting DEF Netc
  <2>4. Tended' BY <1>4, <2>1, <2>2, EventWaiting DEF Tended, Engaged, Connecting, Up, Netc
  <2> QED BY <2>3, <2>4
<1>5. CASE state \in {"CONNECTING", "ONLINE"} /\ Result(-1) /\ UNCHANGED <<state, connVars>>
  <2>1. wait' = "NONE" /\ Waiting("close")' /\ Top("lwip")' \notin {"online", "send_connect"}
        BY <1>5, ResultTended
  <2>2. UNCHANGED <<state, conn, stream, greeted>> BY <1>5 DEF connVars
  <2>3. Netc' BY <1>1, <1>5, <2>1, <2>2, EventWaiting DEF Netc
  <2>4. Tended' BY <1>5, <2>1, <2>2, EventWaiting DEF Tended, Engaged
  <2> QED BY <2>3, <2>4
<1>6. CASE state = "ONLINE" /\ Result(1) /\ UNCHANGED <<state, connVars>>
  <2>1. wait' = wait /\ Top("lwip")' \notin {"online", "send_connect"} BY <1>6, ResultTended
  <2>2. UNCHANGED <<state, conn, stream, greeted>> BY <1>6 DEF connVars
  <2>3. Netc' BY <1>1, <1>6, <2>1, <2>2, EventWaiting DEF Netc
  <2>4. Tended' BY <1>6, <2>1, <2>2, EventWaiting DEF Tended, Engaged, Connecting, Up
  <2> QED BY <2>3, <2>4
<1>7. \/ state = "LINK_OFF" /\ wait = "ON_LINE" /\ PrepareConnect(TRUE) /\ Result(1)
      \/ state = "LINK_OFF" /\ wait = "ON_LINE" /\ PrepareConnect(FALSE) /\ Result(-1)
      \/ /\ state \in {"LINK_OFF", "OFF_LINE"} /\ state' \in {"OFF_LINE", state} /\ Result(1)
         /\ state' # state => ~(state = "LINK_OFF" /\ wait = "ON_LINE")
         /\ UNCHANGED connVars
      \/ state \in {"CONNECTING", "ONLINE"} /\ Result(-1) /\ UNCHANGED <<state, connVars>>
      \/ state = "ONLINE" /\ Result(1) /\ UNCHANGED <<state, connVars>>
      BY DEF LinkChange
<1> QED BY <1>2, <1>3, <1>4, <1>5, <1>6, <1>7

LEMMA EventTended ==
    ASSUME Shapes, Netc, Tended, Event
    PROVE  Netc' /\ Tended'
BY OpenedTended, LostTended, DataTended, LinkTended DEF Event

-----------------------------------------------------------------------------
(* Types, and somebody goes on *)

IInv == Types /\ Shapes /\ Netc /\ Tended

LEMMA InitInv ==
    ASSUME Init
    PROVE  IInv
<1>1. stack = [t \in Threads |-> <<>>] BY DEF Init
<1>2. \A t \in Threads : stack[t] = <<>> /\ Len(stack[t]) = 0 BY <1>1
<1>3. <<>> \in Seq(Steps) /\ <<>> \in Seq(Pieces) BY EmptySeq
<1>4. StackType BY <1>1, <1>2, <1>3 DEF StackType
<1>5. \A t \in Threads : Top(t) = "none" /\ Rest(t) = "none" BY <1>2 DEF Top, Rest, Idle
<1>6. Shapes BY <1>4, <1>5 DEF Shapes, Shape, LwipShape, UserShape
<1>7. TypeOK
  <2>1. /\ Len(packet) <= MQTT_RECV_BUF_LEN_MAX
        /\ packet \in Seq(Pieces) /\ hand \in Seq(Pieces)
        BY <1>3, ConstantFacts DEF Init
  <2>2. taken \in 0 .. arrived /\ arrived \in 0 .. Len(stream) BY DEF Init
  <2> QED BY <2>1, <2>2 DEF Init, TypeOK
<1>8. Types BY <1>5, <1>7 DEF Types, Threads
<1>9. Netc BY <1>5 DEF Init, Netc, Threads
<1>10. Tended BY DEF Init, Tended, Owed
<1> QED BY <1>6, <1>8, <1>9, <1>10 DEF IInv

LEMMA StepInv ==
    ASSUME IInv, NEW t \in Threads, Step(t)
    PROVE  IInv'
<1>1. Types /\ Shapes /\ Netc /\ Tended BY DEF IInv
<1>2. CASE Close(t)
  <2>1. Shapes' BY <1>1, <1>2, CloseTurns
  <2> QED BY <1>1, <1>2, <2>1, CloseTypes, CloseTended DEF IInv
<1>3. CASE Send(t) BY <1>1, <1>3, SendTurns, SendTypes, SendTended DEF IInv
<1>4. CASE Connect(t) BY <1>1, <1>4, ConnectTurns, ConnectTypes, ConnectTended DEF IInv
<1>5. CASE Callback BY <1>1, <1>5, CallbackTurns, CallbackTypes, CallbackTended DEF IInv
<1>6. CASE Receive BY <1>1, <1>6, ReceiveTurns, ReceiveTypes, ReceiveTended DEF IInv
<1> QED BY <1>2, <1>3, <1>4, <1>5, <1>6 DEF Step

LEMMA NextInv ==
    ASSUME IInv, [Next]_vars
    PROVE  IInv'
<1>1. Types /\ Shapes /\ Netc /\ Tended BY DEF IInv
<1>2. CASE \E t \in Threads : Step(t) BY <1>2, StepInv
<1>3. CASE Event BY <1>1, <1>3, EventTurns, EventTypes, EventTended DEF IInv
<1>4. CASE PingFires \/ ReconnectFires \/ App
      BY <1>1, <1>4, BeginTurns, BeginTypes, BeginTended DEF IInv
<1>5. CASE UNCHANGED vars
  <2>1. UNCHANGED <<clientVars, netcVars, connVars, otherVars, bufferVars, stack>>
        BY <1>5 DEF vars
  <2>2. Types'
        BY <1>1, <2>1
        DEF Types, TypeOK, Top, Idle, clientVars, netcVars, connVars, otherVars, bufferVars
  <2>3. Shapes' BY <1>1, <2>1 DEF Shapes, Shape, StackType, Top, Rest, Idle
  <2>4. Netc' BY <1>1, <2>1 DEF Netc, Top, Idle, netcVars, connVars, otherVars
  <2>5. Tended'
        BY <1>1, <2>1
        DEF Tended, Owed, Engaged, Connecting, Up, Waiting, Top, Rest, Idle, clientVars, netcVars,
            connVars, otherVars
  <2> QED BY <2>2, <2>3, <2>4, <2>5 DEF IInv
<1> QED BY <1>2, <1>3, <1>4, <1>5 DEF Next

LEMMA AlwaysIInv == Spec => []IInv
BY InitInv, NextInv, PTL DEF Spec

\* The state of the client, its buffer and what has been read of the connection are of their
\* types: the buffer is never filled beyond its end, however often it is emptied while the
\* lwIP thread is reading into it (luat_mqtt_read_packet, luat_mqtt_close_socket).
THEOREM MqttTypes == Spec => []TypeOK
<1>1. IInv => TypeOK BY DEF IInv, Types
<1> QED BY <1>1, AlwaysIInv, PTL

\* When no thread is in the client, a timer that connects again, the application, the ctrl on
\* its way to a connection or a connection goes on: no order of the closes of three threads
\* leaves the client without (luat_mqtt_close_socket, luat_mqtt_callback).
THEOREM MqttAttended == Spec => []Attended
<1>1. ASSUME IInv PROVE Attended
  <2> SUFFICES ASSUME Quiet, ~astray
               PROVE  reconnect_timer \/ told \/ Connecting \/ Up
      BY DEF Attended
  <2>1. Shapes /\ Tended BY <1>1 DEF IInv
  <2>2. \A t \in Threads : Top(t) = "none" BY <2>1, Tops DEF Quiet
  <2>3. \A t \in Threads : Rest(t) = "none"
        BY <2>1, <2>2, Tops DEF Shape, LwipShape, UserShape, CloseSteps
  <2>4. \A x \in Steps : x # "none" => ~Waiting(x) BY <2>2, <2>3 DEF Waiting, Threads
  <2> QED BY <2>1, <2>4 DEF Tended, Owed, Engaged, Steps
<1> QED BY <1>1, AlwaysIInv, PTL

-----------------------------------------------------------------------------
(* The buffer and the stream *)

Sound == ~astray /\ ~cut /\ ~misread /\ ~overrun

Closing == {"shut", "retry", "closed"}
Users == {"timer", "app"}
Below(t) == Priority[t] < Priority["lwip"]

Fetching == Top("lwip") = "fetched"
Consuming == Top("lwip") = "consume" \/ Rest("lwip") = "consume"

\* the piece of the stream before the one that the buffer begins with
Start == taken - Len(packet) - (IF Fetching THEN Len(hand) ELSE 0)

\* the buffer, and what was read behind it, is what was read last of the stream
Aligned ==
    /\ Start \in Nat /\ Boundary(stream, Start)
    /\ \A i \in 1 .. Len(packet) : packet[i] = stream[Start + i]
    /\ Fetching => \A i \in 1 .. Len(hand) : hand[i] = stream[Start + Len(packet) + i]

\* the application is closing the connection the buffer is from
Stale ==
    /\ Below("app") /\ Top("app") \in {"retry", "closed"}
    /\ Top("lwip") \in CloseSteps \union {"none"} /\ Rest("lwip") = "none"

\* a thread that goes before the lwIP thread closes while there is nothing in the buffer
Alone ==
    Sound => \A t \in Users : Top(t) \in Closing /\ ~Below(t) => Top("lwip") = "none" /\ packet = <<>>

\* while the application closes nobody connects
Parted ==
    /\ Below("app") /\ Top("app") \in {"retry", "closed"} =>
        /\ wait # "ON_LINE" /\ conn = "none"
        /\ Top("timer") \notin {"connect", "connect_locked", "sconnect"}
    /\ \A t \in Threads : Top(t) = "retry" =>
        conn = "none" \/ (conn = "opening" /\ ~(t = "app" /\ Below("app")))

Emptied == Top("lwip") \in Closing => packet = <<>>

Matches == Sound => Aligned \/ Top("lwip") = "shut" \/ Stale

\* only while it is looked at does the buffer hold a packet that is whole
Partial ==
    Sound => \/ Top("lwip") \in {"fetched", "parse"} \/ Consuming \/ Rest("lwip") = "close"
             \/ packet = <<>> \/ packet[1].size > Len(packet)

Handled ==
    Sound =>
        /\ Consuming => /\ Len(hand) >= 1
                        /\ packet # <<>> => Len(hand) = packet[1].size /\ Len(hand) <= Len(packet)
        /\ Fetching => Len(hand) >= 1
        /\ Top("lwip") = "parse" => packet # <<>>

Wrapped == overrun => Top("lwip") = "fetch"

Framing == Alone /\ Parted /\ Emptied /\ Matches /\ Partial /\ Handled /\ Wrapped

-----------------------------------------------------------------------------
(* What is read is parsed *)

\* The application does not have the priority of the lwIP thread: two threads that have the
\* same one take turns.
AppIsApart == Priority["app"] # Priority["lwip"]

LEMMA BelowOrAbove ==
    ASSUME AppIsApart, NEW t \in Users
    PROVE  ~Below(t) => Priority[t] > Priority["lwip"]
BY PriorityFacts DEF AppIsApart, Below, Users

LEMMA TimerAbove == ~Below("timer") /\ (Below("app") => Priority["timer"] > Priority["app"])
BY PriorityFacts DEF Below

\* a thread runs when those before it have nothing to do
LEMMA OthersRest ==
    ASSUME Shapes, NEW t \in Threads, Runs(t), NEW u \in Threads, Priority[u] > Priority[t]
    PROVE  Top(u) = "none" /\ Rest(u) = "none"
<1>1. Idle(u) BY DEF Runs
<1>2. Top(u) = "none" /\ Shape(u, Top(u), Rest(u)) BY <1>1, Tops
<1> QED BY <1>2 DEF Shape, LwipShape, UserShape, CloseSteps

\* nobody goes before the lwIP thread and is closing when that runs
LEMMA AloneOthers ==
    ASSUME AppIsApart, Shapes, Runs("lwip"), \A t \in Users : Top(t)' = Top(t)
    PROVE  Alone'
<1> SUFFICES ASSUME NEW t \in Users, ~Below(t)
             PROVE  Top(t)' \notin Closing
    BY DEF Alone, Below
<1>1. t \in Threads /\ "lwip" \in Threads BY DEF Users, Threads
<1>2. Top(t) = "none" BY <1>1, BelowOrAbove, OthersRest
<1> QED BY <1>2 DEF Closing

LEMMA SoundBefore ==
    ASSUME Next, Sound'
    PROVE  Sound
<1>1. ~overrun BY DEF Next, Step
<1>2. astray => astray'
  <2>1. ASSUME NEW t \in Threads, Close(t) PROVE astray' = astray
        BY <2>1 DEF Close, CloseTest, CloseSet, CloseShut, CloseRetry, Closed, otherVars
  <2>2. ASSUME NEW t \in Threads, Send(t) PROVE astray' = astray BY <2>2 DEF Send, otherVars
  <2>3. ASSUME NEW t \in Threads, Connect(t) PROVE astray => astray'
        BY <2>3 DEF Connect, ConnectLook, ConnectLocked, ConnectDone, otherVars
  <2>4. Callback => astray' = astray BY DEF Callback, Online, Greet, Wait, otherVars
  <2>5. Receive => astray' = astray
        BY DEF Receive, ReadLook, Fetch, Fetched, Parse, Consume, otherVars
  <2>6. PingFires \/ ReconnectFires \/ App => astray' = astray
        BY DEF PingFires, ReconnectFires, App, AppConnects, AppCloses, AppSends, otherVars
  <2>7. Event => astray' = astray BY DEF Event
  <2> QED BY <2>1, <2>2, <2>3, <2>4, <2>5, <2>6, <2>7 DEF Next, Step
<1>3. (cut => cut') /\ (misread => misread')
  <2>1. ASSUME NEW t \in Threads, Close(t) PROVE (cut => cut') /\ misread' = misread
    <3>1. CASE CloseTest(t) \/ CloseShut(t) \/ CloseRetry(t)
      <4>1. UNCHANGED bufferVars BY <3>1 DEF CloseTest, CloseShut, CloseRetry
      <4> QED BY <4>1 DEF bufferVars
    <3>2. CASE CloseSet(t) \/ Closed(t) BY <3>2 DEF CloseSet, Closed, ResetBuffer
    <3> QED BY <2>1, <3>1, <3>2 DEF Close
  <2>2. ASSUME NEW t \in Threads, Send(t) PROVE UNCHANGED <<cut, misread>>
        BY <2>2 DEF Send, bufferVars
  <2>3. ASSUME NEW t \in Threads, Connect(t) PROVE UNCHANGED <<cut, misread>>
        BY <2>3 DEF Connect, ConnectLook, ConnectLocked, ConnectDone, bufferVars
  <2>4. Callback => UNCHANGED <<cut, misread>> BY DEF Callback, Online, Greet, Wait, bufferVars
  <2>5. ReadLook \/ Fetch \/ Fetched \/ Consume => UNCHANGED <<cut, misread>>
        BY DEF ReadLook, Fetch, Fetched, Consume, bufferVars
  <2>6. Parse => cut' = cut /\ (misread => misread') BY DEF Parse
  <2>7. PingFires \/ ReconnectFires \/ App => (cut => cut') /\ misread' = misread
    <3>1. CASE PingFires \/ App
      <4>1. UNCHANGED bufferVars BY <3>1 DEF PingFires, App, AppConnects, AppCloses, AppSends
      <4> QED BY <4>1 DEF bufferVars
    <3>2. CASE ReconnectFires BY <3>2 DEF ReconnectFires, ResetBuffer
    <3> QED BY <3>1, <3>2
  <2>8. Event => UNCHANGED <<cut, misread>> BY DEF Event, bufferVars
  <2> QED BY <2>1, <2>2, <2>3, <2>4, <2>5, <2>6, <2>7, <2>8 DEF Next, Step, Receive
<1> QED BY <1>1, <1>2, <1>3 DEF Sound

\* what empties the buffer finds it empty, but for the lwIP thread in a close of its own
LEMMA ResetSound ==
    ASSUME Types, Shapes, NEW t \in Threads, ResetBuffer(t), ~cut'
    PROVE  /\ t # "lwip" \/ Top("lwip") # "drop" => packet = <<>>
           /\ t # "lwip" => Top("lwip") = "none" /\ Rest("lwip") = "none" /\ hand' = hand
<1>1. "lwip" \in Threads BY DEF Threads
<1>2. /\ ~At("lwip", "drop") => packet = <<>>
      /\ t # "lwip" => Idle("lwip")
      BY DEF ResetBuffer
<1>3. /\ Idle("lwip") => Top("lwip") = "none"
      /\ At("lwip", "drop") => Top("lwip") = "drop"
      BY <1>1, Tops
<1>4. Top("lwip") = "none" => Rest("lwip") = "none"
      BY <1>1, Tops DEF Shape, LwipShape, CloseSteps
<1>5. Top("lwip") = "none" => hand' = hand BY ResetKeeps
<1> QED BY <1>2, <1>3, <1>4, <1>5

\* a connection that is not there yet has sent nothing
LEMMA NothingSent ==
    ASSUME Types, Netc
    PROVE  /\ stream = <<>> => taken = 0 /\ arrived = 0
           /\ conn \in {"none", "opening"} => stream = <<>>
<1>1. stream = <<>> => Len(stream) = 0 OBVIOUS
<1>2. taken \in Nat /\ arrived \in Nat /\ taken <= arrived /\ arrived <= Len(stream)
      BY StreamType DEF Types
<1> QED BY <1>1, <1>2 DEF Netc

\* an empty buffer and nothing read
LEMMA FreshAligned ==
    ASSUME taken' = 0, packet' = <<>>, Top("lwip")' # "fetched"
    PROVE  Start' = 0 /\ Aligned'
<1>1. Len(packet') = 0 OBVIOUS
<1>2. ~Fetching' BY DEF Fetching
<1>3. Start' = 0
  <2>1. Start' = 0 - 0 - 0 BY <1>1, <1>2 DEF Start
  <2> QED BY <2>1
<1>4. \A i \in 1 .. Len(packet') : packet'[i] = stream'[Start' + i] BY <1>1
<1> QED BY <1>2, <1>3, <1>4 DEF Aligned, Boundary

LEMMA KeptAligned ==
    ASSUME UNCHANGED <<packet, hand, stream, taken>>, Fetching' <=> Fetching
    PROVE  Start' = Start /\ (Aligned => Aligned')
<1>1. Start' = Start BY DEF Start
<1> QED BY <1>1 DEF Aligned, Boundary

\* a step that leaves the buffer, what was read and what the lwIP thread is about to do with them
LEMMA KeptFraming ==
    ASSUME Framing, ~overrun, overrun' = overrun, Sound' => Sound,
           UNCHANGED <<packet, hand, stream, taken>>,
           Top("lwip")' = "fetched" <=> Top("lwip") = "fetched",
           Top("lwip")' = "parse" <=> Top("lwip") = "parse",
           Consuming' <=> Consuming,
           Rest("lwip") = "close" => Rest("lwip")' = "close" \/ packet = <<>>,
           Top("lwip")' \in Closing => packet = <<>>,
           Top("lwip") = "shut" => Top("lwip")' = "shut",
           Stale => Stale' \/ Aligned'
    PROVE  Emptied' /\ Matches' /\ Partial' /\ Handled' /\ Wrapped'
<1>1. Fetching' <=> Fetching BY DEF Fetching
<1>2. Aligned => Aligned' BY <1>1, KeptAligned
<1>3. Emptied' BY DEF Emptied, Closing
<1>4. Matches' BY <1>2 DEF Framing, Matches
<1>5. Partial' BY DEF Framing, Partial
<1>6. Handled' BY <1>1 DEF Framing, Handled
<1>7. Wrapped' BY DEF Wrapped
<1> QED BY <1>3, <1>4, <1>5, <1>6, <1>7

\* the steps of the user threads that leave the buffer alone, and the socket too
LEMMA UserFraming ==
    ASSUME AppIsApart, IInv, Framing, ~overrun, Sound' => Sound,
           NEW t \in Users, NEW a, NEW b, Turns(t, a, b), Top(t) \notin {"retry", "closed"},
           a \notin Closing,
           UNCHANGED <<packet, hand, overrun, stream, taken>>
    PROVE  Alone' /\ Emptied' /\ Matches' /\ Partial' /\ Handled' /\ Wrapped'
<1>1. Top("lwip")' = Top("lwip") /\ Rest("lwip")' = Rest("lwip") BY DEF Turns, Users
<1>2. \A u \in Users : Top(u)' \in Closing => Top(u) \in Closing BY DEF Users, Turns, Closing
<1>3. Alone' BY <1>1, <1>2 DEF Framing, Alone, Below
<1>4. Consuming' <=> Consuming BY <1>1 DEF Consuming
<1>5. Stale => Stale' BY <1>1 DEF Stale, Turns, Below, Users
<1>6. Top("lwip")' \in Closing => packet = <<>> BY <1>1 DEF Framing, Emptied
<1> QED BY <1>1, <1>3, <1>4, <1>5, <1>6, KeptFraming

LEMMA CloseTestFraming ==
    ASSUME AppIsApart, IInv, Framing, ~overrun, NEW t \in Threads, Runs(t), CloseTest(t),
           Sound' => Sound
    PROVE  Framing'
<1>1. Types /\ Shapes /\ "lwip" \in Threads BY DEF IInv, Threads
<1>2. Top(t) = "close" /\ \E a \in {"leave", "drop"} : Turns(t, a, Rest(t))
      BY <1>1, CloseTurns DEF Close
<1>3. UNCHANGED <<packet, hand, overrun, conn, wait, stream, taken>>
      BY DEF CloseTest, clientVars, connVars, netcVars
<1>4. Parted' BY <1>2, <1>3 DEF Framing, Parted, Turns, Threads
<1>5. CASE t = "lwip"
  <2>1. Alone'
    <3>1. \A u \in Users : Top(u)' = Top(u) BY <1>2, <1>5 DEF Users, Turns
    <3> QED BY <1>1, <1>5, <3>1, AloneOthers
  <2>2. /\ Top("lwip") = "close" /\ Top("lwip")' \in {"leave", "drop"}
        /\ Rest("lwip")' = Rest("lwip")
        BY <1>2, <1>5 DEF Turns
  <2>3. Consuming' <=> Consuming BY <2>2 DEF Consuming
  <2>4. Stale => Stale' BY <1>2, <1>5 DEF Stale, Turns, Below, CloseSteps
  <2>5. Top("lwip")' \notin Closing BY <2>2 DEF Closing
  <2>6. Emptied' /\ Matches' /\ Partial' /\ Handled' /\ Wrapped'
        BY <1>3, <2>2, <2>3, <2>4, <2>5, KeptFraming
  <2> QED BY <1>4, <2>1, <2>6 DEF Framing
<1>6. CASE t # "lwip"
  <2>1. t \in Users BY <1>6 DEF Threads, Users
  <2>2. Alone' /\ Emptied' /\ Matches' /\ Partial' /\ Handled' /\ Wrapped'
        BY <1>2, <1>3, <2>1, UserFraming DEF Closing
  <2> QED BY <1>4, <2>2 DEF Framing
<1> QED BY <1>5, <1>6

LEMMA CloseSetFraming ==
    ASSUME AppIsApart, IInv, Framing, ~overrun, NEW t \in Threads, Runs(t), CloseSet(t),
           Sound' => Sound
    PROVE  Framing'
<1>1. Types /\ Shapes /\ "lwip" \in Threads BY DEF IInv, Threads
<1>2. Top(t) = "drop" /\ Turns(t, "shut", Rest(t)) BY <1>1, CloseTurns DEF Close
<1>3. /\ UNCHANGED <<stream, taken, conn, wait, overrun>> /\ ResetBuffer(t) /\ packet' = <<>>
      BY DEF CloseSet, ResetBuffer, connVars, netcVars
<1>4. Parted' BY <1>2, <1>3 DEF Framing, Parted, Turns, Threads
<1>5. Emptied' /\ Wrapped' /\ Partial' BY <1>3 DEF Emptied, Wrapped, Partial
<1>6. CASE t = "lwip"
  <2>1. hand' = hand BY <1>1, <1>2, <1>3, <1>6, ResetKeeps
  <2>2. Alone'
    <3>1. \A u \in Users : Top(u)' = Top(u) BY <1>2, <1>6 DEF Users, Turns
    <3> QED BY <1>1, <1>6, <3>1, AloneOthers
  <2>3. Top("lwip")' = "shut" /\ Rest("lwip")' = Rest("lwip") BY <1>2, <1>6 DEF Turns
  <2>4. Handled'
    <3>1. Consuming' => Consuming BY <2>3 DEF Consuming
    <3> QED BY <1>3, <2>1, <2>3, <3>1 DEF Framing, Handled, Fetching
  <2>5. Matches' BY <2>3 DEF Matches
  <2> QED BY <1>4, <1>5, <2>2, <2>4, <2>5 DEF Framing
<1>7. CASE t # "lwip"
  <2>1. Top("lwip")' = Top("lwip") /\ Rest("lwip")' = Rest("lwip")
        BY <1>2, <1>7 DEF Turns
  <2>2. ASSUME Sound'
        PROVE  /\ Top("lwip") = "none" /\ Rest("lwip") = "none"
               /\ UNCHANGED <<packet, hand, stream, taken>>
        BY <1>1, <1>3, <1>7, <2>2, ResetSound DEF Sound
  <2>3. Alone' BY <1>3, <2>1, <2>2 DEF Alone
  <2>4. Handled' BY <2>1, <2>2 DEF Handled, Consuming, Fetching
  <2>5. Matches'
    <3> SUFFICES ASSUME Sound' PROVE Aligned' \/ Stale' BY DEF Matches
    <3>1. ~Fetching' /\ ~Fetching BY <2>1, <2>2 DEF Fetching
    <3>2. Aligned => Aligned' BY <2>2, <3>1, KeptAligned
    <3>3. Stale => Stale' BY <1>2, <1>7, <2>1 DEF Stale, Turns, Below, Threads
    <3>4. Aligned \/ Stale BY <2>2 DEF Framing, Matches
    <3> QED BY <3>2, <3>3, <3>4
  <2> QED BY <1>4, <1>5, <2>3, <2>4, <2>5 DEF Framing
<1> QED BY <1>6, <1>7

LEMMA CloseShutFraming ==
    ASSUME AppIsApart, IInv, Framing, ~overrun, NEW t \in Threads, Runs(t), CloseShut(t),
           Sound' => Sound
    PROVE  Framing'
<1>1. Types /\ Shapes /\ "lwip" \in Threads /\ "timer" \in Threads BY DEF IInv, Threads
<1>2. Top(t) = "shut" /\ Turns(t, "retry", Rest(t)) BY <1>1, CloseTurns DEF Close
<1>3. /\ UNCHANGED <<packet, hand, overrun>> /\ conn' = "none" /\ wait' = "NONE"
      /\ stream' = <<>> /\ taken' = 0
      BY DEF CloseShut, SetSocket, clientVars
<1>4. t = "lwip" => Rest(t) \in {"none", "close", "wait", "consume"}
      BY <1>1, <1>2, Tops DEF Shape, LwipShape, CloseSteps
<1>5. Parted'
  <2>1. Top("app")' \in {"retry", "closed"} /\ Below("app") =>
            Top("timer")' \notin {"connect", "connect_locked", "sconnect"}
    <3>1. CASE t = "app" /\ Below("app")
      <4>1. Top("timer") = "none" BY <1>1, <3>1, TimerAbove, OthersRest
      <4> QED BY <1>2, <3>1, <4>1 DEF Turns
    <3>2. CASE t # "app" BY <1>2, <3>2 DEF Framing, Parted, Turns
    <3> QED BY <3>1, <3>2
  <2> QED BY <1>3, <2>1 DEF Parted, Below
<1>6. CASE t = "lwip"
  <2>1. packet = <<>> BY <1>2, <1>6 DEF Framing, Emptied, Closing
  <2>2. Alone'
    <3>1. \A u \in Users : Top(u)' = Top(u) BY <1>2, <1>6 DEF Users, Turns
    <3> QED BY <1>1, <1>6, <3>1, AloneOthers
  <2>3. Emptied' /\ Wrapped' /\ Partial' BY <1>3, <2>1 DEF Emptied, Wrapped, Partial
  <2>4. Matches' BY <1>2, <1>3, <1>6, <2>1, FreshAligned DEF Matches, Turns
  <2>5. Handled'
    <3>1. Consuming' => Consuming BY <1>2, <1>6 DEF Consuming, Turns
    <3>2. Top("lwip")' = "retry" BY <1>2, <1>6 DEF Turns
    <3> QED BY <1>3, <2>1, <3>1, <3>2 DEF Framing, Handled, Fetching
  <2> QED BY <1>5, <2>2, <2>3, <2>4, <2>5 DEF Framing
<1>7. CASE t # "lwip"
  <2>1. Top("lwip")' = Top("lwip") /\ Rest("lwip")' = Rest("lwip")
        BY <1>2, <1>7 DEF Turns
  <2>2. Consuming' <=> Consuming BY <2>1 DEF Consuming
  <2>3. Emptied' /\ Wrapped' BY <1>3, <2>1 DEF Framing, Emptied, Wrapped
  <2>4. Partial' /\ Handled'
        BY <1>3, <2>1, <2>2 DEF Framing, Partial, Handled, Fetching
  <2>5. Alone'
    <3> SUFFICES ASSUME Sound', NEW u \in Users, Top(u)' \in Closing, ~Below(u)
                 PROVE  Top("lwip")' = "none" /\ packet' = <<>>
        BY DEF Alone, Below
    <3>1. Top(u) \in Closing BY <1>2 DEF Turns, Users, Closing
    <3> QED BY <1>3, <2>1, <3>1 DEF Framing, Alone
  <2>6. Matches'
    <3> SUFFICES ASSUME Sound' PROVE Aligned' \/ Stale' BY DEF Matches
    <3>1. CASE Below(t)
      <4>1. t = "app" BY <1>7, <3>1, TimerAbove DEF Threads
      <4>2. Priority["lwip"] > Priority[t]
            BY <3>1, PriorityFacts DEF Below, Threads
      <4>3. Top("lwip") = "none" /\ Rest("lwip") = "none" BY <1>1, <4>2, OthersRest
      <4>4. Stale' BY <1>2, <2>1, <3>1, <4>1, <4>3 DEF Stale, Below, Turns
      <4> QED BY <4>4
    <3>2. CASE ~Below(t)
      <4>1. t \in Users /\ Top(t) \in Closing BY <1>2, <1>7 DEF Users, Threads, Closing
      <4>2. Top("lwip") = "none" /\ packet = <<>> BY <3>2, <4>1 DEF Framing, Alone
      <4> QED BY <1>3, <2>1, <4>2, FreshAligned
    <3> QED BY <3>1, <3>2
  <2> QED BY <1>5, <2>3, <2>4, <2>5, <2>6 DEF Framing
<1> QED BY <1>6, <1>7

LEMMA CloseRetryFraming ==
    ASSUME AppIsApart, IInv, Framing, ~overrun, NEW t \in Threads, Runs(t), CloseRetry(t),
           Sound' => Sound
    PROVE  Framing'
<1>1. Types /\ Shapes BY DEF IInv
<1>2. Top(t) = "retry" /\ Turns(t, "closed", Rest(t)) BY <1>1, CloseTurns DEF Close
<1>3. UNCHANGED <<packet, hand, overrun, conn, wait, stream, taken>>
      BY DEF CloseRetry, netcVars, connVars
<1>4. Parted' BY <1>2, <1>3 DEF Framing, Parted, Turns, Threads
<1>5. Alone'
  <2>1. CASE t = "lwip"
    <3>1. \A u \in Users : Top(u)' = Top(u) BY <1>2, <2>1 DEF Users, Turns
    <3> QED BY <1>1, <2>1, <3>1, AloneOthers
  <2>2. CASE t # "lwip"
    <3>1. \A u \in Users : Top(u)' \in Closing => Top(u) \in Closing
          BY <1>2, <2>2 DEF Users, Turns, Threads, Closing
    <3>2. Top("lwip")' = Top("lwip") BY <1>2, <2>2 DEF Turns
    <3> QED BY <1>3, <3>1, <3>2 DEF Framing, Alone, Below
  <2> QED BY <2>1, <2>2
<1>6. Emptied' /\ Matches' /\ Partial' /\ Handled' /\ Wrapped'
  <2>1. /\ Top("lwip")' = "fetched" <=> Top("lwip") = "fetched"
        /\ Top("lwip")' = "parse" <=> Top("lwip") = "parse"
        /\ Consuming' <=> Consuming
        /\ Rest("lwip") = "close" => Rest("lwip")' = "close"
        /\ Top("lwip") = "shut" => Top("lwip")' = "shut"
        BY <1>2 DEF Turns, Consuming
  <2>2. Top("lwip")' \in Closing => packet = <<>>
        BY <1>2 DEF Framing, Emptied, Turns, Closing
  <2>3. Stale => Stale' BY <1>2 DEF Stale, Turns, Below, CloseSteps, Threads
  <2> QED BY <1>3, <2>1, <2>2, <2>3, KeptFraming
<1> QED BY <1>4, <1>5, <1>6 DEF Framing

LEMMA ClosedFraming ==
    ASSUME AppIsApart, IInv, Framing, ~overrun, NEW t \in Threads, Runs(t), Closed(t),
           Sound' => Sound
    PROVE  Framing'
<1>1. Types /\ Shapes /\ Netc /\ "lwip" \in Threads BY DEF IInv, Threads
<1>2. Top(t) \in {"closed", "leave"} /\ Turns(t, Rest(t), "none") BY <1>1, CloseTurns DEF Close
<1>3. /\ UNCHANGED <<overrun, conn, wait, stream, taken>> /\ ResetBuffer(t) /\ packet' = <<>>
      BY DEF Closed, ResetBuffer, connVars, netcVars
<1>4. /\ t = "lwip" => Rest(t) \in {"none", "close", "wait", "consume"}
      /\ t # "lwip" => Rest(t) = "none"
      BY <1>1, <1>2, Tops DEF Shape, LwipShape, UserShape, CloseSteps
<1>5. Parted' BY <1>2, <1>3, <1>4 DEF Framing, Parted, Turns, Threads
<1>6. Emptied' /\ Wrapped' /\ Partial' BY <1>3 DEF Emptied, Wrapped, Partial
<1>7. CASE t = "lwip"
  <2>1. hand' = hand BY <1>1, <1>2, <1>3, <1>7, ResetKeeps
  <2>2. Alone'
    <3>1. \A u \in Users : Top(u)' = Top(u) BY <1>2, <1>7 DEF Users, Turns
    <3> QED BY <1>1, <1>7, <3>1, AloneOthers
  <2>3. Handled'
    <3>1. Consuming' => Consuming BY <1>2, <1>4, <1>7 DEF Consuming, Turns
    <3>2. Top("lwip")' \notin {"fetched", "parse"} BY <1>2, <1>4, <1>7 DEF Turns
    <3> QED BY <1>3, <2>1, <3>1, <3>2 DEF Framing, Handled, Fetching
  <2>4. Matches'
    <3> SUFFICES ASSUME Sound' PROVE Aligned' \/ Stale' BY DEF Matches
    <3>1. ~Fetching' /\ ~Fetching BY <1>2, <1>4, <1>7 DEF Fetching, Turns
    <3>2. packet = <<>>
          BY <1>1, <1>2, <1>3, <1>7, ResetSound DEF Framing, Emptied, Closing, Sound
    <3>3. Aligned => Aligned' BY <1>3, <2>1, <3>1, <3>2, KeptAligned
    <3>4. Stale => Stale' BY <1>2, <1>7 DEF Stale, Turns, Below
    <3>5. Aligned \/ Stale BY <1>2, <1>7 DEF Framing, Matches
    <3> QED BY <3>3, <3>4, <3>5
  <2> QED BY <1>5, <1>6, <2>2, <2>3, <2>4 DEF Framing
<1>8. CASE t # "lwip"
  <2>1. Top("lwip")' = Top("lwip") /\ Rest("lwip")' = Rest("lwip")
        BY <1>2, <1>8 DEF Turns
  <2>2. ASSUME Sound'
        PROVE  /\ Top("lwip") = "none" /\ Rest("lwip") = "none"
               /\ UNCHANGED <<packet, hand, stream, taken>>
        BY <1>1, <1>3, <1>8, <2>2, ResetSound DEF Sound
  <2>3. Alone' BY <1>3, <2>1, <2>2 DEF Alone
  <2>4. Handled' BY <2>1, <2>2 DEF Handled, Consuming, Fetching
  <2>5. Matches'
    <3> SUFFICES ASSUME Sound' PROVE Aligned' \/ Stale' BY DEF Matches
    <3>1. ~Fetching' /\ ~Fetching BY <2>1, <2>2 DEF Fetching
    <3>2. Aligned => Aligned' BY <2>2, <3>1, KeptAligned
    <3>3. CASE Stale /\ t # "app"
      <4>1. Stale' BY <1>2, <1>8, <2>1, <3>3 DEF Stale, Turns, Below
      <4> QED BY <4>1
    <3>4. CASE Stale /\ t = "app"
      <4>1. conn = "none" BY <3>4 DEF Stale, Framing, Parted
      <4>2. taken = 0 BY <1>1, <4>1, NothingSent
      <4>3. Top("lwip")' # "fetched" BY <2>1, <2>2
      <4> QED BY <1>3, <4>2, <4>3, FreshAligned
    <3>5. Aligned \/ Stale BY <2>2 DEF Framing, Matches
    <3> QED BY <3>2, <3>3, <3>4, <3>5
  <2> QED BY <1>5, <1>6, <2>3, <2>4, <2>5 DEF Framing
<1> QED BY <1>7, <1>8

LEMMA SendFraming ==
    ASSUME AppIsApart, IInv, Framing, ~overrun, NEW t \in Threads, Runs(t), Send(t),
           Sound' => Sound
    PROVE  Framing'
<1>1. Types /\ Shapes BY DEF IInv
<1>2. /\ Top(t) \in {"send", "send_connect"}
      /\ \/ Turns(t, "close", Rest(t))
         \/ Top(t) = "send_connect" /\ Turns(t, "greet", Rest(t))
         \/ Top(t) = "send" /\ Turns(t, Rest(t), "none")
      BY <1>1, SendTurns
<1>3. /\ UNCHANGED <<packet, hand, overrun, conn, stream, taken>>
      /\ wait' \in {wait, "TX_OK"}
      BY DEF Send, clientVars
<1>4. /\ t = "lwip" => Rest(t) \in {"wait", "consume"} /\ (Top(t) = "send" => Rest(t) = "consume")
                       /\ (Top(t) = "send_connect" => Rest(t) = "wait")
      /\ t # "lwip" => Rest(t) = "none" /\ t \in Users /\ Top(t) = "send"
      BY <1>1, <1>2, Tops DEF Shape, LwipShape, UserShape, CloseSteps, Threads, Users
<1>5. Parted' BY <1>2, <1>3, <1>4 DEF Framing, Parted, Turns, Threads
<1>6. CASE t = "lwip"
  <2>1. Alone'
    <3>1. \A u \in Users : Top(u)' = Top(u) BY <1>2, <1>6 DEF Users, Turns
    <3> QED BY <1>1, <1>6, <3>1, AloneOthers
  <2>2. /\ Top("lwip")' \notin {"fetched", "parse"} /\ Top("lwip")' \notin Closing
        /\ Top("lwip") \notin {"fetched", "parse", "shut"}
        /\ Rest("lwip") # "close" /\ (Consuming' <=> Consuming) /\ ~Stale
        BY <1>2, <1>4, <1>6 DEF Turns, Consuming, Stale, CloseSteps, Closing
  <2>3. Emptied' /\ Matches' /\ Partial' /\ Handled' /\ Wrapped' BY <1>3, <2>2, KeptFraming
  <2> QED BY <1>5, <2>1, <2>3 DEF Framing
<1>7. CASE t # "lwip"
  <2>1. Turns(t, "close", "none") \/ Turns(t, "none", "none") BY <1>2, <1>4, <1>7
  <2>2. Alone' /\ Emptied' /\ Matches' /\ Partial' /\ Handled' /\ Wrapped'
        BY <1>2, <1>3, <1>4, <1>7, <2>1, UserFraming DEF Closing
  <2> QED BY <1>5, <2>2 DEF Framing
<1> QED BY <1>6, <1>7

LEMMA ConnectFraming ==
    ASSUME AppIsApart, IInv, Framing, ~overrun, NEW t \in Threads, Runs(t), Connect(t),
           Sound' => Sound
    PROVE  Framing'
<1>1. Types /\ Shapes /\ Netc BY DEF IInv
<1>2. t \in Users BY <1>1, ConnectTurns DEF Users, Threads
<1>3. CASE ConnectLook(t)
  <2>1. /\ Top(t) = "connect"
        /\ Turns(t, "connect_locked", "sconnect") \/ Turns(t, "sconnect", "none")
        BY <1>1, <1>3, ConnectTurns
  <2>2. UNCHANGED <<packet, hand, overrun, conn, wait, stream, taken>>
        BY <1>3 DEF ConnectLook, clientVars, netcVars, connVars
  <2>3. Parted' BY <1>2, <2>1, <2>2 DEF Framing, Parted, Turns, Threads, Users
  <2>4. Alone' /\ Emptied' /\ Matches' /\ Partial' /\ Handled' /\ Wrapped'
        BY <1>2, <2>1, <2>2, UserFraming DEF Closing
  <2> QED BY <2>3, <2>4 DEF Framing
<1>4. CASE ConnectLocked(t)
  <2>1. Top(t) = "connect_locked" /\ Turns(t, "sconnect", "none") BY <1>1, <1>4, ConnectTurns
  <2>2. UNCHANGED <<packet, hand, overrun>> BY <1>4 DEF ConnectLocked, clientVars
  <2>3. Sound' => conn = "none" BY <1>4 DEF ConnectLocked, Sound
  <2>4. Sound' => UNCHANGED <<stream, taken>>
        BY <1>1, <1>4, <2>3, NothingSent DEF ConnectLocked, PrepareConnect, SetSocket, connVars
  <2>5. conn' \in {conn, "opening", "none"}
        BY <1>4 DEF ConnectLocked, PrepareConnect, SetSocket, connVars
  <2>6. Parted'
    <3>1. Below("app") /\ Top("app")' \in {"retry", "closed"} => t = "app"
          BY <1>2, <2>1 DEF Framing, Parted, Turns, Users
    <3>2. t = "app" => Top("app")' = "sconnect" BY <2>1 DEF Turns
    <3>3. \A u \in Threads : Top(u)' = "retry" => Top(u) = "retry"
          BY <1>2, <2>1 DEF Turns, Threads, Users
    <3> QED BY <2>5, <3>1, <3>2, <3>3 DEF Framing, Parted, Below
  <2>7. CASE Sound'
    <3>1. Alone' /\ Emptied' /\ Matches' /\ Partial' /\ Handled' /\ Wrapped'
          BY <1>2, <2>1, <2>2, <2>4, <2>7, UserFraming DEF Closing
    <3> QED BY <2>6, <3>1 DEF Framing
  <2>8. CASE ~Sound'
    <3>1. Alone' /\ Matches' /\ Partial' /\ Handled'
          BY <2>8 DEF Alone, Matches, Partial, Handled
    <3>2. Top("lwip")' = Top("lwip") BY <1>2, <2>1 DEF Turns, Users
    <3>3. Emptied' /\ Wrapped' BY <2>2, <3>2 DEF Framing, Emptied, Wrapped
    <3> QED BY <2>6, <3>1, <3>3 DEF Framing
  <2> QED BY <2>7, <2>8
<1>5. CASE ConnectDone(t)
  <2>1. Top(t) = "sconnect" /\ Turns(t, "none", "none") BY <1>1, <1>5, ConnectTurns
  <2>2. UNCHANGED <<packet, hand, overrun, conn, wait, stream, taken>>
        BY <1>5 DEF ConnectDone, netcVars, connVars
  <2>3. Parted' BY <1>2, <2>1, <2>2 DEF Framing, Parted, Turns, Threads, Users
  <2>4. Alone' /\ Emptied' /\ Matches' /\ Partial' /\ Handled' /\ Wrapped'
        BY <1>2, <2>1, <2>2, UserFraming DEF Closing
  <2> QED BY <2>3, <2>4 DEF Framing
<1> QED BY <1>3, <1>4, <1>5 DEF Connect

\* an event leaves the buffer alone, and of the stream what has been read
LEMMA EventKeeps ==
    ASSUME IInv, Event, ~astray
    PROVE  /\ UNCHANGED <<packet, hand, overrun, taken>>
           /\ stream' = stream \/ (stream = <<>> /\ taken = 0)
           /\ conn = "none" /\ wait # "ON_LINE" => conn' = "none" /\ Top("lwip")' \in {"none", "close"}
<1>1. Types /\ Shapes /\ Netc BY DEF IInv
<1>2. UNCHANGED <<packet, hand, overrun>> BY DEF Event, clientVars
<1>3. CASE Opened \/ Lost \/ Arrive \/ Acked
  <2>1. /\ taken' = taken /\ conn # "none"
        /\ stream' = stream \/ stream = <<>>
        BY <1>3 DEF Opened, Lost, Arrive, Acked, connVars
  <2> QED BY <1>1, <1>2, <2>1, NothingSent
<1>4. CASE LinkChange
  <2>1. state = "LINK_OFF" => conn = "none" BY <1>1 DEF Netc
  <2>2. \/ UNCHANGED <<stream, taken, conn>>
        \/ state = "LINK_OFF" /\ stream' = <<>> /\ taken' = 0 /\ wait = "ON_LINE"
        BY <1>4 DEF LinkChange, PrepareConnect, SetSocket, connVars
  <2>3. conn = "none" => stream = <<>> /\ taken = 0 BY <1>1, NothingSent
  <2>4. Result(1) \/ Result(-1) BY <1>4 DEF LinkChange
  <2>5. conn = "none" => ~new_rx_flag' BY <1>1, <1>4 DEF LinkChange, Netc
  <2>6. conn = "none" => Top("lwip")' \in {"none", "close"}
        BY <1>1, <2>4, <2>5, ResultTurns DEF Turns
  <2> QED BY <1>2, <2>1, <2>2, <2>3, <2>6
<1> QED BY <1>3, <1>4 DEF Event

LEMMA EventFraming ==
    ASSUME AppIsApart, IInv, Framing, ~overrun, Event, Sound' => Sound
    PROVE  Framing'
<1>1. Types /\ Shapes /\ Netc /\ "lwip" \in Threads BY DEF IInv, Threads
<1>2. /\ Top("lwip") = "none" /\ Runs("lwip") /\ wait' \in {"NONE", wait}
      /\ \E a \in {"close", "online", "wait", "read", "none"} : Turns("lwip", a, "none")
      BY <1>1, EventTurns
<1>3. Rest("lwip") = "none" BY <1>1, <1>2, Tops DEF Shape, LwipShape, CloseSteps
<1>4. /\ Top("lwip")' \in {"close", "online", "wait", "read", "none"} /\ Rest("lwip")' = "none"
      /\ \A u \in Users : Top(u)' = Top(u) /\ Rest(u)' = Rest(u)
      BY <1>2 DEF Turns, Users
<1>5. UNCHANGED <<packet, hand, overrun>> BY DEF Event, clientVars
<1>6. Alone' BY <1>1, <1>2, <1>4, AloneOthers
<1>7. Emptied' /\ Wrapped' BY <1>4, <1>5 DEF Emptied, Wrapped, Closing
<1>8. Partial'
      BY <1>2, <1>3, <1>4, <1>5 DEF Framing, Partial, Consuming
<1>9. Handled' BY <1>4 DEF Handled, Consuming, Fetching
<1>10. Parted'
  <2>1. ASSUME NEW u \in Users, Top(u) # "none" PROVE u = "app" /\ Below("app")
    <3>1. u \in Threads /\ ~(Priority[u] > Priority["lwip"])
          BY <1>1, <1>2, <2>1, OthersRest DEF Users, Threads
    <3>2. Below(u) BY <2>1, <3>1, BelowOrAbove
    <3> QED BY <3>2, TimerAbove DEF Users
  <2>2. Below("app") /\ Top("app") \in {"retry", "closed"} => conn' = "none" /\ wait' # "ON_LINE"
    <3> SUFFICES ASSUME Below("app"), Top("app") \in {"retry", "closed"}
                 PROVE  conn' = "none" /\ wait' # "ON_LINE"
        OBVIOUS
    <3>1. conn = "none" /\ wait # "ON_LINE" BY DEF Framing, Parted
    <3>2. conn' = "none"
          BY <3>1 DEF Event, Opened, Lost, Arrive, Acked, LinkChange, connVars
    <3> QED BY <1>2, <3>1, <3>2
  <2>3. Top("app") = "retry" /\ Below("app") => conn' = "none" BY <2>2
  <2>4. \A u \in Threads : Top(u)' = "retry" => conn' = "none"
        BY <1>4, <2>1, <2>3 DEF Threads, Users
  <2>5. "app" \in Users /\ "timer" \in Users BY DEF Users
  <2> QED BY <1>4, <2>2, <2>4, <2>5 DEF Framing, Parted, Below
<1>11. Matches'
  <2> SUFFICES ASSUME Sound' PROVE Aligned' \/ Stale' BY DEF Matches
  <2>1. Sound /\ ~astray BY DEF Sound
  <2>2. UNCHANGED <<packet, hand, taken>> /\ (stream' = stream \/ (stream = <<>> /\ taken = 0))
        BY <2>1, EventKeeps
  <2>3. ~Fetching /\ ~Fetching' BY <1>2, <1>4 DEF Fetching
  <2>4. CASE Aligned /\ stream' = stream BY <2>2, <2>3, <2>4, KeptAligned
  <2>5. CASE Aligned /\ taken = 0
    <3>1. taken - Len(packet) - 0 \in Nat BY <2>3, <2>5 DEF Aligned, Start
    <3>2. packet \in Seq(Pieces) BY <1>1 DEF Types, TypeOK
    <3>3. Len(packet) \in Nat BY <3>2, LenProperties
    <3>4. Len(packet) = 0 BY <2>5, <3>1, <3>3
    <3>5. packet = <<>> BY <3>2, <3>4, EmptyIffShort
    <3>6. Top("lwip")' # "fetched" BY <1>4
    <3> QED BY <2>2, <2>5, <3>5, <3>6, FreshAligned
  <2>6. CASE Stale
    <3>1. conn = "none" /\ wait # "ON_LINE" BY <2>6 DEF Stale, Framing, Parted
    <3>2. Top("lwip")' \in {"none", "close"} BY <2>1, <3>1, EventKeeps
    <3>3. "app" \in Users BY DEF Users
    <3> QED BY <1>4, <2>6, <3>2, <3>3 DEF Stale, Below, CloseSteps
  <2>7. Aligned \/ Stale BY <1>2, <2>1 DEF Framing, Matches
  <2> QED BY <2>2, <2>4, <2>5, <2>6, <2>7
<1> QED BY <1>6, <1>7, <1>8, <1>9, <1>10, <1>11 DEF Framing

LEMMA CallbackFraming ==
    ASSUME AppIsApart, IInv, Framing, ~overrun, Runs("lwip"), Callback, Sound' => Sound
    PROVE  Framing'
<1>1. Types /\ Shapes BY DEF IInv
<1>2. /\ Top("lwip") \in {"online", "greet", "wait"} /\ Rest("lwip") \in {"none", "wait"}
      /\ \/ Turns("lwip", "send_connect", "wait")
         \/ Turns("lwip", "wait", "none")
         \/ Turns("lwip", "none", "none")
         \/ Turns("lwip", "close", "none")
  <2>1. Online => Rest("lwip") = "none"
        BY <1>1, CallbackTurns, Tops DEF Shape, LwipShape, CloseSteps, Threads
  <2> QED BY <1>1, <2>1, CallbackTurns DEF Callback
<1>3. /\ UNCHANGED <<packet, hand, overrun, conn, stream, taken>>
      /\ wait' \in {"EVENT", wait}
      BY DEF Callback, Online, Greet, Wait, clientVars, netcVars, connVars
<1>4. \A u \in Users : Top(u)' = Top(u) BY <1>2 DEF Turns, Users
<1>5. Alone' BY <1>1, <1>4, AloneOthers
<1>6. Parted' BY <1>2, <1>3 DEF Framing, Parted, Turns, Threads
<1>7. /\ Top("lwip")' \notin {"fetched", "parse"} /\ Top("lwip")' \notin Closing
      /\ Top("lwip") \notin {"fetched", "parse", "shut"}
      /\ Rest("lwip") # "close" /\ (Consuming' <=> Consuming) /\ ~Stale
      BY <1>2 DEF Turns, Consuming, Stale, CloseSteps, Closing
<1>8. Emptied' /\ Matches' /\ Partial' /\ Handled' /\ Wrapped' BY <1>3, <1>7, KeptFraming
<1> QED BY <1>5, <1>6, <1>8 DEF Framing

LEMMA BeginFraming ==
    ASSUME AppIsApart, IInv, Framing, ~overrun, PingFires \/ ReconnectFires \/ App,
           Sound' => Sound
    PROVE  Framing'
<1>1. Types /\ Shapes BY DEF IInv
<1>2. CASE PingFires \/ App
  <2>1. /\ UNCHANGED <<packet, hand, overrun, conn, wait, stream, taken>>
        /\ \/ Top("timer") = "none" /\ Turns("timer", "send", "none")
           \/ /\ Top("app") = "none"
              /\ \E a \in {"connect", "close", "send"} : Turns("app", a, "none")
        BY <1>1, <1>2, BeginTurns
        DEF PingFires, App, AppConnects, AppCloses, AppSends, clientVars, netcVars, connVars
  <2>2. Parted' BY <2>1 DEF Framing, Parted, Turns, Threads
  <2>3. Alone' /\ Emptied' /\ Matches' /\ Partial' /\ Handled' /\ Wrapped'
        BY <2>1, UserFraming DEF Users, Closing
  <2> QED BY <2>2, <2>3 DEF Framing
<1>3. CASE ReconnectFires
  <2>1. /\ UNCHANGED <<overrun, conn, wait, stream, taken>> /\ ResetBuffer("timer")
        /\ packet' = <<>>
        BY <1>3 DEF ReconnectFires, ResetBuffer, netcVars, connVars
  <2>2. Top("timer") = "none" /\ Turns("timer", "connect", "none")
        BY <1>1, <1>3, BeginTurns
  <2>3. Top("app") \notin Closing
    <3>1. \A i \in DOMAIN stack["app"] : stack["app"][i] \notin {"shut", "retry", "closed"}
          BY <1>3 DEF ReconnectFires, Threads
    <3>2. stack["app"] \in Seq(Steps) BY <1>1 DEF Shapes, StackType, Threads
    <3>3. stack["app"] # <<>> => 1 \in DOMAIN stack["app"] /\ Head(stack["app"]) = stack["app"][1]
          BY <3>2, EmptyIffShort, LenProperties
    <3> QED BY <3>1, <3>3 DEF Top, Idle, Closing
  <2>4. Parted' BY <2>1, <2>2, <2>3 DEF Framing, Parted, Turns, Threads, Closing
  <2>5. CASE Sound'
    <3>1. UNCHANGED <<packet, hand>>
          BY <1>1, <2>1, <2>5, ResetSound DEF Sound, Threads
    <3>2. Alone' /\ Emptied' /\ Matches' /\ Partial' /\ Handled' /\ Wrapped'
          BY <2>1, <2>2, <3>1, UserFraming DEF Users, Closing
    <3> QED BY <2>4, <3>2 DEF Framing
  <2>6. CASE ~Sound'
    <3>1. Alone' /\ Matches' /\ Partial' /\ Handled'
          BY <2>6 DEF Alone, Matches, Partial, Handled
    <3>2. Emptied' /\ Wrapped' BY <2>1 DEF Emptied, Wrapped
    <3> QED BY <2>4, <3>1, <3>2 DEF Framing
  <2> QED BY <2>5, <2>6
<1> QED BY <1>2, <1>3

-----------------------------------------------------------------------------
(* Packets in the stream *)

\* what follows the piece i of a stream
LEMMA NextPiece ==
    ASSUME NEW s \in Seq(Pieces), InPackets(s), NEW i \in Nat, NEW j \in Nat, j = i + 1,
           j <= Len(s)
    PROVE  /\ Boundary(s, i) => s[j].at = 1
           /\ ~Boundary(s, i) => s[j].at = s[i].at + 1 /\ s[j].size = s[i].size
<1>1. j \in DOMAIN s /\ j - 1 = i BY LenProperties
<1>2. \/ Boundary(s, j - 1) /\ s[j].at = 1
      \/ ~Boundary(s, j - 1) /\ s[j] = [s[j - 1] EXCEPT !.at = @ + 1]
      BY <1>1 DEF InPackets
<1>3. \/ Boundary(s, i) /\ s[j].at = 1
      \/ ~Boundary(s, i) /\ s[j] = [s[i] EXCEPT !.at = @ + 1]
      BY <1>1, <1>2
<1>4. CASE ~Boundary(s, i)
  <2>1. i # 0 /\ i \in 1 .. Len(s) BY <1>4, LenProperties DEF Boundary
  <2>2. s[i] \in Pieces BY <2>1, ElementOfSeq
  <2>3. s[j] = [s[i] EXCEPT !.at = @ + 1] BY <1>3, <1>4
  <2> QED BY <1>4, <2>2, <2>3 DEF Pieces
<1>5. CASE Boundary(s, i) BY <1>3, <1>5
<1> QED BY <1>4, <1>5

\* The pieces of a packet are counted from the first to the last.
LEMMA PacketPieces ==
    ASSUME NEW s \in Seq(Pieces), InPackets(s), NEW i \in Nat, i < Len(s), Boundary(s, i),
           NEW n, n = s[i + 1].size
    PROVE  \A k \in 1 .. n : i + k <= Len(s) => s[i + k].at = k /\ s[i + k].size = n
<1> DEFINE T == {k \in Nat : k \in 1 .. n /\ i + k <= Len(s) => s[i + k].at = k /\ s[i + k].size = n}
<1>1. Len(s) \in Nat /\ \A j \in 1 .. Len(s) : s[j] \in Pieces BY LenProperties, ElementOfSeq
<1>2. n \in Nat \ {0}
  <2>1. i + 1 \in 1 .. Len(s) BY <1>1
  <2>2. s[i + 1] \in Pieces BY <1>1, <2>1
  <2> QED BY <2>2 DEF Pieces
<1>3. 0 \in T OBVIOUS
<1>4. ASSUME NEW k \in Nat, NEW m \in Nat, k \in T, m = k + 1, m \in 1 .. n, i + m <= Len(s)
      PROVE  s[i + m].at = m /\ s[i + m].size = n
  <2>1. i + k \in Nat /\ i + m \in Nat /\ i + m = (i + k) + 1 BY <1>4
  <2>2. /\ Boundary(s, i + k) => s[i + m].at = 1
        /\ ~Boundary(s, i + k) => s[i + m].at = s[i + k].at + 1 /\ s[i + m].size = s[i + k].size
        BY <1>4, <2>1, NextPiece
  <2>3. CASE k = 0
    <3>1. i + k = i /\ m = 1 BY <1>4, <2>3
    <3> QED BY <2>2, <3>1
  <2>4. CASE k # 0
    <3>1. k \in 1 .. n /\ i + k <= Len(s) /\ k # n BY <1>1, <1>2, <1>4, <2>4
    <3>2. s[i + k].at = k /\ s[i + k].size = n BY <1>4, <3>1
    <3>3. ~Boundary(s, i + k) BY <2>4, <3>1, <3>2 DEF Boundary
    <3> QED BY <1>4, <2>2, <3>2, <3>3
  <2> QED BY <2>3, <2>4
<1>5. \A k, m \in Nat : k \in T /\ m = k + 1 => m \in T BY <1>4
<1> HIDE DEF T
<1>6. \A k \in Nat : k \in T BY <1>3, <1>5, Induction
<1>7. ASSUME NEW k \in 1 .. n, i + k <= Len(s)
      PROVE  s[i + k].at = k /\ s[i + k].size = n
  <2>1. k \in Nat /\ k \in T BY <1>2, <1>6
  <2> QED BY <1>7, <2>1 DEF T
<1> QED BY <1>7

\* behind a packet another one begins
LEMMA PacketEnds ==
    ASSUME NEW s \in Seq(Pieces), InPackets(s), NEW i \in Nat, NEW n \in Nat, n > 0,
           i + n <= Len(s), Boundary(s, i), s[i + 1].size = n
    PROVE  Boundary(s, i + n)
<1>1. i < Len(s) BY LenProperties
<1>2. n \in 1 .. n OBVIOUS
<1>3. s[i + n].at = n /\ s[i + n].size = n BY <1>1, <1>2, PacketPieces
<1> QED BY <1>3 DEF Boundary

LEMMA StreamInPackets ==
    ASSUME TypeOK
    PROVE  InPackets(stream) /\ (stream # <<>> => stream[1].kind \in {"CONNACK", "refusal"})
<1>1. CASE stream \in Streams BY <1>1, BrokerAssumption
<1>2. CASE stream = <<>>
  <2>1. DOMAIN stream = {} BY <1>2
  <2> QED BY <1>2, <2>1 DEF InPackets
<1> QED BY <1>1, <1>2 DEF TypeOK

\* the packet that the buffer begins with, and where it ends in the stream
LEMMA FirstPacket ==
    ASSUME Types, Aligned, packet # <<>>, NEW n, n = packet[1].size
    PROVE  /\ packet[1].at = 1 /\ n \in Nat /\ n >= 1
           /\ Start \in Nat /\ Start < Len(stream) /\ packet[1] = stream[Start + 1]
           /\ n <= Len(packet) => Boundary(stream, Start + n)
<1>1. /\ packet \in Seq(Pieces) /\ hand \in Seq(Pieces)
      /\ Len(packet) \in Nat /\ Len(hand) \in Nat /\ Len(packet) # 0
      BY LenProperties, EmptyIffShort DEF Types, TypeOK
<1>2. /\ stream \in Seq(Pieces) /\ Len(stream) \in Nat /\ taken \in Nat
      /\ taken <= Len(stream)
      BY StreamType DEF Types
<1>3. InPackets(stream) BY StreamInPackets DEF Types
<1>4. packet[1] \in Pieces BY <1>1, ElementOfSeq
<1>5. n \in Nat /\ n >= 1 BY <1>4 DEF Pieces
<1>6. Start \in Nat /\ Boundary(stream, Start) BY DEF Aligned
<1>7. Start + Len(packet) <= taken BY <1>1, <1>2, <1>6 DEF Start
<1>8. packet[1] = stream[Start + 1] BY <1>1 DEF Aligned
<1> DEFINE i == Start
<1> HIDE DEF i
<1>9. i \in Nat /\ i + Len(packet) <= Len(stream) /\ i < Len(stream) /\ Boundary(stream, i)
      /\ packet[1] = stream[i + 1]
      BY <1>1, <1>2, <1>6, <1>7, <1>8 DEF i
<1>10. packet[1].at = 1 BY <1>2, <1>3, <1>9, NextPiece
<1>11. n <= Len(packet) => Boundary(stream, i + n)
  <2> SUFFICES ASSUME n <= Len(packet) PROVE Boundary(stream, i + n) OBVIOUS
  <2>1. i + n <= Len(stream) /\ stream[i + 1].size = n BY <1>1, <1>2, <1>5, <1>9
  <2> QED BY <1>2, <1>3, <1>5, <1>9, <2>1, PacketEnds
<1> QED BY <1>5, <1>9, <1>10, <1>11 DEF i

\* the buffer does not begin to differ when something else is in hand
LEMMA KeptPacket ==
    ASSUME UNCHANGED <<packet, stream, taken>>, ~Fetching, ~Fetching'
    PROVE  Start' = Start /\ (Aligned => Aligned')
<1>1. Start' = Start BY DEF Start
<1> QED BY <1>1 DEF Aligned, Boundary

\* what the steps of luat_mqtt_read_packet have in common
LEMMA ReceiveParted ==
    ASSUME AppIsApart, IInv, Framing, Runs("lwip"), Receive
    PROVE  Alone' /\ Parted' /\ Emptied'
<1>1. Types /\ Shapes BY DEF IInv
<1>2. \E a \in {"close", "wait", "fetch", "fetched", "parse", "send", "consume"},
         b \in {"none", "close", "consume"} : Turns("lwip", a, b)
  <2>1. Parse => \/ Turns("lwip", "fetch", "none") \/ Turns("lwip", "consume", "none")
                 \/ Turns("lwip", "close", "close") \/ Turns("lwip", "send", "consume")
        BY <1>1, ReceiveTurns DEF Receive, Handles, Waits
  <2> QED BY <1>1, <2>1, ReceiveTurns DEF Receive
<1>3. UNCHANGED <<conn, wait>>
  <2>1. CASE ReadLook BY <2>1 DEF ReadLook, netcVars, connVars
  <2>2. CASE Fetch BY <2>2 DEF Fetch
  <2>3. CASE Fetched BY <2>3 DEF Fetched, netcVars, connVars
  <2>4. CASE Parse BY <2>4 DEF Parse, netcVars, connVars
  <2>5. CASE Consume BY <2>5 DEF Consume, netcVars, connVars
  <2> QED BY <2>1, <2>2, <2>3, <2>4, <2>5 DEF Receive
<1>4. \A u \in Users : Top(u)' = Top(u) BY <1>2 DEF Turns, Users
<1>5. Alone' BY <1>1, <1>4, AloneOthers
<1>6. Emptied' BY <1>2 DEF Emptied, Turns, Closing
<1>7. Top("lwip")' # "retry" BY <1>2 DEF Turns
<1>8. Parted' BY <1>3, <1>4, <1>7 DEF Framing, Parted, Threads, Users
<1> QED BY <1>5, <1>6, <1>8

LEMMA ReadLookFraming ==
    ASSUME IInv, Framing, ~overrun, ReadLook, Sound' => Sound
    PROVE  Matches' /\ Partial' /\ Handled' /\ Wrapped'
<1>1. Shapes BY DEF IInv
<1>2. /\ Top("lwip") = "read" /\ Rest("lwip") = "none"
      /\ \E a \in {"close", "wait", "fetch"} : Turns("lwip", a, "none")
      BY <1>1, ReceiveTurns DEF Receive
<1>3. UNCHANGED <<packet, hand, overrun, stream, taken>>
      BY DEF ReadLook, clientVars, connVars
<1>4. /\ Top("lwip")' \notin {"fetched", "parse"} /\ Top("lwip")' \notin Closing
      /\ Rest("lwip") # "close" /\ (Consuming' <=> Consuming) /\ ~Stale
      BY <1>2 DEF Turns, Consuming, Stale, CloseSteps, Closing
<1> QED BY <1>2, <1>3, <1>4, KeptFraming

LEMMA FetchFraming ==
    ASSUME IInv, Framing, ~overrun, Fetch, Sound' => Sound
    PROVE  Matches' /\ Partial' /\ Handled' /\ Wrapped'
<1>1. Types /\ Shapes /\ TypeOK BY DEF IInv, Types
<1>2. /\ Top("lwip") = "fetch" /\ Rest("lwip") = "none"
      /\ Turns("lwip", IF Portion = 0 THEN "wait" ELSE "fetched", "none")
      BY <1>1, ReceiveTurns DEF Receive
<1>3. /\ UNCHANGED <<packet, overrun, stream>> /\ taken' = taken + Portion
      /\ Len(hand') = Portion /\ \A i \in 1 .. Portion : hand'[i] = stream[taken + i]
      BY <1>1, FetchFacts DEF Fetch
<1>4. Top("lwip")' = (IF Portion = 0 THEN "wait" ELSE "fetched") /\ Rest("lwip")' = "none"
      BY <1>2 DEF Turns
<1>5. Portion \in Nat BY <1>1, PortionFacts
<1>6. Wrapped' BY <1>3 DEF Wrapped
<1>7. Handled' BY <1>3, <1>4, <1>5 DEF Handled, Consuming, Fetching
<1>8. Partial' BY <1>2, <1>3, <1>4 DEF Framing, Partial, Consuming
<1>9. Matches'
  <2> SUFFICES ASSUME Sound PROVE Aligned' BY DEF Matches
  <2>1. Aligned /\ ~Fetching BY <1>2 DEF Framing, Matches, Stale, CloseSteps, Fetching
  <2>2. Len(packet) \in Nat /\ taken \in Nat BY <1>1, LenProperties, StreamType DEF TypeOK
  <2>3. Fetching' <=> Portion # 0 BY <1>4 DEF Fetching
  <2>4. Start = taken - Len(packet)
    <3>1. Start = taken - Len(packet) - 0 BY <2>1 DEF Start
    <3> QED BY <2>2, <3>1
  <2>5. Start' = taken - Len(packet)
    <3>1. Start' = (taken + Portion) - Len(packet) - (IF Fetching' THEN Portion ELSE 0)
          BY <1>3 DEF Start
    <3> QED BY <1>5, <2>2, <2>3, <3>1
  <2>6. Start + Len(packet) = taken BY <2>2, <2>4
  <2>7. \A i \in 1 .. Len(hand') : hand'[i] = stream'[Start' + Len(packet') + i]
        BY <1>3, <2>4, <2>5, <2>6
  <2>8. Start' = Start BY <2>4, <2>5
  <2> QED BY <1>3, <2>1, <2>7, <2>8 DEF Aligned, Boundary
<1> QED BY <1>6, <1>7, <1>8, <1>9

LEMMA FetchedFraming ==
    ASSUME IInv, Framing, ~overrun, Fetched, Sound' => Sound
    PROVE  Matches' /\ Partial' /\ Handled' /\ Wrapped'
<1>1. Types /\ Shapes /\ TypeOK BY DEF IInv, Types
<1>2. Top("lwip") = "fetched" /\ Rest("lwip") = "none" /\ Turns("lwip", "parse", "none")
      BY <1>1, ReceiveTurns DEF Receive
<1>3. UNCHANGED <<overrun, stream, taken>> /\ packet' = packet \o hand
      BY DEF Fetched, connVars
<1>4. Top("lwip")' = "parse" /\ Rest("lwip")' = "none" BY <1>2 DEF Turns
<1>5. packet \in Seq(Pieces) /\ hand \in Seq(Pieces) /\ Len(packet) \in Nat /\ Len(hand) \in Nat
      BY <1>1, LenProperties DEF TypeOK
<1> DEFINE n == Len(packet)
           m == Len(hand)
<1>6. n \in Nat /\ m \in Nat BY <1>5
<1>7. /\ packet' \in Seq(Pieces) /\ Len(packet') = n + m
      /\ \A i \in 1 .. n + m : packet'[i] = IF i <= n THEN packet[i] ELSE hand[i - n]
      BY <1>3, <1>5, ConcatProperties
<1> HIDE DEF n, m
<1>8. Wrapped' BY <1>3 DEF Wrapped
<1>9. Partial' BY <1>4 DEF Partial
<1>10. Handled'
  <2>1. Sound => m >= 1 BY <1>2 DEF Framing, Handled, Fetching, m
  <2>2. Sound => packet' # <<>> BY <1>6, <1>7, <2>1, EmptyIffShort
  <2> QED BY <1>4, <2>2 DEF Handled, Consuming, Fetching
<1>11. Matches'
  <2> SUFFICES ASSUME Sound PROVE Aligned' BY DEF Matches
  <2>1. Aligned /\ Fetching BY <1>2 DEF Framing, Matches, Stale, CloseSteps, Fetching
  <2>2. ~Fetching' /\ taken \in Nat BY <1>1, <1>4, StreamType DEF Fetching
  <2>3. Start = taken - n - m BY <2>1 DEF Start, n, m
  <2>4. Start' = Start
    <3>1. Start' = taken - (n + m) - 0 BY <1>3, <1>7, <2>2 DEF Start
    <3> QED BY <1>6, <2>2, <2>3, <3>1
  <2> DEFINE b == Start
  <2>5. /\ b \in Nat /\ Boundary(stream, b)
        /\ \A i \in 1 .. n : packet[i] = stream[b + i]
        /\ \A i \in 1 .. m : hand[i] = stream[b + n + i]
        BY <2>1 DEF Aligned, n, m
  <2> HIDE DEF b
  <2>6. ASSUME NEW i \in 1 .. n + m PROVE packet'[i] = stream[b + i]
    <3>1. CASE i <= n BY <1>6, <1>7, <2>5, <3>1
    <3>2. CASE ~(i <= n)
      <4>1. i - n \in 1 .. m /\ b + n + (i - n) = b + i BY <1>6, <2>5, <3>2
      <4>2. hand[i - n] = stream[b + n + (i - n)] BY <2>5, <4>1
      <4> QED BY <1>7, <3>2, <4>1, <4>2
    <3> QED BY <3>1, <3>2
  <2>7. /\ Start' \in Nat /\ Boundary(stream', Start')
        /\ \A i \in 1 .. Len(packet') : packet'[i] = stream'[Start' + i]
    <3>1. Start' = b BY <2>4 DEF b
    <3> QED BY <1>3, <1>7, <2>5, <2>6, <3>1 DEF Boundary
  <2> QED BY <2>2, <2>7 DEF Aligned, Boundary
<1> QED BY <1>8, <1>9, <1>10, <1>11

LEMMA ParseFraming ==
    ASSUME IInv, Framing, ~overrun, Parse, Sound' => Sound
    PROVE  Matches' /\ Partial' /\ Handled' /\ Wrapped'
<1>1. Types /\ Shapes /\ TypeOK BY DEF IInv, Types
<1>2. Top("lwip") = "parse" /\ Rest("lwip") = "none" BY <1>1, ReceiveTurns DEF Receive
<1>3. PICK h \in Headers : IF h.size <= Len(packet) THEN Handles(h) ELSE Waits
      BY <1>1, ReceiveTurns DEF Receive
<1>4. UNCHANGED <<packet, overrun, stream, taken>> BY DEF Parse, connVars
<1>5. Sound => Aligned /\ packet # <<>>
      BY <1>2 DEF Framing, Matches, Handled, Stale, CloseSteps
<1> DEFINE n == packet[1].size
<1>6. Sound => n \in Nat /\ h.kind = packet[1].kind /\ h.size <= n
      BY <1>1, <1>5, FirstPacket, HeaderFacts
<1>7. h.size \in Nat /\ h.size >= 1 BY <1>1, HeaderFacts
<1>8. packet \in Seq(Pieces) /\ Len(packet) \in Nat BY <1>1, LenProperties DEF TypeOK
<1>9. CASE h.size <= Len(packet)
  <2>1. Handles(h) BY <1>3, <1>9
  <2>2. Top("lwip")' \in {"close", "send", "consume"} BY <2>1 DEF Handles, Turns
  <2>3. /\ h.kind = "refusal" => Rest("lwip")' = "close" /\ ~Consuming'
        /\ h.kind # "refusal" => Consuming'
        BY <2>1 DEF Handles, Turns, Consuming
  <2>4. Sound' => h.size = n BY <2>1 DEF Handles, Sound
  <2>5. Matches'
    <3>1. ~Fetching /\ ~Fetching' BY <1>2, <2>2 DEF Fetching
    <3>2. Aligned => Aligned' BY <1>4, <3>1, KeptPacket
    <3> QED BY <1>5, <3>2 DEF Matches
  <2>6. Partial' BY <2>3 DEF Partial
  <2>7. Handled'
    <3>1. hand' = SubSeq(packet, 1, h.size) BY <2>1 DEF Handles
    <3>2. Len(hand') = h.size BY <1>7, <1>8, <1>9, <3>1, RestOfPacket
    <3> QED BY <1>4, <1>7, <1>9, <2>2, <2>4, <3>2 DEF Handled, Fetching
  <2> QED BY <1>2, <1>4, <2>5, <2>6, <2>7 DEF Wrapped
<1>10. CASE ~(h.size <= Len(packet))
  <2>1. Waits BY <1>3, <1>10
  <2>2. Top("lwip")' = "fetch" /\ Rest("lwip")' = "none" BY <2>1 DEF Waits, Turns
  <2>3. Matches'
    <3>1. ~Fetching /\ ~Fetching' BY <1>2, <2>2 DEF Fetching
    <3>2. Aligned => Aligned' BY <1>4, <3>1, KeptPacket
    <3> QED BY <1>5, <3>2 DEF Matches
  <2>4. Partial'
    <3> SUFFICES ASSUME Sound PROVE n > Len(packet) BY <1>4 DEF Partial
    <3> HIDE DEF n
    <3> QED BY <1>6, <1>7, <1>8, <1>10
  <2>5. Handled' BY <2>2 DEF Handled, Consuming, Fetching
  <2> QED BY <2>2, <2>3, <2>4, <2>5 DEF Wrapped
<1> QED BY <1>9, <1>10

LEMMA ConsumeFraming ==
    ASSUME IInv, Framing, ~overrun, Consume, Sound' => Sound
    PROVE  /\ Matches' /\ Partial' /\ Handled' /\ Wrapped'
           /\ Sound' => Start' > 0
<1>1. Types /\ Shapes /\ TypeOK BY DEF IInv, Types
<1>2. /\ Top("lwip") = "consume" /\ Rest("lwip") = "none"
      /\ Turns("lwip", IF packet' = <<>> THEN "fetch" ELSE "parse", "none")
      BY <1>1, ReceiveTurns DEF Receive
<1>3. /\ UNCHANGED <<stream, taken>> /\ overrun' = (Len(hand) > Len(packet))
      /\ packet' = SubSeq(packet, Len(hand) + 1, Len(packet))
      BY DEF Consume, connVars
<1>4. Top("lwip")' = (IF packet' = <<>> THEN "fetch" ELSE "parse") /\ Rest("lwip")' = "none"
      BY <1>2 DEF Turns
<1>5. packet \in Seq(Pieces) /\ hand \in Seq(Pieces) /\ Len(packet) \in Nat /\ Len(hand) \in Nat
      BY <1>1, LenProperties DEF TypeOK
<1> DEFINE n == Len(hand)
           m == Len(packet)
<1>6. n \in Nat /\ m \in Nat BY <1>5
<1>7. n > m => packet' = <<>> BY <1>3, <1>5, RestOfPacket
<1>8. n <= m => /\ packet' \in Seq(Pieces) /\ Len(packet') = m - n
                /\ \A i \in 1 .. m - n : packet'[i] = packet[n + i]
      BY <1>3, <1>5, RestOfPacket
<1> HIDE DEF n, m
<1>9. overrun' <=> n > m BY <1>3 DEF n, m
<1>10. Wrapped' BY <1>4, <1>7, <1>9 DEF Wrapped
<1>11. Partial' /\ Handled' BY <1>4 DEF Partial, Handled, Consuming, Fetching
<1>12. ASSUME Sound'
       PROVE  Aligned' /\ Start' > 0
  <2>1. Sound /\ ~overrun' BY <1>12 DEF Sound
  <2>2. n <= m BY <1>6, <1>9, <2>1
  <2>3. Aligned /\ ~Fetching BY <1>2, <2>1 DEF Framing, Matches, Stale, CloseSteps, Fetching
  <2>4. n >= 1 /\ (packet # <<>> => n = packet[1].size)
        BY <1>2, <2>1 DEF Framing, Handled, Consuming, n
  <2>5. packet # <<>>
    <3>1. m # 0 BY <1>6, <2>2, <2>4
    <3> QED BY <1>5, <3>1, EmptyIffShort DEF m
  <2>6. Boundary(stream, Start + n)
        BY <1>1, <2>2, <2>3, <2>4, <2>5, FirstPacket DEF m
  <2>7. ~Fetching' BY <1>4 DEF Fetching
  <2> DEFINE b == Start
  <2>8. b \in Nat /\ \A i \in 1 .. m : packet[i] = stream[b + i] BY <2>3 DEF Aligned, m
  <2>9. taken \in Nat BY <1>1, StreamType
  <2>10. b = taken - m
    <3>1. b = taken - m - 0 BY <2>3 DEF Start, m
    <3> QED BY <1>6, <2>9, <3>1
  <2>11. Start' = b + n
    <3>1. Start' = taken - (m - n) - 0 BY <1>3, <1>8, <2>2, <2>7 DEF Start
    <3> QED BY <1>6, <2>9, <2>10, <3>1
  <2>12. Boundary(stream, b + n) BY <2>6
  <2> HIDE DEF b
  <2>13. \A i \in 1 .. m - n : packet'[i] = stream[b + n + i]
    <3> TAKE i \in 1 .. m - n
    <3>1. n + i \in 1 .. m /\ b + (n + i) = b + n + i BY <1>6, <2>2, <2>8
    <3>2. packet'[i] = packet[n + i] BY <1>8, <2>2
    <3>3. packet[n + i] = stream[b + (n + i)] BY <2>8, <3>1
    <3> QED BY <3>1, <3>2, <3>3
  <2>14. /\ Start' \in Nat /\ Start' > 0 /\ Boundary(stream', Start')
         /\ \A i \in 1 .. Len(packet') : packet'[i] = stream'[Start' + i]
    <3>1. b + n \in Nat /\ b + n > 0 BY <1>6, <2>4, <2>8
    <3>2. Len(packet') = m - n BY <1>8, <2>2
    <3> QED BY <1>3, <2>11, <2>12, <2>13, <3>1, <3>2 DEF Boundary
  <2> QED BY <2>7, <2>14 DEF Aligned, Boundary
<1>13. Matches' BY <1>12 DEF Matches
<1> QED BY <1>10, <1>11, <1>12, <1>13

LEMMA ReceiveFraming ==
    ASSUME AppIsApart, IInv, Framing, ~overrun, Runs("lwip"), Receive, Sound' => Sound
    PROVE  Framing'
BY ReceiveParted, ReadLookFraming, FetchFraming, FetchedFraming, ParseFraming, ConsumeFraming
DEF Receive, Framing

LEMMA StepFraming ==
    ASSUME AppIsApart, IInv, Framing, ~overrun, NEW t \in Threads, Step(t), Sound' => Sound
    PROVE  Framing'
<1>1. Runs(t) /\ (t = "lwip" => Runs("lwip")) BY DEF Step
<1>2. CASE Close(t)
      BY <1>1, <1>2, CloseTestFraming, CloseSetFraming, CloseShutFraming, CloseRetryFraming,
         ClosedFraming
      DEF Close
<1>3. CASE Send(t) BY <1>1, <1>3, SendFraming
<1>4. CASE Connect(t) BY <1>1, <1>4, ConnectFraming
<1>5. CASE t = "lwip" /\ Callback BY <1>1, <1>5, CallbackFraming
<1>6. CASE t = "lwip" /\ Receive BY <1>1, <1>6, ReceiveFraming
<1> QED BY <1>2, <1>3, <1>4, <1>5, <1>6 DEF Step

LEMMA NextFraming ==
    ASSUME AppIsApart, IInv, Framing, [Next]_vars
    PROVE  Framing'
<1>1. CASE Next
  <2>1. ~overrun /\ (Sound' => Sound) BY <1>1, SoundBefore DEF Next, Step
  <2>2. CASE \E t \in Threads : Step(t) BY <2>1, <2>2, StepFraming
  <2>3. CASE Event BY <2>1, <2>3, EventFraming
  <2>4. CASE PingFires \/ ReconnectFires \/ App BY <2>1, <2>4, BeginFraming
  <2> QED BY <1>1, <2>2, <2>3, <2>4 DEF Next
<1>2. CASE UNCHANGED vars
  <2>1. UNCHANGED <<clientVars, netcVars, connVars, otherVars, bufferVars, stack>>
        BY <1>2 DEF vars
  <2>2. \A t : Top(t)' = Top(t) /\ Rest(t)' = Rest(t) BY <2>1 DEF Top, Rest, Idle
  <2>3. UNCHANGED <<packet, hand, overrun, conn, wait, stream, taken, astray, cut, misread>>
        BY <2>1 DEF clientVars, netcVars, connVars, otherVars, bufferVars
  <2>4. (Sound' <=> Sound) /\ (Fetching' <=> Fetching) /\ (Consuming' <=> Consuming)
        BY <2>2, <2>3 DEF Sound, Fetching, Consuming
  <2>5. Aligned => Aligned' BY <2>3, <2>4, KeptAligned
  <2>6. Stale => Stale' BY <2>2 DEF Stale, Below
  <2>7. Alone' /\ Parted' /\ Emptied' BY <2>2, <2>3, <2>4 DEF Framing, Alone, Parted, Emptied, Below
  <2>8. Matches' /\ Wrapped' BY <2>2, <2>3, <2>4, <2>5, <2>6 DEF Framing, Matches, Wrapped
  <2>9. Partial' /\ Handled' BY <2>2, <2>3, <2>4 DEF Framing, Partial, Handled
  <2> QED BY <2>7, <2>8, <2>9 DEF Framing
<1> QED BY <1>1, <1>2

LEMMA InitFraming ==
    ASSUME Init
    PROVE  Framing
<1>1. \A t \in Threads : Top(t) = "none" /\ Rest(t) = "none"
  <2>1. \A t \in Threads : stack[t] = <<>> /\ Len(stack[t]) = 0 BY DEF Init
  <2> QED BY <2>1 DEF Top, Rest, Idle
<1>2. Top("lwip") = "none" /\ Rest("lwip") = "none" /\ Top("app") = "none" BY <1>1 DEF Threads
<1>3. packet = <<>> /\ taken = 0 /\ ~overrun /\ Len(packet) = 0 BY DEF Init
<1>4. Alone /\ Parted /\ Emptied /\ Wrapped /\ Partial /\ Handled
      BY <1>1, <1>2, <1>3
      DEF Alone, Parted, Emptied, Wrapped, Partial, Handled, Consuming, Fetching, Closing, Users,
          Threads
<1>5. Matches
  <2>1. ~Fetching BY <1>2 DEF Fetching
  <2>2. Start = 0 - 0 - 0 BY <1>3, <2>1 DEF Start
  <2>3. Start = 0 BY <2>2
  <2>4. \A i \in 1 .. Len(packet) : packet[i] = stream[Start + i] BY <1>3
  <2>5. Aligned BY <2>1, <2>3, <2>4 DEF Aligned, Boundary
  <2> QED BY <2>5 DEF Matches
<1> QED BY <1>4, <1>5 DEF Framing

LEMMA AlwaysFraming == AppIsApart => (Spec => [](IInv /\ Framing))
<1>1. SUFFICES ASSUME AppIsApart PROVE Spec => [](IInv /\ Framing) BY <1>1
<1>2. Init => IInv /\ Framing BY InitInv, InitFraming
<1>3. IInv /\ Framing /\ [Next]_vars => (IInv /\ Framing)' BY <1>1, NextInv, NextFraming
<1> QED BY <1>2, <1>3, PTL DEF Spec

\* What mqtt_parse looks at begins with a packet, and is what was read last of the stream,
\* piece for piece, for every way of the broker to cut its packets and of the buffer to fill.
\* It holds unless a close emptied the buffer under another thread, until mqtt_parse takes a
\* packet whose remaining length does not fit into 16 bits for a shorter one, and if the
\* application does not have the priority of the lwIP thread (luat_mqtt_read_packet,
\* mqtt_parse, luat_mqtt_close_socket).
THEOREM MqttFramed == AppIsApart => (Spec => []Framed)
<1>1. ASSUME IInv, Framing PROVE Framed
  <2> SUFFICES ASSUME At("lwip", "parse"), ~cut, ~misread, ~astray
               PROVE  /\ packet # <<>> /\ packet[1].at = 1
                      /\ packet = SubSeq(stream, taken - Len(packet) + 1, taken)
      BY DEF Framed
  <2>1. Types /\ Shapes /\ TypeOK BY <1>1 DEF IInv, Types
  <2>2. Top("lwip") = "parse" BY <2>1, Tops DEF Threads
  <2>3. Sound BY <1>1, <2>2 DEF Framing, Wrapped, Sound
  <2>4. Aligned /\ packet # <<>> /\ ~Fetching
        BY <1>1, <2>2, <2>3 DEF Framing, Matches, Handled, Stale, CloseSteps, Fetching
  <2>5. packet[1].at = 1 BY <2>1, <2>4, FirstPacket
  <2>6. packet \in Seq(Pieces) /\ Len(packet) \in Nat BY <2>1, LenProperties DEF TypeOK
  <2>7. /\ stream \in Seq(Pieces) /\ Len(stream) \in Nat /\ taken \in Nat
        /\ taken <= Len(stream)
        BY <2>1, StreamType
  <2> DEFINE b == Start
             n == Len(packet)
             q == SubSeq(stream, taken - n + 1, taken)
  <2>8. n \in Nat /\ b \in Nat /\ \A i \in 1 .. n : packet[i] = stream[b + i]
        BY <2>4, <2>6 DEF Aligned
  <2>9. taken = b + n
    <3>1. b = taken - n - 0 BY <2>4 DEF Start
    <3> HIDE DEF b, n
    <3> QED BY <2>7, <2>8, <3>1
  <2> HIDE DEF b, n
  <2>10. \A i \in b + 1 .. taken : stream[i] \in Pieces
    <3>1. \A i \in 1 .. Len(stream) : stream[i] \in Pieces BY <2>7, ElementOfSeq
    <3> QED BY <2>7, <2>8, <3>1
  <2>11. taken - n + 1 = b + 1 BY <2>8, <2>9
  <2>12. /\ q \in Seq(Pieces)
         /\ Len(q) = IF b + 1 <= taken THEN taken - (b + 1) + 1 ELSE 0
         /\ \A i \in 1 .. taken - (b + 1) + 1 : q[i] = stream[b + 1 + i - 1]
         BY <2>7, <2>8, <2>10, <2>11, SubSeqProperties
  <2> HIDE DEF q
  <2>13. Len(q) = n BY <2>8, <2>9, <2>12
  <2>14. ASSUME NEW i \in 1 .. n PROVE packet[i] = q[i]
    <3>1. i \in 1 .. taken - (b + 1) + 1 /\ b + 1 + i - 1 = b + i BY <2>8, <2>9
    <3>2. q[i] = stream[b + i] BY <2>12, <3>1
    <3> QED BY <2>8, <3>2
  <2>15. packet = q BY <2>6, <2>12, <2>13, <2>14, SeqEqual DEF n
  <2> QED BY <2>4, <2>5, <2>15 DEF q, n
<1> QED BY <1>1, AlwaysFraming, PTL

-----------------------------------------------------------------------------
(* The session *)

\* the first packet of the stream has been handled
Passed == Start > 0 \/ Consuming

\* there is a connection, and nobody is closing it
Live == Up /\ ~Waiting("shut") /\ ~Waiting("drop") /\ ~Waiting("close")

Session ==
    Sound =>
        /\ Up => mqtt_state \in {"MQTT", "READY"} \/ Top("lwip") = "online" \/ Waiting("shut")
        /\ Live => ping_timer \/ Top("lwip") \in {"online", "send_connect", "greet"}
        /\ Live /\ Top("lwip") # "online" =>
            /\ mqtt_state = (IF Passed THEN "READY" ELSE "MQTT")
            /\ Passed => stream # <<>> /\ stream[1].kind = "CONNACK"

\* a step that neither makes a connection nor ends a close of one
LEMMA KeptSession ==
    ASSUME Session, Sound' => Sound, mqtt_state' = mqtt_state, Up' => Up,
           ping_timer => ping_timer',
           Sound' => Start' = Start /\ (stream' = stream \/ stream = <<>>),
           Consuming' <=> Consuming,
           Waiting("shut") => Waiting("shut")', Waiting("drop") => Waiting("drop")',
           Waiting("close") => Waiting("close")',
           Top("lwip") = "online" => Top("lwip")' = "online",
           Top("lwip") \in {"send_connect", "greet"} =>
                ping_timer' \/ Waiting("close")' \/ Top("lwip")' \in {"send_connect", "greet"}
    PROVE  Session'
<1> SUFFICES ASSUME Sound'
             PROVE  /\ Up' => mqtt_state' \in {"MQTT", "READY"} \/ Top("lwip")' = "online"
                                \/ Waiting("shut")'
                    /\ Live' => ping_timer' \/ Top("lwip")' \in {"online", "send_connect", "greet"}
                    /\ Live' /\ Top("lwip")' # "online" =>
                        /\ mqtt_state' = (IF Passed' THEN "READY" ELSE "MQTT")
                        /\ Passed' => stream' # <<>> /\ stream'[1].kind = "CONNACK"
    BY DEF Session
<1>1. Live' => Live BY DEF Live
<1>2. Passed' <=> Passed BY DEF Passed
<1> QED BY <1>1, <1>2 DEF Session, Live

\* a step that leaves no connection
LEMMA NoSession ==
    ASSUME Sound' => ~Up'
    PROVE  Session'
BY DEF Session, Live

LEMMA CloseSession ==
    ASSUME IInv, Framing, Session, ~overrun, NEW t \in Threads, Close(t), Sound' => Sound
    PROVE  Session'
<1>1. Types /\ Shapes BY DEF IInv
<1>2. CASE CloseTest(t)
  <2>1. /\ Top(t) = "close"
        /\ mqtt_state = "DISCONNECT" => Turns(t, "leave", Rest(t))
        /\ mqtt_state # "DISCONNECT" => Turns(t, "drop", Rest(t))
        BY <1>1, <1>2, CloseTurns
  <2>2. UNCHANGED <<mqtt_state, ping_timer, conn, state>>
        BY <1>2 DEF CloseTest, clientVars, connVars, netcVars
  <2>3. /\ Waiting("shut") => Waiting("shut")'
        /\ Top("lwip") = "online" => Top("lwip")' = "online"
        BY <2>1 DEF Waiting, Turns, Threads
  <2>4. CASE mqtt_state = "DISCONNECT"
    <3>1. Sound' /\ Up' => Waiting("shut")' \/ Top("lwip")' = "online"
          BY <2>2, <2>3, <2>4 DEF Session, Up
    <3> QED BY <3>1 DEF Session, Live
  <2>5. CASE mqtt_state # "DISCONNECT"
    <3>1. Waiting("drop")' BY <2>1, <2>5 DEF Waiting, Turns, Threads
    <3> QED BY <2>2, <2>3, <3>1 DEF Session, Live, Up
  <2> QED BY <2>4, <2>5
<1>6. CASE CloseSet(t)
  <2>1. Turns(t, "shut", Rest(t)) BY <1>1, <1>6, CloseTurns
  <2>2. Waiting("shut")' BY <2>1 DEF Waiting, Turns, Threads
  <2> QED BY <2>2 DEF Session, Live
<1>3. CASE CloseShut(t)
  <2>1. ~Up' BY <1>3 DEF CloseShut, SetSocket, Up
  <2> QED BY <2>1, NoSession
<1>4. CASE CloseRetry(t)
  <2>1. Top(t) = "retry" BY <1>1, <1>4, CloseTurns
  <2>2. conn' # "up" BY <1>4, <2>1 DEF CloseRetry, connVars, Framing, Parted
  <2> QED BY <2>2, NoSession DEF Up
<1>5. CASE Closed(t)
  <2>1. Top(t) \in {"closed", "leave"} /\ Turns(t, Rest(t), "none") BY <1>1, <1>5, CloseTurns
  <2>2. /\ UNCHANGED <<mqtt_state, ping_timer, conn, state, stream, taken>> /\ ResetBuffer(t)
        /\ packet' = <<>>
        BY <1>5 DEF Closed, ResetBuffer, connVars, netcVars
  <2>3. /\ Rest(t) \notin {"online", "fetched"}
        /\ t = "lwip" => Rest(t) \in {"none", "close", "wait", "consume"}
        BY <1>1, <2>1, Tops DEF Shape, LwipShape, UserShape, CloseSteps
  <2>4. ASSUME Sound' PROVE packet = <<>> /\ hand' = hand
    <3>1. ~cut' BY <2>4 DEF Sound
    <3>2. t = "lwip" => packet = <<>>
          BY <1>1, <2>1, <2>2, <3>1, ResetSound DEF Framing, Emptied, Closing
    <3>3. t = "lwip" => hand' = hand BY <1>1, <2>1, <2>2, ResetKeeps
    <3> QED BY <1>1, <2>2, <3>1, <3>2, <3>3, ResetSound
  <2>5. Fetching' <=> Fetching BY <2>1, <2>3 DEF Fetching, Turns, Threads
  <2>6. Sound' => Start' = Start BY <2>2, <2>4, <2>5, KeptAligned
  <2>7. Consuming' <=> Consuming BY <2>1, <2>3 DEF Consuming, Turns, Threads
  <2>8. /\ Waiting("shut") => Waiting("shut")'
        /\ Waiting("drop") => Waiting("drop")'
        /\ Waiting("close") => Waiting("close")'
        BY <2>1 DEF Waiting, Turns, Threads
  <2>9. /\ Top("lwip") = "online" => Top("lwip")' = "online"
        /\ Top("lwip") \in {"send_connect", "greet"} => Top("lwip")' = Top("lwip")
        BY <2>1 DEF Turns, Threads
  <2>10. Up' => Up BY <2>2 DEF Up
  <2> QED BY <2>2, <2>6, <2>7, <2>8, <2>9, <2>10, KeptSession
<1> QED BY <1>2, <1>3, <1>4, <1>5, <1>6 DEF Close

LEMMA SendSession ==
    ASSUME IInv, Session, NEW t \in Threads, Send(t), Sound' => Sound
    PROVE  Session'
<1>1. Shapes BY DEF IInv
<1>2. /\ Top(t) \in {"send", "send_connect"}
      /\ \/ Turns(t, "close", Rest(t))
         \/ Top(t) = "send_connect" /\ Turns(t, "greet", Rest(t))
         \/ Top(t) = "send" /\ Turns(t, Rest(t), "none")
      BY <1>1, SendTurns
<1>3. UNCHANGED <<mqtt_state, ping_timer, packet, hand, conn, state, stream, taken>>
      BY DEF Send, clientVars
<1>4. Rest(t) # "fetched" BY <1>1, <1>2, Tops DEF Shape, LwipShape, UserShape, CloseSteps
<1>5. Fetching' <=> Fetching BY <1>2, <1>4 DEF Fetching, Turns, Threads
<1>6. Start' = Start BY <1>3, <1>5, KeptAligned
<1>7. Consuming' <=> Consuming BY <1>2 DEF Consuming, Turns, Threads
<1>8. /\ Waiting("shut") => Waiting("shut")'
      /\ Waiting("drop") => Waiting("drop")'
      /\ Waiting("close") => Waiting("close")'
      BY <1>2 DEF Waiting, Turns, Threads
<1>9. /\ Top("lwip") = "online" => Top("lwip")' = "online"
      /\ Top("lwip") \in {"send_connect", "greet"} =>
            Waiting("close")' \/ Top("lwip")' \in {"send_connect", "greet"}
      BY <1>2 DEF Turns, Threads, Waiting
<1> QED BY <1>3, <1>6, <1>7, <1>8, <1>9, KeptSession DEF Up

LEMMA ConnectSession ==
    ASSUME IInv, Session, NEW t \in Threads, Connect(t), Sound' => Sound
    PROVE  Session'
<1>1. Shapes /\ Netc BY DEF IInv
<1>2. t # "lwip" BY <1>1, ConnectTurns
<1>3. CASE ConnectLook(t)
  <2>1. /\ Top(t) = "connect"
        /\ Turns(t, "connect_locked", "sconnect") \/ Turns(t, "sconnect", "none")
        BY <1>1, <1>3, ConnectTurns
  <2>2. UNCHANGED <<mqtt_state, ping_timer, packet, hand, conn, state, stream, taken>>
        BY <1>3 DEF ConnectLook, clientVars, netcVars, connVars
  <2>3. Top("lwip")' = Top("lwip") /\ Rest("lwip")' = Rest("lwip") BY <1>2, <2>1 DEF Turns
  <2>4. Rest(t) = "none"
        BY <1>1, <1>2, <2>1, Tops DEF Shape, UserShape, CloseSteps
  <2>5. /\ Waiting("shut") => Waiting("shut")'
        /\ Waiting("drop") => Waiting("drop")'
        /\ Waiting("close") => Waiting("close")'
        BY <2>1, <2>4 DEF Waiting, Turns, Threads
  <2>6. (Fetching' <=> Fetching) /\ (Consuming' <=> Consuming) BY <2>3 DEF Fetching, Consuming
  <2>7. Start' = Start BY <2>2, <2>6, KeptAligned
  <2> QED BY <2>2, <2>3, <2>5, <2>6, <2>7, KeptSession DEF Up
<1>4. CASE ConnectLocked(t)
  <2>1. Sound' => conn = "none" BY <1>4 DEF ConnectLocked, Sound
  <2>2. conn' \in {conn, "opening", "none"}
        BY <1>4 DEF ConnectLocked, PrepareConnect, SetSocket, connVars
  <2> QED BY <2>1, <2>2, NoSession DEF Up
<1>5. CASE ConnectDone(t)
  <2>1. Sound' => Connecting BY <1>5 DEF ConnectDone, Sound
  <2>2. state' = state BY <1>5 DEF ConnectDone, netcVars
  <2>3. Connecting => state # "ONLINE" BY DEF Connecting
  <2> QED BY <2>1, <2>2, <2>3, NoSession DEF Up
<1> QED BY <1>3, <1>4, <1>5 DEF Connect

LEMMA EventSession ==
    ASSUME IInv, Session, Event, Sound' => Sound
    PROVE  Session'
<1>1. Shapes /\ Netc BY DEF IInv
<1>2. /\ Top("lwip") = "none"
      /\ \E a \in {"close", "online", "wait", "read", "none"} : Turns("lwip", a, "none")
      BY <1>1, EventTurns
<1>3. CASE Opened
  <2>1. Up' => state = "CONNECTING" /\ ~Refused
        BY <1>1, <1>3 DEF Opened, Up, Netc
  <2>2. state = "CONNECTING" /\ ~Refused => wait = "ON_LINE" /\ Result(0)
        BY <1>3 DEF Opened, Outcome, Refused
  <2>3. wait = "ON_LINE" /\ Result(0) => Top("lwip")' = "online"
        BY <1>1, ResultTurns DEF Turns
  <2>4. Up' => Top("lwip")' = "online" BY <2>1, <2>2, <2>3
  <2> QED BY <2>4 DEF Session, Live
<1>4. CASE Lost \/ Arrive \/ Acked \/ LinkChange
  <2>1. Up' => Up
        BY <1>4
        DEF Up, Lost, Arrive, Acked, LinkChange, PrepareConnect, SetSocket, connVars
  <2>2. mqtt_state' = mqtt_state /\ ping_timer' = ping_timer BY DEF Event, clientVars
  <2>3. Rest("lwip") = "none" /\ Rest("lwip")' = "none" /\ Top("lwip")' \notin {"fetched", "consume"}
        BY <1>1, <1>2, Tops DEF Shape, LwipShape, CloseSteps, Threads, Turns
  <2>4. (Fetching' <=> Fetching) /\ (Consuming' <=> Consuming)
        BY <1>2, <2>3 DEF Fetching, Consuming
  <2>5. Sound' => /\ UNCHANGED <<packet, taken>>
                  /\ stream' = stream \/ stream = <<>>
        BY EventKeeps DEF Sound
  <2>6. Sound' => Start' = Start BY <1>2, <2>3, <2>4, <2>5 DEF Start, Fetching
  <2>7. /\ Waiting("shut") => Waiting("shut")'
        /\ Waiting("drop") => Waiting("drop")'
        /\ Waiting("close") => Waiting("close")'
        BY EventWaiting, <1>1
  <2> QED BY <1>2, <2>1, <2>2, <2>4, <2>5, <2>6, <2>7, KeptSession
<1> QED BY <1>3, <1>4 DEF Event

LEMMA CallbackSession ==
    ASSUME IInv, Framing, Session, ~overrun, Callback, Sound' => Sound
    PROVE  Session'
<1>1. Types /\ Shapes /\ Netc BY DEF IInv
<1>2. UNCHANGED <<packet, hand, conn, state, stream, taken>>
      BY DEF Callback, Online, Greet, Wait, clientVars, netcVars, connVars
<1>3. CASE Online
  <2>1. /\ Top("lwip") = "online" /\ Turns("lwip", "send_connect", "wait")
        /\ mqtt_state' = "MQTT"
        BY <1>1, <1>3, CallbackTurns DEF Online
  <2>2. Top("lwip")' = "send_connect" /\ Rest("lwip")' = "wait" BY <2>1 DEF Turns
  <2>3. ~Consuming' /\ ~Fetching /\ ~Fetching' BY <2>1, <2>2 DEF Consuming, Fetching
  <2>4. ASSUME Sound' PROVE ~(Start' > 0)
    <3>1. Aligned BY <2>1, <2>4 DEF Framing, Matches, Stale, CloseSteps
    <3>2. taken = 0 BY <1>1, <2>1, NothingSent DEF Netc
    <3>3. Len(packet) \in Nat BY <1>1, LenProperties DEF Types, TypeOK
    <3>4. Start = taken - Len(packet) - 0 /\ Start \in Nat BY <2>3, <3>1 DEF Start, Aligned
    <3>5. Start' = Start BY <1>2, <2>3, KeptPacket
    <3> QED BY <3>2, <3>3, <3>4, <3>5
  <2>5. Sound' => ~Passed' BY <2>3, <2>4 DEF Passed
  <2> QED BY <2>1, <2>2, <2>5 DEF Session
<1>4. CASE Greet \/ Wait
  <2>1. /\ Top("lwip") \in {"greet", "wait"} /\ Rest("lwip") \in {"none", "wait"}
        /\ Top("lwip") = "greet" => ping_timer'
        /\ ping_timer => ping_timer'
        /\ mqtt_state' = mqtt_state
        /\ \E a \in {"wait", "none", "close"} : Turns("lwip", a, "none")
    <3>1. CASE Greet BY <1>1, <3>1, CallbackTurns DEF Greet, Callback
    <3>2. CASE Wait BY <1>1, <3>2, CallbackTurns DEF Wait, Callback, clientVars
    <3> QED BY <1>4, <3>1, <3>2
  <2>2. (Fetching' <=> Fetching) /\ (Consuming' <=> Consuming)
        BY <2>1 DEF Fetching, Consuming, Turns
  <2>3. Start' = Start BY <1>2, <2>2, KeptAligned
  <2>4. /\ Waiting("shut") => Waiting("shut")'
        /\ Waiting("drop") => Waiting("drop")'
        /\ Waiting("close") => Waiting("close")'
        BY <2>1 DEF Waiting, Turns
  <2>5. /\ ping_timer => ping_timer'
        /\ Top("lwip") \notin {"online", "send_connect"}
        /\ Top("lwip") \in {"send_connect", "greet"} => ping_timer'
        BY <2>1
  <2>6. Up' => Up BY <1>2 DEF Up
  <2>7. stream' = stream /\ mqtt_state' = mqtt_state BY <1>2, <2>1
  <2>8. Top("lwip") # "online" BY <2>1
  <2> QED BY <2>2, <2>3, <2>4, <2>5, <2>6, <2>7, <2>8, KeptSession
<1> QED BY <1>3, <1>4 DEF Callback

LEMMA BeginSession ==
    ASSUME IInv, Session, PingFires \/ ReconnectFires \/ App, Sound' => Sound
    PROVE  Session'
<1>1. Types /\ Shapes BY DEF IInv
<1>2. UNCHANGED <<mqtt_state, ping_timer, conn, state, stream, taken>>
      BY DEF PingFires, ReconnectFires, App, AppConnects, AppCloses, AppSends, clientVars, netcVars,
             connVars
<1>3. \/ Top("timer") = "none" /\ \E a : Turns("timer", a, "none")
      \/ Top("app") = "none" /\ \E a : Turns("app", a, "none")
      BY <1>1, BeginTurns DEF App
<1>4. /\ Top("timer") = "none" => Rest("timer") = "none"
      /\ Top("app") = "none" => Rest("app") = "none"
      BY <1>1, Tops DEF Threads, Shape, UserShape, CloseSteps
<1>5. /\ Waiting("shut") => Waiting("shut")'
      /\ Waiting("drop") => Waiting("drop")'
      /\ Waiting("close") => Waiting("close")'
      BY <1>3, <1>4 DEF Waiting, Turns
<1>6. Top("lwip")' = Top("lwip") /\ Rest("lwip")' = Rest("lwip") BY <1>3 DEF Turns
<1>7. (Fetching' <=> Fetching) /\ (Consuming' <=> Consuming) BY <1>6 DEF Fetching, Consuming
<1>8. ASSUME Sound' PROVE UNCHANGED <<packet, hand>>
  <2>1. CASE PingFires \/ App
        BY <2>1 DEF PingFires, App, AppConnects, AppCloses, AppSends, clientVars
  <2>2. CASE ReconnectFires
    <3>1. ResetBuffer("timer") /\ packet' = <<>> /\ ~cut'
          BY <1>8, <2>2 DEF ReconnectFires, ResetBuffer, Sound
    <3> QED BY <1>1, <3>1, ResetSound DEF Threads
  <2> QED BY <2>1, <2>2
<1>9. Sound' => Start' = Start BY <1>2, <1>7, <1>8, KeptAligned
<1> QED BY <1>2, <1>5, <1>6, <1>7, <1>9, KeptSession DEF Up

LEMMA ReceiveSession ==
    ASSUME IInv, Framing, Session, ~overrun, Receive, Sound' => Sound
    PROVE  Session'
<1>1. Types /\ Shapes /\ TypeOK BY DEF IInv, Types
<1>2. UNCHANGED <<ping_timer, conn, state, stream>>
  <2>1. CASE ReadLook BY <2>1 DEF ReadLook, clientVars, netcVars, connVars
  <2>2. CASE Fetch BY <2>2 DEF Fetch
  <2>3. CASE Fetched BY <2>3 DEF Fetched, netcVars, connVars
  <2>4. CASE Parse BY <2>4 DEF Parse, netcVars, connVars
  <2>5. CASE Consume BY <2>5 DEF Consume, netcVars, connVars
  <2> QED BY <2>1, <2>2, <2>3, <2>4, <2>5 DEF Receive
<1>3. /\ Top("lwip") \in {"read", "fetch", "fetched", "parse", "consume"} /\ Rest("lwip") = "none"
      /\ \E a \in {"close", "wait", "fetch", "fetched", "parse", "send", "consume"},
            b \in {"none", "close", "consume"} : Turns("lwip", a, b)
  <2>1. Parse => \/ Turns("lwip", "fetch", "none") \/ Turns("lwip", "consume", "none")
                 \/ Turns("lwip", "close", "close") \/ Turns("lwip", "send", "consume")
        BY <1>1, ReceiveTurns DEF Receive, Handles, Waits
  <2> QED BY <1>1, <2>1, ReceiveTurns DEF Receive
<1>4. /\ Waiting("shut") => Waiting("shut")'
      /\ Waiting("drop") => Waiting("drop")'
      /\ Waiting("close") => Waiting("close")'
      BY <1>3 DEF Waiting, Turns
<1>5. (Up' <=> Up) /\ (Live' => Live) BY <1>2, <1>4 DEF Up, Live
<1>6. CASE ReadLook
  <2>1. /\ Top("lwip") = "read"
        /\ \E a \in {"close", "wait", "fetch"} : Turns("lwip", a, "none")
        BY <1>1, <1>6, ReceiveTurns DEF Receive
  <2>2. UNCHANGED <<mqtt_state, packet, hand, taken>>
        BY <1>6 DEF ReadLook, clientVars, connVars
  <2>3. (Fetching' <=> Fetching) /\ (Consuming' <=> Consuming)
        BY <1>3, <2>1 DEF Fetching, Consuming, Turns
  <2>4. Start' = Start BY <1>2, <2>2, <2>3, KeptAligned
  <2> QED BY <1>2, <1>4, <1>5, <2>1, <2>2, <2>3, <2>4, KeptSession
<1>7. CASE Fetch
  <2>1. Top("lwip") = "fetch" /\ Turns("lwip", IF Portion = 0 THEN "wait" ELSE "fetched", "none")
        BY <1>1, <1>7, ReceiveTurns DEF Receive
  <2>2. /\ UNCHANGED <<mqtt_state, packet>> /\ taken' = taken + Portion
        /\ Len(hand') = Portion
        BY <1>1, <1>7, FetchFacts DEF Fetch
  <2>3. /\ Top("lwip")' = (IF Portion = 0 THEN "wait" ELSE "fetched") /\ Rest("lwip")' = "none"
        BY <2>1 DEF Turns
  <2>4. ~Fetching /\ (Fetching' <=> Portion # 0) /\ (Consuming' <=> Consuming)
        BY <1>3, <2>1, <2>3 DEF Fetching, Consuming
  <2>5. Start' = Start
    <3>1. /\ Portion \in Nat /\ taken \in Nat /\ Len(packet) \in Nat
          BY <1>1, PortionFacts, StreamType, LenProperties DEF TypeOK
    <3>2. /\ Start = taken - Len(packet) - 0
          /\ Start' = (taken + Portion) - Len(packet) - (IF Fetching' THEN Portion ELSE 0)
          BY <2>2, <2>4 DEF Start
    <3> QED BY <2>4, <3>1, <3>2
  <2> QED BY <1>2, <1>4, <1>5, <2>1, <2>2, <2>4, <2>5, KeptSession
<1>8. CASE Fetched
  <2>1. Top("lwip") = "fetched" /\ Turns("lwip", "parse", "none")
        BY <1>1, <1>8, ReceiveTurns DEF Receive
  <2>2. UNCHANGED <<mqtt_state, taken>> /\ packet' = packet \o hand
        BY <1>8 DEF Fetched, connVars
  <2>3. Fetching /\ ~Fetching' /\ (Consuming' <=> Consuming)
        BY <1>3, <2>1 DEF Fetching, Consuming, Turns
  <2>4. Start' = Start
    <3>1. /\ packet \in Seq(Pieces) /\ hand \in Seq(Pieces) /\ taken \in Nat
          /\ Len(packet) \in Nat /\ Len(hand) \in Nat
          BY <1>1, StreamType, LenProperties DEF TypeOK
    <3>2. Len(packet') = Len(packet) + Len(hand) BY <2>2, <3>1, ConcatProperties
    <3>3. /\ Start = taken - Len(packet) - Len(hand)
          /\ Start' = taken - (Len(packet) + Len(hand)) - 0
          BY <2>2, <2>3, <3>2 DEF Start
    <3> QED BY <3>1, <3>3
  <2> QED BY <1>2, <1>4, <1>5, <2>1, <2>2, <2>3, <2>4, KeptSession
<1>9. CASE Parse
  <2>1. Top("lwip") = "parse" BY <1>1, <1>9, ReceiveTurns DEF Receive
  <2>2. PICK h \in Headers : IF h.size <= Len(packet) THEN Handles(h) ELSE Waits
        BY <1>1, <1>9, ReceiveTurns DEF Receive
  <2>3. UNCHANGED <<packet, taken>> BY <1>9 DEF Parse, connVars
  <2>4. ~Fetching /\ ~Fetching' /\ ~Consuming /\ Top("lwip")' # "online"
    <3>1. ~Fetching /\ ~Consuming BY <1>3, <2>1 DEF Fetching, Consuming
    <3>2. Top("lwip")' \in {"fetch", "close", "send", "consume"}
          BY <2>2 DEF Handles, Waits, Turns
    <3> QED BY <3>1, <3>2 DEF Fetching
  <2>5. Start' = Start BY <1>2, <2>3, <2>4, KeptPacket
  <2>6. CASE ~(h.size <= Len(packet))
    <3>1. Waits BY <2>2, <2>6
    <3>2. ~Consuming' /\ mqtt_state' = mqtt_state BY <3>1 DEF Waits, Consuming, Turns
    <3> QED BY <1>2, <1>4, <1>5, <2>1, <2>4, <2>5, <3>2, KeptSession
  <2>7. CASE h.size <= Len(packet) /\ h.kind = "refusal"
    <3>1. Handles(h) BY <2>2, <2>7
    <3>2. Waiting("close")' /\ mqtt_state' = mqtt_state
          BY <2>7, <3>1 DEF Handles, Waiting, Turns
    <3> QED BY <1>4, <1>5, <2>1, <3>2 DEF Session, Live
  <2>8. CASE h.size <= Len(packet) /\ h.kind # "refusal"
    <3> SUFFICES ASSUME Sound'
                 PROVE  /\ Up' => mqtt_state' \in {"MQTT", "READY"} \/ Waiting("shut")'
                        /\ Live' => ping_timer'
                        /\ Live' => /\ mqtt_state' = (IF Passed' THEN "READY" ELSE "MQTT")
                                    /\ Passed' => stream' # <<>> /\ stream'[1].kind = "CONNACK"
        BY DEF Session
    <3>1. Handles(h) BY <2>2, <2>8
    <3>2. mqtt_state' = IF h.kind = "CONNACK" THEN "READY" ELSE mqtt_state
          BY <3>1 DEF Handles
    <3>3. Passed' BY <2>8, <3>1 DEF Handles, Passed, Consuming, Turns
    <3>4. Aligned /\ packet # <<>>
          BY <2>1 DEF Framing, Matches, Handled, Stale, CloseSteps
    <3>5. /\ Start \in Nat /\ Start < Len(stream) /\ packet[1] = stream[Start + 1]
          /\ h.kind = packet[1].kind
          BY <1>1, <3>4, FirstPacket, HeaderFacts
    <3>6. CASE Start > 0
          BY <1>2, <1>4, <1>5, <2>1, <3>2, <3>3, <3>6 DEF Session, Passed
    <3>7. CASE Start = 0
      <4>1. stream # <<>> BY <3>5, <3>7
      <4>2. h.kind = "CONNACK" /\ stream[1].kind = "CONNACK"
            BY <1>1, <2>8, <3>5, <3>7, <4>1, StreamInPackets
      <4> QED BY <1>2, <1>4, <1>5, <2>1, <3>2, <3>3, <4>1, <4>2 DEF Session
    <3> QED BY <3>5, <3>6, <3>7
  <2> QED BY <2>6, <2>7, <2>8
<1>10. CASE Consume
  <2>1. Top("lwip") = "consume" /\ Top("lwip")' \in {"fetch", "parse"}
        BY <1>1, <1>10, ReceiveTurns DEF Receive, Turns
  <2>2. mqtt_state' = mqtt_state BY <1>10 DEF Consume
  <2>3. Sound' => Start' > 0 BY <1>10, ConsumeFraming
  <2>4. Sound' => Passed' BY <2>3 DEF Passed
  <2>5. Passed BY <2>1 DEF Passed, Consuming
  <2> QED BY <1>2, <1>4, <1>5, <2>1, <2>2, <2>4, <2>5 DEF Session
<1> QED BY <1>6, <1>7, <1>8, <1>9, <1>10 DEF Receive

LEMMA NextSession ==
    ASSUME IInv, Framing, Session, [Next]_vars
    PROVE  Session'
<1>1. CASE Next
  <2>1. ~overrun /\ (Sound' => Sound) BY <1>1, SoundBefore DEF Next, Step
  <2>2. ASSUME NEW t \in Threads, Step(t) PROVE Session'
        BY <2>1, <2>2, CloseSession, SendSession, ConnectSession, CallbackSession, ReceiveSession
        DEF Step
  <2>3. CASE Event BY <2>1, <2>3, EventSession
  <2>4. CASE PingFires \/ ReconnectFires \/ App BY <2>1, <2>4, BeginSession
  <2> QED BY <1>1, <2>2, <2>3, <2>4 DEF Next
<1>2. CASE UNCHANGED vars
  <2>1. UNCHANGED <<clientVars, netcVars, connVars, otherVars, bufferVars, stack>>
        BY <1>2 DEF vars
  <2>2. \A t : Top(t)' = Top(t) /\ Rest(t)' = Rest(t) BY <2>1 DEF Top, Rest, Idle
  <2>3. /\ UNCHANGED <<mqtt_state, packet, hand, overrun, ping_timer, conn, state, stream, taken,
                       astray, cut, misread>>
        BY <2>1 DEF clientVars, netcVars, connVars, otherVars, bufferVars
  <2>4. (Sound' <=> Sound) /\ (Fetching' <=> Fetching) /\ (Consuming' <=> Consuming)
        BY <2>2, <2>3 DEF Sound, Fetching, Consuming
  <2>5. Start' = Start BY <2>3, <2>4, KeptAligned
  <2>6. \A x : Waiting(x) => Waiting(x)' BY <2>2 DEF Waiting
  <2> QED BY <2>2, <2>3, <2>4, <2>5, <2>6, KeptSession DEF Up
<1> QED BY <1>1, <1>2

LEMMA InitSession ==
    ASSUME Init
    PROVE  Session
BY DEF Init, Session, Live, Up

LEMMA AlwaysSession == AppIsApart => (Spec => [](IInv /\ Framing /\ Session))
<1>1. SUFFICES ASSUME AppIsApart PROVE Spec => [](IInv /\ Framing /\ Session) BY <1>1
<1>2. Init => IInv /\ Framing /\ Session BY InitInv, InitFraming, InitSession
<1>3. IInv /\ Framing /\ Session /\ [Next]_vars => (IInv /\ Framing /\ Session)'
      BY <1>1, NextInv, NextFraming, NextSession
<1> QED BY <1>2, <1>3, PTL DEF Spec

\* the answer to CONNECT has been read when and only when it has been handled
LEMMA AnsweredIsPassed ==
    ASSUME Types, Aligned, ~Fetching, ~Consuming,
           packet = <<>> \/ packet[1].size > Len(packet)
    PROVE  Answered <=> Passed
<1>1. /\ packet \in Seq(Pieces) /\ Len(packet) \in Nat
      BY LenProperties DEF Types, TypeOK
<1>2. /\ stream \in Seq(Pieces) /\ Len(stream) \in Nat /\ taken \in Nat
      /\ taken <= Len(stream)
      BY StreamType DEF Types
<1>3. InPackets(stream) BY StreamInPackets DEF Types
<1> DEFINE b == Start
           n == stream[1].size
<1>4. b \in Nat /\ Boundary(stream, b) /\ \A i \in 1 .. Len(packet) : packet[i] = stream[b + i]
      BY DEF Aligned
<1>5. taken = b + Len(packet)
  <2>1. b = taken - Len(packet) - 0 BY DEF Start
  <2> HIDE DEF b
  <2> QED BY <1>1, <1>2, <1>4, <2>1
<1>6. Passed <=> b > 0 BY DEF Passed
<1> HIDE DEF b
<1>7. CASE stream = <<>>
  <2>1. Len(stream) = 0 BY <1>7
  <2>2. b = 0 BY <1>1, <1>2, <1>4, <1>5, <2>1
  <2> QED BY <1>6, <1>7, <2>2 DEF Answered
<1>8. CASE stream # <<>>
  <2>1. Len(stream) > 0 BY <1>2, <1>8, EmptyIffShort
  <2>2. stream[1] \in Pieces BY <1>2, <2>1, ElementOfSeq
  <2>3. n \in Nat /\ n > 0 BY <2>2 DEF Pieces
  <2>4. Answered <=> taken >= n BY <1>8 DEF Answered
  <2>5. CASE b = 0
    <3>1. ~(taken >= n)
      <4>1. CASE packet = <<>>
        <5>1. Len(packet) = 0 BY <4>1
        <5> QED BY <1>5, <2>3, <2>5, <5>1
      <4>2. CASE packet # <<>>
        <5>1. Len(packet) > 0 BY <1>1, <4>2, EmptyIffShort
        <5>2. packet[1] = stream[1] BY <1>1, <1>4, <2>5, <5>1
        <5>3. n > Len(packet) BY <4>2, <5>2
        <5> QED BY <1>1, <1>5, <2>3, <2>5, <5>3
      <4> QED BY <4>1, <4>2
    <3> QED BY <1>6, <2>4, <2>5, <3>1
  <2>6. CASE b > 0
    <3>1. b >= n
      <4> SUFFICES ASSUME b < n PROVE FALSE BY <1>4, <2>3
      <4>1. b \in 1 .. n /\ 0 + b <= Len(stream) /\ 0 + b = b
            BY <1>1, <1>2, <1>4, <1>5, <2>3, <2>6
      <4>2. Boundary(stream, 0) BY DEF Boundary
      <4>3. 0 \in Nat /\ 0 < Len(stream) /\ n = stream[0 + 1].size BY <2>1
      <4> HIDE DEF n
      <4>4. \A k \in 1 .. n : 0 + k <= Len(stream) =>
                stream[0 + k].at = k /\ stream[0 + k].size = n
            BY <1>2, <1>3, <4>2, <4>3, PacketPieces
      <4>5. stream[b].at = b /\ stream[b].size = n BY <4>1, <4>4
      <4> QED BY <1>4, <2>6, <4>5 DEF Boundary
    <3>2. taken >= n BY <1>1, <1>5, <1>4, <2>3, <3>1
    <3> QED BY <1>6, <2>4, <2>6, <3>2
  <2> QED BY <1>4, <2>5, <2>6
<1> QED BY <1>7, <1>8

\* When no thread is in the client and there is a connection, mqtt_state is READY when and only
\* when the CONNACK of this connection has been read, the ping timer runs, and no packet of a
\* former connection or late close of it has changed that (luat_mqtt_callback,
\* luat_mqtt_msg_cb, luat_mqtt_close_socket).
THEOREM MqttSession == AppIsApart => (Spec => []SessionIsReal)
<1>1. ASSUME IInv, Framing, Session PROVE SessionIsReal
  <2> SUFFICES ASSUME Quiet, ~astray, Up, ~cut, ~misread
               PROVE  /\ mqtt_state = IF Answered THEN "READY" ELSE "MQTT"
                      /\ Answered => stream[1].kind = "CONNACK"
                      /\ ping_timer
      BY DEF SessionIsReal
  <2>1. Types /\ Shapes BY <1>1 DEF IInv
  <2>2. \A t \in Threads : Top(t) = "none" BY <2>1, Tops DEF Quiet
  <2>3. \A t \in Threads : Rest(t) = "none"
        BY <2>1, <2>2, Tops DEF Shape, LwipShape, UserShape, CloseSteps
  <2>4. Top("lwip") = "none" /\ Rest("lwip") = "none" /\ Top("app") = "none"
        BY <2>2, <2>3 DEF Threads
  <2>5. Sound /\ ~Fetching /\ ~Consuming
        BY <2>4 DEF Sound, Quiet, Fetching, Consuming
  <2>6. Live BY <2>2, <2>3 DEF Live, Waiting, Threads
  <2>7. Aligned BY <1>1, <2>4, <2>5 DEF Framing, Matches, Stale
  <2>8. packet = <<>> \/ packet[1].size > Len(packet)
        BY <1>1, <2>4, <2>5 DEF Framing, Partial
  <2>9. Answered <=> Passed BY <2>1, <2>5, <2>7, <2>8, AnsweredIsPassed
  <2> QED BY <1>1, <2>4, <2>5, <2>6, <2>9 DEF Session
<1> QED BY <1>1, AlwaysSession, PTL
=============================================================================
