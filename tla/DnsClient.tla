------------------------------ MODULE DnsClient ------------------------------
(***************************************************************************)
(* The DNS client (dns_client.c) and the part of the lwIP thread that      *)
(* drives it (luat_lwip_ec618.c).  A require is one call of network_dns;   *)
(* all requires for a name share one process, which asks the servers, one  *)
(* after the other, DNS_TRY_MAX times each, first for IPv6 addresses where *)
(* they are wanted, then for IPv4.                                         *)
(*                                                                         *)
(* Questions and answers are datagrams: they are lost, late, repeated and  *)
(* reordered.  A clock is not needed: a question that is out may become    *)
(* due at any time.  The lists are functions of the name and of the        *)
(* require: a list holds at most one process of a name.  Requires have     *)
(* numbers in the order of their messages, which is the order of both      *)
(* lists: a process stands where the require that began it does.           *)
(***************************************************************************)
EXTENDS Integers, FiniteSets

CONSTANTS
    Names,              \* domain names
    MaxRequires,        \* bound: calls of network_dns
    MayAsk,             \* bound: the names a require may be for
    MAX_DNS_SERVER, DNS_TRY_MAX,
    NoProcess,          \* no process of the list has the name
    MaxLosses           \* bound: how often the link is lost

Requires == 1 .. MaxRequires
Servers == 0 .. MAX_DNS_SERVER - 1

\* session: the identifier of its questions; owner: the require whose string is its
\* uri_buf; sent: timeout_ms is 0, ahead or past; server: dns_cnt; tried: the servers
\* it has asked (history); ips: the names whose addresses it has found
Processes == [session : Nat, owner : Requires, v6mode : BOOLEAN,
              v6 : BOOLEAN, v6done : BOOLEAN, sent : {"now", "waiting", "due"},
              retry : Nat, server : Servers, tried : SUBSET Servers,
              ips : SUBSET Names]

ASSUME DnsAssumption ==
    /\ MAX_DNS_SERVER \in Nat \ {0} /\ DNS_TRY_MAX \in Nat \ {0}
    /\ MaxRequires \in Nat /\ MaxLosses \in Nat
    /\ Names # {}
    /\ MayAsk \in [1 .. MaxRequires -> SUBSET Names]
    /\ NoProcess \notin Processes

VARIABLES
    process,            \* dns_client_t.process_head, by name
    require,            \* .require_head, and what became of its elements
    session_id, is_run, new_result,
    servers,            \* the indices of .dns_server that are configured
    timer,              \* dns_timer runs
    asked,              \* the questions sent so far: each may be answered at any time
    losses              \* how often netif_network_ready became 0

clientVars == <<process, require, session_id, is_run, new_result, timer, asked>>
vars == <<clientVars, servers, losses>>

\* in: where the require is.  In the mailbox it is a message for IPv4 or for IPv6; it is
\* "set" once its result is not 0, and lost if it is deleted without a callback
Messages == {"DNS", "DNS_IPV6"}
Places == {"none", "pending", "set", "answered", "lost"} \union Messages
Requirements == [in : Places, name : Names, ips : SUBSET Names]

Init ==
    /\ process = [n \in Names |-> NoProcess]
    /\ require = [r \in Requires |->
                    [in |-> "none", name |-> CHOOSE n \in Names : TRUE, ips |-> {}]]
    /\ session_id = 0 /\ is_run = FALSE /\ new_result = FALSE
    /\ servers \in SUBSET Servers
    /\ timer = FALSE
    /\ asked = {}
    /\ losses = 0

-----------------------------------------------------------------------------
(* The two lists.  proc and req are process and require at some point of the  *)
(* handling of a message.                                                     *)

Active(proc) == {n \in Names : proc[n] # NoProcess}
Listed(req) == {r \in Requires : req[r].in \in {"pending", "set"}}

\* mutant: only the require that began the process gets the result
SetOneResult(req, names, ips) ==
    [r \in Requires |->
        IF /\ req[r].in = "pending" /\ req[r].name \in names
           /\ \A s \in Requires : req[s].in = "pending" /\ req[s].name = req[r].name => s >= r
        THEN [req[r] EXCEPT !.in = "set", !.ips = ips[req[r].name]] ELSE req[r]]

\* dns_set_result for the processes of names, which found the addresses ips
SetResult(req, names, ips) ==
    [r \in Requires |->
        IF req[r].in = "pending" /\ req[r].name \in names
        THEN [req[r] EXCEPT !.in = "set", !.ips = ips[req[r].name]] ELSE req[r]]

\* net_lwip_dns_check_result for each require: those with a result are called back
Reported(req) ==
    [r \in Requires |->
        IF req[r].in = "set" THEN [req[r] EXCEPT !.in = "answered"] ELSE req[r]]

\* dns_clear: nobody is called back
Cleared(req) ==
    [r \in Requires |-> IF r \in Listed(req) THEN [req[r] EXCEPT !.in = "lost"] ELSE req[r]]

\* dns_run begins with this: only requires whose process has ended are left
Abandoned(proc, req) == Active(proc) = {} /\ Listed(req) # {}

\* mutant: every process asks with the same identifier
SameSession == 1

\* dns_get_session_id
NextSession == session_id + 1

-----------------------------------------------------------------------------
(* Asking: dns_run with out *)

Due(proc) == {n \in Active(proc) : proc[n].sent \in {"now", "due"}}

\* the question has been asked DNS_TRY_MAX times
LastTry(p) == p.sent = "due" /\ p.retry + 1 >= DNS_TRY_MAX

\* only IPv6 addresses were found, and they are good enough
OnlyV6(p) == LastTry(p) /\ p.v6mode /\ ~p.v6 /\ p.v6done /\ p.ips # {}

\* mutant: after the IPv4 question of an IPv6 look-up the server stays the same
AdvanceStays(p) ==
    CASE p.sent = "now" -> p
      [] p.sent # "now" /\ ~LastTry(p) -> [p EXCEPT !.retry = @ + 1]
      [] LastTry(p) /\ p.v6mode -> [p EXCEPT !.retry = 0, !.v6 = ~ @]
      [] OTHER -> [p EXCEPT !.retry = 0, !.server = @ + 1]

\* what to ask next: the same again, IPv4 after IPv6, or the next server
Advance(p) ==
    CASE p.sent = "now" -> p
      [] p.sent # "now" /\ ~LastTry(p) -> [p EXCEPT !.retry = @ + 1]
      [] LastTry(p) /\ p.v6mode /\ p.v6 -> [p EXCEPT !.retry = 0, !.v6 = FALSE]
      [] OTHER -> [p EXCEPT !.retry = 0, !.v6 = p.v6mode, !.server = @ + 1]

\* mutant: the first server is left out when the next one is looked for
UsableNext(p) == {i \in servers : i >= Advance(p).server /\ i > 0}

\* the servers it may still ask, those that are not configured left out
Usable(p) == {i \in servers : i >= Advance(p).server}

\* it ends here, without an IPv4 answer
GivesUp(p) == OnlyV6(p) \/ Usable(p) = {}

\* mutant: the next question goes to the next server
AskingNext(p) ==
    LET i == CHOOSE i \in Usable(p) : \A j \in Usable(p) : i <= j
    IN  [Advance(p) EXCEPT !.sent = "waiting", !.server = i + 1, !.tried = @ \union {i}]

\* the process as it is once dns_make has made its question
Asking(p) ==
    LET i == CHOOSE i \in Usable(p) : \A j \in Usable(p) : i <= j
    IN  [Advance(p) EXCEPT !.sent = "waiting", !.server = i, !.tried = @ \union {i}]

\* the addresses a process that gives up reports: none when no server is left
Left(p) == IF OnlyV6(p) THEN p.ips ELSE {}

\* the first due process that does not give up asks, if there is one
Asks(proc) ==
    LET able == {n \in Due(proc) : ~GivesUp(proc[n])}
    IN  {n \in able : \A m \in able : proc[n].owner <= proc[m].owner}

\* the due processes before it give up, or all
Over(proc) ==
    {n \in Due(proc) \ Asks(proc) : \A m \in Asks(proc) : proc[n].owner < proc[m].owner}

\* dns_run with out, and what its caller does with the results.  exhausted is the
\* flag new_result after it; the results are reported if a question was sent, and
\* net_lwip_dns_tx_next (tx) reports them when new_result is set, too.  What dns_clear
\* finds is not called back
RunOut(proc, req, tx) ==
    \/ /\ Abandoned(proc, req)
       /\ process' = proc
       /\ require' = Cleared(req)
       /\ is_run' = FALSE
       /\ new_result' = (new_result /\ ~tx)
       /\ UNCHANGED asked
    \/ /\ ~Abandoned(proc, req)
       /\ LET over == Over(proc)
              ask == Asks(proc)
              result == SetResult(req, over, [n \in Names |-> Left(proc[n])])
              exhausted == new_result \/ \E n \in over : ~OnlyV6(proc[n])
          IN
          /\ process' = [n \in Names |->
                           IF n \in over THEN NoProcess
                           ELSE IF n \in ask THEN Asking(proc[n]) ELSE proc[n]]
          /\ asked' = asked \union {[session |-> proc[n].session, name |-> n] : n \in ask}
          /\ is_run' = (Active(process') # {} \/ Listed(result) # {})
          /\ \/ /\ ask # {} \/ (tx /\ exhausted)
                /\ require' = Reported(result)
                /\ new_result' = (exhausted /\ ~tx)
             \/ /\ ask = {} /\ ~(tx /\ exhausted)
                /\ require' = result
                /\ new_result' = exhausted

-----------------------------------------------------------------------------
(* What makes the lwIP thread run the client *)

\* net_lwip_dns, net_lwip_dns_ipv6: without an IPv6 address of its own the modem asks
\* for IPv4 alone
PostRequire(r) ==
    /\ \A s \in Requires : require[s].in = "none" <=> s >= r
    /\ \E n \in MayAsk[r], message \in Messages :
          require' = [require EXCEPT ![r].in = message, ![r].name = n]
    /\ UNCHANGED <<process, session_id, is_run, new_result, timer, asked, servers, losses>>

\* the process dns_require_ipv6 makes for a require
NewProcess(r) ==
    LET v6 == require[r].in = "DNS_IPV6"
    IN  [session |-> NextSession, owner |-> r, v6mode |-> v6, v6 |-> v6, v6done |-> FALSE,
         sent |-> "now", retry |-> 0, server |-> 0, tried |-> {}, ips |-> {}]

\* EV_LWIP_SOCKET_DNS, EV_LWIP_SOCKET_DNS_IPV6: dns_require_ipv6 and net_lwip_dns_tx_next
TakeRequire(r) ==
    /\ require[r].in \in Messages
    /\ \A s \in Requires : require[s].in \in Messages => s >= r
    /\ LET n == require[r].name
           req == [require EXCEPT ![r].in = "pending"]
       IN
       \/ n \in Active(process) /\ RunOut(process, req, TRUE) /\ UNCHANGED session_id
       \/ /\ n \notin Active(process)
          /\ RunOut([process EXCEPT ![n] = NewProcess(r)], req, TRUE)
          /\ session_id' = NextSession
    /\ timer' = (timer \/ ~is_run)
    /\ UNCHANGED <<servers, losses>>

\* mutant: the timer runs only as long as there are processes
StopTimerEarly == timer' = (timer /\ Active(process') # {})

\* the end of EV_LWIP_COMMON_TIMER and of net_lwip_dns_recv_cb
StopTimer == timer' = (timer /\ is_run')

\* the timer, and EV_LWIP_COMMON_TIMER
Tick ==
    /\ timer
    /\ RunOut(process, require, TRUE)
    /\ StopTimer
    /\ UNCHANGED <<session_id, servers, losses>>

\* timeout_ms of a process passes
Expire(n) ==
    /\ n \in Active(process) /\ process[n].sent = "waiting"
    /\ process' = [process EXCEPT ![n].sent = "due"]
    /\ UNCHANGED <<require, session_id, is_run, new_result, timer, asked, servers, losses>>

\* it has asked for IPv6 addresses, and asks for IPv4 next
ToV4(p) == p.v6mode /\ p.v6

\* dns_get_ip for a complete answer with the addresses found: on to IPv4 with a new
\* session, or the end
Continued(p, found) ==
    [p EXCEPT !.ips = @ \union found, !.v6done = TRUE, !.v6 = FALSE, !.sent = "now",
              !.retry = 0, !.session = NextSession]

\* net_lwip_dns_recv_cb, first half: an answer for process n.  One that is cut short
\* leaves its addresses and changes nothing else
RunIn(n, found) ==
    \/ /\ ToV4(process[n])
       /\ RunOut([process EXCEPT ![n] = Continued(process[n], found)], Reported(require),
                 FALSE)
       /\ session_id' = NextSession
    \/ /\ ~ToV4(process[n])
       /\ RunOut([process EXCEPT ![n] = NoProcess],
                 Reported(SetResult(require, {n}, [m \in Names |->
                                                     process[n].ips \union found])), FALSE)
       /\ UNCHANGED session_id
    \/ /\ RunOut([process EXCEPT ![n].ips = @ \union found], Reported(require), FALSE)
       /\ UNCHANGED session_id

\* net_lwip_dns_recv_cb: dns_run with the answer, its results are reported, and dns_run
\* asks the next question.  The answer to q has the address of its name, or none that
\* counts: no address, an expired one, or a list that is full
Receive(q) ==
    /\ ~Abandoned(process, require)
    /\ \E n \in Active(process) :
          /\ process[n].session = q.session
          /\ \E found \in SUBSET {q.name} : RunIn(n, found)
    /\ StopTimer
    /\ UNCHANGED <<servers, losses>>

\* net_lwip_dns_recv_cb with an error, or an answer to no process of the list
Ignore ==
    /\ asked # {}
    /\ \/ Abandoned(process, require) /\ RunOut(process, Cleared(require), FALSE)
       \/ ~Abandoned(process, require) /\ RunOut(process, Reported(require), FALSE)
    /\ StopTimer
    /\ UNCHANGED <<session_id, servers, losses>>

\* net_lwip_check_network_ready: the link is lost.  When it comes back the client is as
\* it was
LinkLost ==
    /\ losses < MaxLosses
    /\ losses' = losses + 1
    /\ process' = [n \in Names |-> NoProcess]
    /\ require' = Cleared(require)
    /\ is_run' = FALSE
    /\ UNCHANGED <<session_id, new_result, timer, asked, servers>>

-----------------------------------------------------------------------------
Next ==
    \/ \E r \in Requires : PostRequire(r) \/ TakeRequire(r)
    \/ Tick
    \/ \E n \in Names : Expire(n)
    \/ \E q \in asked : Receive(q)
    \/ Ignore
    \/ LinkLost

Spec == Init /\ [][Next]_vars

\* The lwIP thread takes what is in its mailbox, the timer fires while it runs, and
\* time passes.  No datagram has to arrive.
FairSpec ==
    /\ Spec
    /\ WF_vars(Tick)
    /\ WF_vars(\E r \in Requires : TakeRequire(r))
    /\ WF_vars(\E n \in Names : Expire(n))
-----------------------------------------------------------------------------
(* Properties *)

\* Every variable keeps its type.
TypeOK ==
    /\ process \in [Names -> Processes \union {NoProcess}]
    /\ require \in [Requires -> Requirements]
    /\ session_id \in Nat
    /\ {is_run, new_result, timer} \subseteq BOOLEAN
    /\ servers \subseteq Servers
    /\ asked \subseteq [session : Nat, name : Names]
    /\ losses \in 0 .. MaxLosses

\* A require gets addresses of its own name, whatever answers of earlier look-ups are
\* still on the way when the questions of a later one are out.
AnswerIsForItsName ==
    \A r \in Requires : require[r].ips \subseteq {require[r].name}

\* A require without a result is never left behind: a process works for its name.  And
\* a process reads its name in the string of the require that began it (uri_buf),
\* which is freed with that require: it is still there.
PendingHasProcess ==
    /\ \A r \in Requires : require[r].in = "pending" => process[require[r].name] # NoProcess
    /\ \A n \in Names : process[n] # NoProcess =>
        /\ require[process[n].owner].in = "pending"
        /\ require[process[n].owner].name = n

\* While a look-up is not reported, something will run the client: the timer runs.
TimerRuns == (Active(process) # {} \/ Listed(require) # {}) => timer

\* Only an answer to its own question, or the loss of the link, ends a look-up without
\* an address before every server has been asked.
GivesUpExhausted ==
    [][\A n \in Names :
          LET p == process[n]
          IN  p # NoProcess /\ p.ips = {} /\ ~(servers \subseteq p.tried)
              /\ process'[n] = NoProcess
              => LinkLost \/ \E q \in asked : q.session = p.session /\ Receive(q)]_vars

\* Every look-up ends, though no server answers: it is reported, or lost.  Lost are
\* those the link is lost under, and those whose result nobody reports (OnlyV6 in
\* RunOut, and a process that gives up in the second half of net_lwip_dns_recv_cb).
LookupEnds ==
    \A r \in Requires : require[r].in \in Messages ~> require[r].in \in {"answered", "lost"}
=============================================================================
