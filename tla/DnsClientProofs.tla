--------------------------- MODULE DnsClientProofs ---------------------------
(***************************************************************************)
(* Theorems about DnsClient, for every number of names, requires, servers  *)
(* and tries: types, that a require gets addresses of its own name only,   *)
(* that a process works for every require, that the string it reads is     *)
(* alive, that the timer runs while there is work, and that a look-up does *)
(* not give up before every server was asked.                              *)
(***************************************************************************)
EXTENDS DnsClient, WellFoundedInduction, TLAPS

\* the process of n: its identifier is its own, and so are the questions asked with it
Own(proc, n, sid, qs) ==
    /\ proc[n].session <= sid
    /\ proc[n].ips \subseteq {n}
    /\ \A m \in Names : proc[m] # NoProcess /\ proc[m].session = proc[n].session => m = n
    /\ \A q \in qs : q.session = proc[n].session => q.name = n

\* the lists proc and req fit each other and the questions qs
Fit(proc, req, sid, qs) ==
    /\ proc \in [Names -> Processes \union {NoProcess}]
    /\ req \in [Requires -> Requirements]
    /\ qs \subseteq [session : Nat, name : Names]
    /\ \A r \in Requires : req[r].in = "pending" => proc[req[r].name] # NoProcess
    /\ \A n \in Names : proc[n] # NoProcess =>
          req[proc[n].owner].in = "pending" /\ req[proc[n].owner].name = n
    /\ \A n \in Names : proc[n] # NoProcess => Own(proc, n, sid, qs)
    /\ \A q \in qs : q.session <= sid
    /\ \A r \in Requires : /\ req[r].ips \subseteq {req[r].name}
                           /\ req[r].in = "none" => req[r].ips = {}

\* there is work only while the client runs, and it runs only while the timer does
Running ==
    /\ Active(process) # {} \/ Listed(require) # {} => is_run
    /\ is_run => timer

\* the inductive invariant
DnsInv ==
    /\ Fit(process, require, session_id, asked)
    /\ Running
    /\ session_id \in Nat
    /\ is_run \in BOOLEAN /\ new_result \in BOOLEAN /\ timer \in BOOLEAN
    /\ servers \subseteq Servers
    /\ losses \in 0 .. MaxLosses

-----------------------------------------------------------------------------
(* The operators *)

\* A set of natural numbers has a smallest element.
LEMMA LeastNatural ==
    ASSUME NEW T, T \subseteq Nat, T # {}
    PROVE  \E i \in T : \A j \in T : i <= j
<1>2. \E i \in T : \A j \in T : ~ (<<j, i>> \in OpToRel(<, Nat))
      BY NatLessThanWellFounded, WFMin
<1>3. \A i, j \in Nat : <<j, i>> \in OpToRel(<, Nat) <=> j < i
      BY DEF OpToRel
<1>4. PICK i \in T : \A j \in T : ~ (<<j, i>> \in OpToRel(<, Nat)) BY <1>2
<1>5. ASSUME NEW j \in T PROVE i <= j
  <2>1. i \in Nat /\ j \in Nat OBVIOUS
  <2>2. ~ (j < i) BY <1>3, <1>4, <2>1
  <2> QED BY <2>1, <2>2
<1> QED BY <1>5

\* A set of server numbers has a smallest element.
LEMMA LeastServer ==
    ASSUME NEW T, T \subseteq Servers, T # {}
    PROVE  \E i \in T : \A j \in T : i <= j
<1>1. T \subseteq Nat BY DnsAssumption DEF Servers
<1> QED BY <1>1, LeastNatural

\* a process, with a server that may be one too far
Wide == [session : Nat, owner : Requires, v6mode : BOOLEAN,
         v6 : BOOLEAN, v6done : BOOLEAN, sent : {"now", "waiting", "due"},
         retry : Nat, server : Int, tried : SUBSET Servers, ips : SUBSET Names]

LEMMA AdvanceKeeps ==
    ASSUME NEW p \in Wide
    PROVE  /\ Advance(p) \in Wide
           /\ Advance(p).session = p.session
           /\ Advance(p).owner = p.owner
           /\ Advance(p).ips = p.ips
<1>1. p.retry + 1 \in Nat /\ p.server + 1 \in Int /\ p.v6mode \in BOOLEAN BY DEF Wide
<1>2. CASE p.sent = "now"
  <2>1. Advance(p) = p BY <1>2 DEF Advance, LastTry
  <2> QED BY <2>1
<1>3. CASE p.sent # "now" /\ ~LastTry(p)
  <2>1. Advance(p) = [p EXCEPT !.retry = p.retry + 1] BY <1>3 DEF Advance, LastTry
  <2> QED BY <2>1 DEF Wide
<1>4. CASE LastTry(p) /\ p.v6mode /\ p.v6
  <2> DEFINE q == [p EXCEPT !.retry = 0, !.v6 = FALSE]
  <2>1. Advance(p) = q BY <1>4 DEF Advance, LastTry
  <2>2. q \in Wide BY DEF Wide
  <2>3. q.session = p.session /\ q.owner = p.owner /\ q.ips = p.ips BY DEF Wide
  <2> HIDE DEF q
  <2> QED BY <2>1, <2>2, <2>3
<1>5. CASE LastTry(p) /\ ~(p.v6mode /\ p.v6)
  <2> DEFINE q == [p EXCEPT !.retry = 0, !.v6 = p.v6mode, !.server = p.server + 1]
  <2>1. Advance(p) = q BY <1>5 DEF Advance, LastTry
  <2>2. q \in Wide
    <3>1. \A v \in BOOLEAN, x \in Int : [p EXCEPT !.retry = 0, !.v6 = v, !.server = x] \in Wide
          BY DEF Wide
    <3> QED BY <1>1, <3>1, Zenon
  <2>3. q.session = p.session /\ q.owner = p.owner /\ q.ips = p.ips BY DEF Wide
  <2> HIDE DEF q
  <2> QED BY <2>1, <2>2, <2>3
<1>6. p.sent = "now" => ~LastTry(p) BY DEF LastTry
<1> QED BY <1>2, <1>3, <1>4, <1>5, <1>6

\* A process that asks stays a process of the same identifier, owner and addresses.
LEMMA AskingKeeps ==
    ASSUME servers \subseteq Servers, NEW p \in Processes, Usable(p) # {}
    PROVE  /\ Asking(p) \in Processes
           /\ Asking(p).session = p.session
           /\ Asking(p).owner = p.owner
           /\ Asking(p).ips = p.ips
<1> DEFINE i == CHOOSE i \in Usable(p) : \A j \in Usable(p) : i <= j
           q == Advance(p)
<1>1. Usable(p) \subseteq Servers BY DEF Usable
<1>2. i \in Servers BY <1>1, LeastServer
<1>3. p \in Wide BY DnsAssumption DEF Processes, Wide, Servers
<1>4. q \in Wide /\ q.session = p.session /\ q.owner = p.owner /\ q.ips = p.ips
      BY <1>3, AdvanceKeeps
<1>5. Asking(p) = [q EXCEPT !.sent = "waiting", !.server = i, !.tried = @ \union {i}]
      BY DEF Asking
<1> HIDE DEF i, q
<1> DEFINE w == [q EXCEPT !.sent = "waiting", !.server = i, !.tried = @ \union {i}]
<1>6. w \in Processes BY <1>2, <1>4 DEF Processes, Wide
<1>7. w.session = q.session /\ w.owner = q.owner /\ w.ips = q.ips BY <1>4 DEF Wide
<1> HIDE DEF w
<1> QED BY <1>4, <1>5, <1>6, <1>7 DEF w

\* Results and callbacks only move requires from one place to the next, and give a
\* require that gets its result the addresses of its name.
LEMMA SetResultKeeps ==
    ASSUME NEW req \in [Requires -> Requirements], NEW names \in SUBSET Names, NEW ips,
           \A n \in names : ips[n] \in SUBSET Names
    PROVE  /\ SetResult(req, names, ips) \in [Requires -> Requirements]
           /\ \A r \in Requires :
                 /\ SetResult(req, names, ips)[r].name = req[r].name
                 /\ SetResult(req, names, ips)[r].in = "none" <=> req[r].in = "none"
                 /\ SetResult(req, names, ips)[r].in = "pending"
                       <=> req[r].in = "pending" /\ req[r].name \notin names
                 /\ SetResult(req, names, ips)[r].ips =
                       IF req[r].in = "pending" /\ req[r].name \in names
                       THEN ips[req[r].name] ELSE req[r].ips
BY DEF SetResult, Requirements, Places, Messages

LEMMA ReportedKeeps ==
    ASSUME NEW req \in [Requires -> Requirements]
    PROVE  /\ Reported(req) \in [Requires -> Requirements]
           /\ Listed(Reported(req)) \subseteq Listed(req)
           /\ \A r \in Requires :
                 /\ Reported(req)[r].name = req[r].name
                 /\ Reported(req)[r].ips = req[r].ips
                 /\ Reported(req)[r].in = "pending" <=> req[r].in = "pending"
                 /\ Reported(req)[r].in = "none" <=> req[r].in = "none"
BY DEF Reported, Listed, Requirements, Places, Messages

LEMMA ClearedKeeps ==
    ASSUME NEW req \in [Requires -> Requirements]
    PROVE  /\ Cleared(req) \in [Requires -> Requirements]
           /\ Listed(Cleared(req)) = {}
           /\ \A r \in Requires :
                 /\ Cleared(req)[r].name = req[r].name
                 /\ Cleared(req)[r].ips = req[r].ips
                 /\ Cleared(req)[r].in # "pending"
                 /\ Cleared(req)[r].in = "none" <=> req[r].in = "none"
BY DEF Cleared, Listed, Requirements, Places, Messages

\* What reports results keeps the lists fitting; so does clearing, without processes.
LEMMA FitReported ==
    ASSUME NEW proc, NEW req, NEW sid, NEW qs, Fit(proc, req, sid, qs)
    PROVE  Fit(proc, Reported(req), sid, qs)
<1>1. req \in [Requires -> Requirements] BY DEF Fit
<1>2. \A n \in Names : proc[n] # NoProcess => proc[n].owner \in Requires
      BY DEF Fit, Processes
<1> QED BY <1>1, <1>2, ReportedKeeps DEF Fit

LEMMA FitCleared ==
    ASSUME NEW proc, NEW req, NEW sid, NEW qs, Fit(proc, req, sid, qs), Active(proc) = {}
    PROVE  Fit(proc, Cleared(req), sid, qs)
<1>1. req \in [Requires -> Requirements] BY DEF Fit
<1>2. \A n \in Names : proc[n] = NoProcess BY DEF Active
<1> QED BY <1>1, <1>2, ClearedKeeps DEF Fit

\* When the processes of names end and their requires get addresses of their name, the
\* lists go on fitting.
LEMMA FitEnded ==
    ASSUME NEW proc, NEW req, NEW sid, NEW qs, Fit(proc, req, sid, qs),
           NEW names \in SUBSET Names, NEW ips, \A n \in names : ips[n] \subseteq {n}
    PROVE  Fit([n \in Names |-> IF n \in names THEN NoProcess ELSE proc[n]],
               SetResult(req, names, ips), sid, qs)
<1> DEFINE proc2 == [n \in Names |-> IF n \in names THEN NoProcess ELSE proc[n]]
           req2 == SetResult(req, names, ips)
<1>1. /\ req \in [Requires -> Requirements]
      /\ proc \in [Names -> Processes \union {NoProcess}]
      BY DEF Fit
<1>2. /\ req2 \in [Requires -> Requirements]
      /\ \A r \in Requires :
            /\ req2[r].name = req[r].name
            /\ req2[r].in = "none" <=> req[r].in = "none"
            /\ req2[r].in = "pending" <=> req[r].in = "pending" /\ req[r].name \notin names
            /\ req2[r].ips = IF req[r].in = "pending" /\ req[r].name \in names
                             THEN ips[req[r].name] ELSE req[r].ips
      BY <1>1, SetResultKeeps
<1>3. proc2 \in [Names -> Processes \union {NoProcess}] BY <1>1
<1>4. \A n \in Names : proc2[n] # NoProcess =>
         n \notin names /\ proc2[n] = proc[n] /\ proc[n].owner \in Requires
      BY <1>1 DEF Processes
<1>5. \A r \in Requires : req[r].name \in Names BY <1>1 DEF Requirements
<1>6. \A r \in Requires : req2[r].in = "pending" => proc2[req2[r].name] # NoProcess
      BY <1>2, <1>5 DEF Fit
<1>7. \A n \in Names : proc2[n] # NoProcess =>
         req2[proc2[n].owner].in = "pending" /\ req2[proc2[n].owner].name = n
      BY <1>2, <1>4 DEF Fit
<1>8. \A n \in Names : proc2[n] # NoProcess => Own(proc2, n, sid, qs)
      BY <1>4 DEF Fit, Own
<1>9. \A r \in Requires : req2[r].ips \subseteq {req2[r].name}
      BY <1>2 DEF Fit
<1>10. \A r \in Requires : req2[r].in = "none" => req2[r].ips = {}
       BY <1>2 DEF Fit
<1> HIDE DEF proc2, req2
<1>11. Fit(proc2, req2, sid, qs)
       BY <1>2, <1>3, <1>6, <1>7, <1>8, <1>9, <1>10 DEF Fit
<1> QED BY <1>11 DEF proc2, req2

\* Processes that keep identifier, owner and addresses go on fitting, and some of them
\* may ask.
LEMMA FitAsked ==
    ASSUME NEW proc, NEW req, NEW sid, NEW qs, Fit(proc, req, sid, qs),
           NEW proc2 \in [Names -> Processes \union {NoProcess}],
           \A n \in Names :
              /\ proc2[n] = NoProcess <=> proc[n] = NoProcess
              /\ proc[n] # NoProcess =>
                    /\ proc2[n].session = proc[n].session
                    /\ proc2[n].owner = proc[n].owner
                    /\ proc2[n].ips = proc[n].ips,
           NEW ask, ask \subseteq Active(proc)
    PROVE  Fit(proc2, req, sid,
               qs \union {[session |-> proc[n].session, name |-> n] : n \in ask})
<1> DEFINE new == {[session |-> proc[n].session, name |-> n] : n \in ask}
<1>1. \A n \in ask : n \in Names /\ proc[n] # NoProcess /\ proc[n] \in Processes
      BY DEF Active, Fit
<1>2. \A q \in new : /\ q \in [session : Nat, name : Names]
                     /\ proc[q.name] # NoProcess
                     /\ q.session = proc[q.name].session
      BY <1>1 DEF Processes
<1>3. \A q \in new : q.session <= sid
      BY <1>2 DEF Fit, Own
<1>4. \A n \in Names : proc2[n] # NoProcess => Own(proc2, n, sid, qs \union new)
  <2> SUFFICES ASSUME NEW n \in Names, proc2[n] # NoProcess
               PROVE  Own(proc2, n, sid, qs \union new)
      OBVIOUS
  <2>1. Own(proc, n, sid, qs) BY DEF Fit
  <2>2. \A q \in new : q.session = proc[n].session => q.name = n
        BY <1>2, <2>1 DEF Own
  <2> HIDE DEF new
  <2> QED BY <2>1, <2>2 DEF Own
<1> HIDE DEF new
<1>5. \A r \in Requires : req[r].in = "pending" => proc2[req[r].name] # NoProcess
  <2>1. \A r \in Requires : req[r].name \in Names BY DEF Fit, Requirements
  <2> QED BY <2>1 DEF Fit
<1>6. \A n \in Names : proc2[n] # NoProcess =>
         req[proc2[n].owner].in = "pending" /\ req[proc2[n].owner].name = n
      BY DEF Fit
<1>7. qs \union new \subseteq [session : Nat, name : Names] BY <1>2 DEF Fit
<1>8. \A q \in qs \union new : q.session <= sid BY <1>3 DEF Fit
<1>9. Fit(proc2, req, sid, qs \union new)
      BY <1>4, <1>5, <1>6, <1>7, <1>8 DEF Fit
<1> QED BY <1>9 DEF new

\* dns_run with out, wherever it is called, keeps the lists fitting and is_run right.
LEMMA RunOutKeeps ==
    ASSUME NEW proc, NEW req, NEW sid, NEW tx \in BOOLEAN,
           Fit(proc, req, sid, asked), servers \subseteq Servers, new_result \in BOOLEAN,
           RunOut(proc, req, tx)
    PROVE  /\ Fit(process', require', sid, asked')
           /\ is_run' \in BOOLEAN /\ new_result' \in BOOLEAN
           /\ Active(process') # {} \/ Listed(require') # {} => is_run'
           /\ is_run' => Active(proc) # {} \/ Listed(req) # {}
<1>0. proc \in [Names -> Processes \union {NoProcess}] /\ req \in [Requires -> Requirements]
      BY DEF Fit
<1>1. CASE Abandoned(proc, req)
  <2>1. /\ process' = proc /\ require' = Cleared(req) /\ asked' = asked
        /\ is_run' = FALSE /\ new_result' = (new_result /\ ~tx) /\ Active(proc) = {}
        BY <1>1 DEF RunOut, Abandoned
  <2>2. Fit(process', require', sid, asked') BY <2>1, FitCleared
  <2>3. Active(process') = {} /\ Listed(require') = {} BY <1>0, <2>1, ClearedKeeps
  <2> QED BY <2>1, <2>2, <2>3
<1>2. CASE ~Abandoned(proc, req)
  <2> DEFINE over == Over(proc)
             ask == Asks(proc)
             ips == [n \in Names |-> Left(proc[n])]
             result == SetResult(req, over, ips)
             ended == [n \in Names |-> IF n \in over THEN NoProcess ELSE proc[n]]
             new == {[session |-> proc[n].session, name |-> n] : n \in ask}
             new2 == {[session |-> ended[n].session, name |-> n] : n \in ask}
  <2>1. /\ process' = [n \in Names |-> IF n \in over THEN NoProcess
                                      ELSE IF n \in ask THEN Asking(proc[n]) ELSE proc[n]]
        /\ asked' = asked \union new
        /\ is_run' = (Active(process') # {} \/ Listed(result) # {})
        /\ require' = result \/ require' = Reported(result)
        /\ new_result' \in BOOLEAN
        BY <1>2 DEF RunOut
  <2>2. /\ over \subseteq Active(proc) /\ ask \subseteq Active(proc)
        /\ over \intersect ask = {}
        /\ \A n \in ask : Usable(proc[n]) # {}
        BY DEF Over, Asks, Due, GivesUp
  <2>3. \A n \in Names : n \in Active(proc) <=> proc[n] # NoProcess BY DEF Active
  <2>4. over \subseteq Names /\ ask \subseteq Names BY <2>2 DEF Active
  <2>5. \A n \in over : ips[n] \subseteq {n}
        BY <2>2, <2>3, <2>4 DEF Left, Fit, Own
  <2> HIDE DEF over, ask, ips
  <2>6. Fit(ended, result, sid, asked) BY <2>4, <2>5, FitEnded
  <2>7. \A n \in ask : /\ proc[n] \in Processes
                       /\ Asking(proc[n]) \in Processes
                       /\ Asking(proc[n]).session = proc[n].session
                       /\ Asking(proc[n]).owner = proc[n].owner
                       /\ Asking(proc[n]).ips = proc[n].ips
    <3> SUFFICES ASSUME NEW n \in ask
                 PROVE  /\ proc[n] \in Processes
                        /\ Asking(proc[n]) \in Processes
                        /\ Asking(proc[n]).session = proc[n].session
                        /\ Asking(proc[n]).owner = proc[n].owner
                        /\ Asking(proc[n]).ips = proc[n].ips
        OBVIOUS
    <3>1. proc[n] \in Processes BY <1>0, <2>2, <2>3, <2>4
    <3> QED BY <2>2, <3>1, AskingKeeps
  <2>8. process' \in [Names -> Processes \union {NoProcess}] BY <1>0, <2>1, <2>7
  <2>9. \A n \in Names :
           /\ process'[n] = NoProcess <=> ended[n] = NoProcess
           /\ ended[n] # NoProcess =>
                 /\ process'[n].session = ended[n].session
                 /\ process'[n].owner = ended[n].owner
                 /\ process'[n].ips = ended[n].ips
        BY <2>1, <2>2, <2>7, DnsAssumption
  <2>10. ask \subseteq Active(ended) BY <2>2, <2>3, <2>4 DEF Active
  <2>11. new2 = new BY <2>2, <2>4
  <2> HIDE DEF ended, result, new, new2
  <2>12. Fit(process', result, sid, asked \union new2)
         BY <2>6, <2>8, <2>9, <2>10, FitAsked DEF new2
  <2>13. Fit(process', result, sid, asked') BY <2>1, <2>11, <2>12
  <2>14. Fit(process', require', sid, asked') BY <2>1, <2>13, FitReported
  <2>15. Listed(require') \subseteq Listed(result)
         BY <2>1, <2>13, ReportedKeeps DEF Fit
  <2>16. Active(process') \subseteq Active(proc)
    <3>1. \A n \in Names : process'[n] # NoProcess => proc[n] # NoProcess
          BY <2>1, <2>2, <2>3
    <3> QED BY <3>1 DEF Active
  <2>17. Listed(result) \subseteq Listed(req)
         BY DEF result, SetResult, Listed
  <2> QED BY <2>1, <2>14, <2>15, <2>16, <2>17
<1> QED BY <1>1, <1>2

-----------------------------------------------------------------------------
(* The steps *)

LEMMA DnsInit == Init => DnsInv
<1> SUFFICES ASSUME Init PROVE DnsInv OBVIOUS
<1>1. \A n \in Names : process[n] = NoProcess BY DEF Init
<1>2. (CHOOSE n \in Names : TRUE) \in Names BY DnsAssumption
<1>3. require \in [Requires -> Requirements]
      BY <1>2 DEF Init, Requirements, Places, Messages
<1>4. \A r \in Requires : require[r].in = "none" /\ require[r].ips = {} BY DEF Init
<1>5. Fit(process, require, session_id, asked)
      BY <1>1, <1>3, <1>4 DEF Fit, Init
<1>6. Active(process) = {} /\ Listed(require) = {}
      BY <1>1, <1>4 DEF Active, Listed
<1>7. losses \in 0 .. MaxLosses BY DnsAssumption DEF Init
<1> QED BY <1>5, <1>6, <1>7 DEF DnsInv, Running, Init

LEMMA StepPostRequire ==
    ASSUME DnsInv, NEW r \in Requires, PostRequire(r)
    PROVE  DnsInv'
<1>1. PICK n \in MayAsk[r], m \in Messages :
         require' = [require EXCEPT ![r].in = m, ![r].name = n]
      BY DEF PostRequire
<1>2. n \in Names BY DnsAssumption DEF Requires
<1>3. require \in [Requires -> Requirements] BY DEF DnsInv, Fit
<1>4. require[r].in = "none" /\ require[r].ips = {}
  <2>1. r >= r BY DnsAssumption DEF Requires
  <2>2. require[r].in = "none" BY <2>1 DEF PostRequire
  <2> QED BY <2>2 DEF DnsInv, Fit
<1>5. /\ require' \in [Requires -> Requirements]
      /\ require'[r].in = m /\ require'[r].ips = {}
      /\ \A s \in Requires : s # r => require'[s] = require[s]
      BY <1>1, <1>2, <1>3, <1>4 DEF Requirements, Places
<1>6. m \notin {"none", "pending", "set"} BY DEF Messages
<1>7. \A n2 \in Names : process[n2] # NoProcess => process[n2].owner \in Requires
      BY DEF DnsInv, Fit, Processes
<1>8. Listed(require') = Listed(require) BY <1>4, <1>5, <1>6 DEF Listed
<1>9. Fit(process, require', session_id, asked)
      BY <1>4, <1>5, <1>6, <1>7 DEF DnsInv, Fit
<1> QED BY <1>8, <1>9 DEF DnsInv, Running, PostRequire

LEMMA StepTakeRequire ==
    ASSUME DnsInv, NEW r \in Requires, TakeRequire(r)
    PROVE  DnsInv'
<1> DEFINE n == require[r].name
           req == [require EXCEPT ![r].in = "pending"]
           proc == [process EXCEPT ![n] = NewProcess(r)]
<1>1. /\ require \in [Requires -> Requirements]
      /\ process \in [Names -> Processes \union {NoProcess}]
      /\ asked \subseteq [session : Nat, name : Names]
      /\ session_id \in Nat
      BY DEF DnsInv, Fit
<1>2. n \in Names BY <1>1 DEF Requirements
<1>3. /\ req \in [Requires -> Requirements]
      /\ req[r].in = "pending" /\ req[r].name = n /\ req[r].ips = require[r].ips
      /\ \A s \in Requires : s # r => req[s] = require[s]
      BY <1>1 DEF Requirements, Places
<1>4. require[r].in # "pending" BY DEF TakeRequire, Messages
<1>5. \A m \in Names : process[m] # NoProcess =>
         process[m].owner \in Requires \ {r}
      BY <1>1, <1>4 DEF DnsInv, Fit, Processes
<1>6. UNCHANGED <<servers, losses>> /\ timer' = (timer \/ ~is_run) BY DEF TakeRequire
<1>7. CASE n \in Active(process) /\ RunOut(process, req, TRUE) /\ UNCHANGED session_id
  <2>1. process[n] # NoProcess BY <1>7 DEF Active
  <2>2. Fit(process, req, session_id, asked)
        BY <1>3, <1>5, <2>1 DEF DnsInv, Fit
  <2> HIDE DEF req
  <2>3. /\ Fit(process', require', session_id, asked')
        /\ is_run' \in BOOLEAN /\ new_result' \in BOOLEAN
        /\ Active(process') # {} \/ Listed(require') # {} => is_run'
        BY <1>7, <2>2, RunOutKeeps DEF DnsInv
  <2> QED BY <1>6, <1>7, <2>3 DEF DnsInv, Running
<1>8. CASE /\ n \notin Active(process) /\ RunOut(proc, req, TRUE)
           /\ session_id' = NextSession
  <2>1. process[n] = NoProcess BY <1>2, <1>8 DEF Active
  <2>2. /\ NewProcess(r) \in Processes
        /\ NewProcess(r).session = session_id + 1
        /\ NewProcess(r).owner = r /\ NewProcess(r).ips = {}
        BY <1>1, DnsAssumption DEF NewProcess, NextSession, Processes, Servers
  <2> HIDE DEF req
  <2>3. /\ proc \in [Names -> Processes \union {NoProcess}]
        /\ proc[n] = NewProcess(r) /\ proc[n] # NoProcess
        /\ \A m \in Names : m # n => proc[m] = process[m]
        BY <1>1, <1>2, <2>2, DnsAssumption
  <2> HIDE DEF proc
  <2>4. \A m \in Names : process[m] # NoProcess => process[m].session \in Nat
        BY <1>1 DEF Processes
  <2>5. \A m \in Names : proc[m] # NoProcess => Own(proc, m, session_id + 1, asked)
    <3>1. Own(proc, n, session_id + 1, asked)
      <4>1. \A q \in asked : q.session # session_id + 1
            BY <1>1 DEF DnsInv, Fit
      <4>2. \A m \in Names : proc[m] # NoProcess /\ m # n => proc[m].session # session_id + 1
            BY <1>1, <2>3, <2>4 DEF DnsInv, Fit, Own
      <4> QED BY <1>1, <2>2, <2>3, <4>1, <4>2 DEF Own
    <3>2. ASSUME NEW m \in Names, m # n, proc[m] # NoProcess
          PROVE  Own(proc, m, session_id + 1, asked)
      <4>1. Own(process, m, session_id, asked) /\ process[m].session \in Nat
            BY <2>3, <2>4, <3>2 DEF DnsInv, Fit
      <4> QED BY <1>1, <2>2, <2>3, <3>2, <4>1 DEF Own
    <3> QED BY <3>1, <3>2
  <2>6. \A q \in asked : q.session <= session_id + 1
        BY <1>1 DEF DnsInv, Fit
  <2>7. \A m \in Names : proc[m] # NoProcess =>
           req[proc[m].owner].in = "pending" /\ req[proc[m].owner].name = m
        BY <1>3, <1>5, <2>2, <2>3 DEF DnsInv, Fit
  <2>8. \A s \in Requires : req[s].in = "pending" => proc[req[s].name] # NoProcess
        BY <1>1, <1>3, <2>3 DEF DnsInv, Fit, Requirements
  <2>9. \A s \in Requires : /\ req[s].ips \subseteq {req[s].name}
                            /\ req[s].in = "none" => req[s].ips = {}
    <3>1. /\ require[r].ips \subseteq {require[r].name}
          /\ \A s \in Requires : /\ require[s].ips \subseteq {require[s].name}
                                 /\ require[s].in = "none" => require[s].ips = {}
          BY DEF DnsInv, Fit
    <3>2. req[r].ips \subseteq {req[r].name} /\ req[r].in # "none" BY <1>3, <3>1
    <3>3. \A s \in Requires : s # r => req[s] = require[s] BY <1>3
    <3> QED BY <3>1, <3>2, <3>3
  <2>10. Fit(proc, req, session_id + 1, asked)
         BY <1>1, <1>3, <2>3, <2>5, <2>6, <2>7, <2>8, <2>9 DEF Fit
  <2>11. /\ Fit(process', require', session_id + 1, asked')
         /\ is_run' \in BOOLEAN /\ new_result' \in BOOLEAN
         /\ Active(process') # {} \/ Listed(require') # {} => is_run'
         BY <1>8, <2>10, RunOutKeeps DEF DnsInv
  <2> QED BY <1>1, <1>6, <1>8, <2>11 DEF DnsInv, Running, NextSession
<1> QED BY <1>7, <1>8 DEF TakeRequire

LEMMA StepTick ==
    ASSUME DnsInv, Tick
    PROVE  DnsInv'
<1>1. /\ Fit(process', require', session_id, asked')
      /\ is_run' \in BOOLEAN /\ new_result' \in BOOLEAN
      /\ Active(process') # {} \/ Listed(require') # {} => is_run'
      BY RunOutKeeps DEF DnsInv, Tick
<1> QED BY <1>1 DEF DnsInv, Running, Tick, StopTimer

LEMMA StepExpire ==
    ASSUME DnsInv, NEW n \in Names, Expire(n)
    PROVE  DnsInv'
<1>1. process \in [Names -> Processes \union {NoProcess}] BY DEF DnsInv, Fit
<1>2. /\ process[n] \in Processes /\ process[n] # NoProcess
      /\ process' = [process EXCEPT ![n].sent = "due"]
      BY <1>1 DEF Expire, Active
<1>3. [process[n] EXCEPT !.sent = "due"] \in Processes BY <1>2 DEF Processes
<1>4. process' \in [Names -> Processes \union {NoProcess}] BY <1>1, <1>2, <1>3
<1>5. \A m \in Names :
         /\ process'[m] = NoProcess <=> process[m] = NoProcess
         /\ process[m] # NoProcess =>
               /\ process'[m].session = process[m].session
               /\ process'[m].owner = process[m].owner
               /\ process'[m].ips = process[m].ips
      BY <1>1, <1>2, <1>3, DnsAssumption DEF Processes
<1>6. Fit(process', require, session_id,
          asked \union {[session |-> process[m].session, name |-> m] : m \in {}})
      BY <1>4, <1>5, FitAsked DEF DnsInv
<1>7. Fit(process', require, session_id, asked) BY <1>6
<1>8. Active(process') = Active(process) BY <1>5 DEF Active
<1> QED BY <1>7, <1>8 DEF DnsInv, Running, Expire

LEMMA StepIgnore ==
    ASSUME DnsInv, Ignore
    PROVE  DnsInv'
<1>0. UNCHANGED <<session_id, servers, losses>> /\ timer' = (timer /\ is_run')
      BY DEF Ignore, StopTimer
<1>1. CASE Abandoned(process, require) /\ RunOut(process, Cleared(require), FALSE)
  <2>1. Fit(process, Cleared(require), session_id, asked)
        BY <1>1, FitCleared DEF DnsInv, Abandoned
  <2>2. /\ Fit(process', require', session_id, asked')
        /\ is_run' \in BOOLEAN /\ new_result' \in BOOLEAN
        /\ Active(process') # {} \/ Listed(require') # {} => is_run'
        /\ is_run' => Active(process) # {} \/ Listed(Cleared(require)) # {}
        BY <1>1, <2>1, RunOutKeeps DEF DnsInv
  <2>3. Active(process) = {} /\ Listed(Cleared(require)) = {}
        BY <1>1, ClearedKeeps DEF DnsInv, Fit, Abandoned
  <2> QED BY <1>0, <2>2, <2>3 DEF DnsInv, Running
<1>2. CASE RunOut(process, Reported(require), FALSE)
  <2>1. Fit(process, Reported(require), session_id, asked)
        BY FitReported DEF DnsInv
  <2>2. /\ Fit(process', require', session_id, asked')
        /\ is_run' \in BOOLEAN /\ new_result' \in BOOLEAN
        /\ Active(process') # {} \/ Listed(require') # {} => is_run'
        /\ is_run' => Active(process) # {} \/ Listed(Reported(require)) # {}
        BY <1>2, <2>1, RunOutKeeps DEF DnsInv
  <2>3. Listed(Reported(require)) \subseteq Listed(require)
        BY ReportedKeeps DEF DnsInv, Fit
  <2> QED BY <1>0, <2>2, <2>3 DEF DnsInv, Running
<1> QED BY <1>1, <1>2 DEF Ignore

LEMMA StepLinkLost ==
    ASSUME DnsInv, LinkLost
    PROVE  DnsInv'
<1>1. Fit(process', require', session_id, asked)
  <2>1. \A n \in Names : process'[n] = NoProcess BY DEF LinkLost
  <2>2. process' \in [Names -> Processes \union {NoProcess}] BY DEF LinkLost
  <2>3. require' = Cleared(require) BY DEF LinkLost
  <2>4. require \in [Requires -> Requirements] BY DEF DnsInv, Fit
  <2> QED BY <2>1, <2>2, <2>3, <2>4, ClearedKeeps DEF DnsInv, Fit
<1>2. Active(process') = {} /\ Listed(require') = {}
      BY ClearedKeeps DEF LinkLost, Active, DnsInv, Fit
<1>3. losses' \in 0 .. MaxLosses BY DnsAssumption DEF DnsInv, LinkLost
<1> QED BY <1>1, <1>2, <1>3 DEF DnsInv, Running, LinkLost

\* A process that goes on to IPv4 stays a process.
LEMMA ContinuedKeeps ==
    ASSUME NEW q \in Processes, NEW found, q.ips \union found \in SUBSET Names,
           session_id \in Nat
    PROVE  LET p == Continued(q, found)
           IN  /\ p \in Processes /\ p.session = session_id + 1
               /\ p.owner = q.owner /\ p.ips = q.ips \union found
<1> DEFINE p == Continued(q, found)
           ips == q.ips \union found
<1>1. p = [session |-> session_id + 1, owner |-> q.owner, v6mode |-> q.v6mode,
           v6 |-> FALSE, v6done |-> TRUE, sent |-> "now", retry |-> 0,
           server |-> q.server, tried |-> q.tried, ips |-> ips]
  <2> DEFINE sid == session_id + 1
  <2>1. p = [q EXCEPT !.ips = ips, !.v6done = TRUE, !.v6 = FALSE, !.sent = "now",
                      !.retry = 0, !.session = sid]
        BY DEF Continued, NextSession
  <2> HIDE DEF p, ips, sid
  <2>2. p = [session |-> sid, owner |-> q.owner, v6mode |-> q.v6mode,
             v6 |-> FALSE, v6done |-> TRUE, sent |-> "now", retry |-> 0,
             server |-> q.server, tried |-> q.tried, ips |-> ips]
        BY <2>1 DEF Processes
  <2> QED BY <2>2 DEF sid
<1> HIDE DEF p, ips
<1>2. /\ q.owner \in Requires /\ q.v6mode \in BOOLEAN /\ q.server \in Servers
      /\ q.tried \in SUBSET Servers
      BY DEF Processes
<1>3. 0 \in Nat /\ {TRUE, FALSE} \subseteq BOOLEAN /\ "now" \in {"now", "waiting", "due"}
      /\ ips \in SUBSET Names /\ session_id + 1 \in Nat
      BY DEF ips
<1>4. p \in Processes BY <1>1, <1>2, <1>3 DEF Processes
<1> QED BY <1>1, <1>4 DEF p, ips

LEMMA StepReceive ==
    ASSUME DnsInv, NEW q \in asked, Receive(q)
    PROVE  DnsInv'
<1>1. PICK n \in Active(process), found \in SUBSET {q.name} :
         process[n].session = q.session /\ RunIn(n, found)
      BY DEF Receive
<1>2. UNCHANGED <<servers, losses>> /\ timer' = (timer /\ is_run') BY DEF Receive, StopTimer
<1>3. /\ n \in Names /\ process[n] # NoProcess /\ process[n] \in Processes
      /\ process \in [Names -> Processes \union {NoProcess}]
      /\ require \in [Requires -> Requirements]
      /\ asked \subseteq [session : Nat, name : Names] /\ session_id \in Nat
      BY DEF Active, DnsInv, Fit
<1>4. Own(process, n, session_id, asked) BY <1>3 DEF DnsInv, Fit
<1>5. q.name = n BY <1>1, <1>4 DEF Own
<1>6. process[n].ips \union found \subseteq {n} BY <1>4, <1>5 DEF Own
<1>6a. timer BY <1>3 DEF DnsInv, Running, Active
<1>7. SUFFICES \E sid \in Nat :
         /\ session_id' = sid
         /\ Fit(process', require', sid, asked')
         /\ is_run' \in BOOLEAN /\ new_result' \in BOOLEAN
         /\ Active(process') # {} \/ Listed(require') # {} => is_run'
      BY <1>2, <1>6a DEF DnsInv, Running
<1>8. CASE /\ ToV4(process[n])
           /\ RunOut([process EXCEPT ![n] = Continued(process[n], found)],
                     Reported(require), FALSE)
           /\ session_id' = NextSession
  <2> DEFINE p == Continued(process[n], found)
             proc == [process EXCEPT ![n] = p]
  <2>1. /\ p \in Processes /\ p.session = session_id + 1 /\ p.owner = process[n].owner
        /\ p.ips \subseteq {n}
    <3>1. process[n].ips \union found \in SUBSET Names BY <1>3, <1>6
    <3> QED BY <1>3, <1>6, <3>1, ContinuedKeeps
  <2> HIDE DEF p
  <2>2. /\ proc \in [Names -> Processes \union {NoProcess}]
        /\ proc[n] = p /\ p # NoProcess
        /\ \A m \in Names : m # n => proc[m] = process[m]
        BY <1>3, <2>1, DnsAssumption
  <2> HIDE DEF proc
  <2>3. \A m \in Names : process[m] # NoProcess =>
           process[m].session \in Nat /\ process[m].owner \in Requires
        BY <1>3 DEF Processes
  <2>4. \A m \in Names : proc[m] # NoProcess => Own(proc, m, session_id + 1, asked)
    <3>1. Own(proc, n, session_id + 1, asked)
      <4>1. \A q2 \in asked : q2.session # session_id + 1
            BY <1>3 DEF DnsInv, Fit
      <4>2. \A m \in Names : proc[m] # NoProcess /\ m # n => proc[m].session # session_id + 1
            BY <1>3, <2>2, <2>3 DEF DnsInv, Fit, Own
      <4> QED BY <1>3, <2>1, <2>2, <4>1, <4>2 DEF Own
    <3>2. ASSUME NEW m \in Names, m # n, proc[m] # NoProcess
          PROVE  Own(proc, m, session_id + 1, asked)
      <4>1. Own(process, m, session_id, asked) /\ process[m].session \in Nat
            BY <2>2, <2>3, <3>2 DEF DnsInv, Fit
      <4> QED BY <1>3, <2>1, <2>2, <3>2, <4>1 DEF Own
    <3> QED BY <3>1, <3>2
  <2>5. \A q2 \in asked : q2.session <= session_id + 1
        BY <1>3 DEF DnsInv, Fit
  <2>6. \A m \in Names : /\ proc[m] = NoProcess <=> process[m] = NoProcess
                         /\ proc[m] # NoProcess => proc[m].owner = process[m].owner
        BY <1>3, <2>1, <2>2
  <2>7. /\ \A m \in Names : proc[m] # NoProcess =>
              require[proc[m].owner].in = "pending" /\ require[proc[m].owner].name = m
        /\ \A s \in Requires : require[s].in = "pending" => proc[require[s].name] # NoProcess
        BY <1>3, <2>6 DEF DnsInv, Fit, Requirements
  <2>8. \A s \in Requires : /\ require[s].ips \subseteq {require[s].name}
                            /\ require[s].in = "none" => require[s].ips = {}
        BY DEF DnsInv, Fit
  <2>9. Fit(proc, require, session_id + 1, asked)
        BY <1>3, <2>2, <2>4, <2>5, <2>7, <2>8 DEF Fit
  <2>10. Fit(proc, Reported(require), session_id + 1, asked)
         BY <2>9, FitReported
  <2>11. RunOut(proc, Reported(require), FALSE) BY <1>8 DEF proc, p
  <2>12. /\ Fit(process', require', session_id + 1, asked')
         /\ is_run' \in BOOLEAN /\ new_result' \in BOOLEAN
         /\ Active(process') # {} \/ Listed(require') # {} => is_run'
         BY <2>10, <2>11, RunOutKeeps DEF DnsInv
  <2> QED BY <1>3, <1>8, <2>12 DEF NextSession
<1>9. CASE /\ RunOut([process EXCEPT ![n] = NoProcess],
                     Reported(SetResult(require, {n},
                        [m \in Names |-> process[n].ips \union found])), FALSE)
           /\ UNCHANGED session_id
  <2> DEFINE ips == [m \in Names |-> process[n].ips \union found]
             proc == [m \in Names |-> IF m \in {n} THEN NoProcess ELSE process[m]]
             req == SetResult(require, {n}, ips)
  <2>1. \A m \in {n} : ips[m] \subseteq {m} BY <1>3, <1>6
  <2>2. proc = [process EXCEPT ![n] = NoProcess] BY <1>3
  <2> HIDE DEF ips
  <2>3. Fit(proc, req, session_id, asked) BY <1>3, <2>1, FitEnded DEF DnsInv
  <2> HIDE DEF proc, req
  <2>4. Fit(proc, Reported(req), session_id, asked) BY <2>3, FitReported
  <2>5. RunOut(proc, Reported(req), FALSE) BY <1>9, <2>2 DEF req, ips
  <2> QED BY <1>3, <1>9, <2>4, <2>5, RunOutKeeps DEF DnsInv
<1>10. CASE /\ RunOut([process EXCEPT ![n].ips = @ \union found], Reported(require), FALSE)
            /\ UNCHANGED session_id
  <2> DEFINE p == [process[n] EXCEPT !.ips = process[n].ips \union found]
             proc == [process EXCEPT ![n] = p]
  <2>1. /\ p \in Processes /\ p.session = process[n].session
        /\ p.owner = process[n].owner /\ p.ips \subseteq {n}
        BY <1>3, <1>6 DEF Processes
  <2>2. proc = [process EXCEPT ![n].ips = @ \union found] BY <1>3
  <2> HIDE DEF p
  <2>3. /\ proc \in [Names -> Processes \union {NoProcess}]
        /\ proc[n] = p /\ p # NoProcess
        /\ \A m \in Names : m # n => proc[m] = process[m]
        BY <1>3, <2>1, DnsAssumption
  <2> HIDE DEF proc
  <2>4. \A m \in Names : /\ proc[m] = NoProcess <=> process[m] = NoProcess
                         /\ proc[m] # NoProcess =>
                              /\ proc[m].owner = process[m].owner
                              /\ proc[m].session = process[m].session
        BY <1>3, <2>1, <2>3
  <2>5. \A m \in Names : proc[m] # NoProcess => Own(proc, m, session_id, asked)
        BY <2>1, <2>3, <2>4 DEF DnsInv, Fit, Own
  <2>6. /\ \A m \in Names : proc[m] # NoProcess =>
              require[proc[m].owner].in = "pending" /\ require[proc[m].owner].name = m
        /\ \A s \in Requires : require[s].in = "pending" => proc[require[s].name] # NoProcess
        BY <1>3, <2>4 DEF DnsInv, Fit, Requirements
  <2>7. /\ \A q2 \in asked : q2.session <= session_id
        /\ \A s \in Requires : /\ require[s].ips \subseteq {require[s].name}
                               /\ require[s].in = "none" => require[s].ips = {}
        BY DEF DnsInv, Fit
  <2>8. Fit(proc, require, session_id, asked)
        BY <1>3, <2>3, <2>5, <2>6, <2>7 DEF Fit
  <2>9. Fit(proc, Reported(require), session_id, asked) BY <2>8, FitReported
  <2> QED BY <1>3, <1>10, <2>2, <2>9, RunOutKeeps DEF DnsInv
<1> QED BY <1>1, <1>8, <1>9, <1>10 DEF RunIn

-----------------------------------------------------------------------------
(* The theorems *)

LEMMA DnsStep == DnsInv /\ [Next]_vars => DnsInv'
<1> SUFFICES ASSUME DnsInv, [Next]_vars PROVE DnsInv' OBVIOUS
<1>1. CASE UNCHANGED vars
      BY <1>1 DEF DnsInv, Fit, Own, Running, vars, clientVars, Active, Listed
<1>2. CASE \E r \in Requires : PostRequire(r) BY <1>2, StepPostRequire
<1>3. CASE \E r \in Requires : TakeRequire(r) BY <1>3, StepTakeRequire
<1>4. CASE Tick BY <1>4, StepTick
<1>5. CASE \E n \in Names : Expire(n) BY <1>5, StepExpire
<1>6. CASE \E q \in asked : Receive(q) BY <1>6, StepReceive
<1>7. CASE Ignore BY <1>7, StepIgnore
<1>8. CASE LinkLost BY <1>8, StepLinkLost
<1> QED BY <1>1, <1>2, <1>3, <1>4, <1>5, <1>6, <1>7, <1>8 DEF Next

LEMMA DnsInvariant == Spec => []DnsInv
<1> QED BY DnsInit, DnsStep, PTL DEF Spec

\* Every variable keeps its type.
THEOREM DnsTypes == Spec => []TypeOK
<1>1. DnsInv => TypeOK BY DEF DnsInv, Fit, TypeOK
<1> QED BY <1>1, DnsInvariant, PTL

\* No answer, however late, repeated or out of order, gives a require addresses of
\* another name (dns_find_process compares identifiers only).
THEOREM DnsAnswers == Spec => []AnswerIsForItsName
<1>1. DnsInv => AnswerIsForItsName BY DEF DnsInv, Fit, AnswerIsForItsName
<1> QED BY <1>1, DnsInvariant, PTL

\* While a require has no result, a process works for its name, and no process reads a
\* name that is freed: uri_buf lasts as long as it (dns_require_ipv6, dns_set_result).
THEOREM DnsProcesses == Spec => []PendingHasProcess
<1>1. DnsInv => PendingHasProcess BY DEF DnsInv, Fit, PendingHasProcess
<1> QED BY <1>1, DnsInvariant, PTL

\* The timer that drives the client runs while anything is left to do.
THEOREM DnsTimer == Spec => []TimerRuns
<1>1. DnsInv => TimerRuns BY DEF DnsInv, Running, TimerRuns
<1> QED BY <1>1, DnsInvariant, PTL

-----------------------------------------------------------------------------
(* Giving up *)

\* the process has asked every server before the one it is at, and that one once a
\* question of it is out
Covered(p) ==
    /\ \A i \in servers : i < p.server => i \in p.tried
    /\ p.sent # "now" => p.server \in p.tried

TriedInv == \A n \in Names : process[n] # NoProcess => Covered(process[n])

\* What a process asks next is at, or one after, what it asked, and then it was the last try.
LEMMA AdvanceServer ==
    ASSUME NEW p \in Processes
    PROVE  /\ Advance(p).tried = p.tried
           /\ \/ Advance(p).server = p.server
              \/ p.sent = "due" /\ Advance(p).server = p.server + 1
<1>1. p.sent = "now" => ~LastTry(p) BY DEF LastTry
<1>2. LastTry(p) => p.sent = "due" BY DEF LastTry
<1>3. CASE p.sent = "now"
  <2>1. Advance(p) = p BY <1>1, <1>3 DEF Advance
  <2> QED BY <2>1
<1>4. CASE p.sent # "now" /\ ~LastTry(p)
  <2>1. Advance(p) = [p EXCEPT !.retry = p.retry + 1] BY <1>4 DEF Advance
  <2> QED BY <2>1 DEF Processes
<1>5. CASE LastTry(p) /\ p.v6mode /\ p.v6
  <2>1. Advance(p) = [p EXCEPT !.retry = 0, !.v6 = FALSE] BY <1>1, <1>5 DEF Advance
  <2> QED BY <2>1 DEF Processes
<1>6. CASE LastTry(p) /\ ~(p.v6mode /\ p.v6)
  <2> DEFINE q == [p EXCEPT !.retry = 0, !.v6 = p.v6mode, !.server = p.server + 1]
  <2>1. Advance(p) = q BY <1>1, <1>6 DEF Advance
  <2>2. q.tried = p.tried /\ q.server = p.server + 1 BY DEF Processes
  <2> HIDE DEF q
  <2> QED BY <1>2, <1>6, <2>1, <2>2
<1> QED BY <1>3, <1>4, <1>5, <1>6

\* A process has asked the servers before the one it would ask next.
LEMMA CoveredNext ==
    ASSUME servers \subseteq Servers, NEW p \in Processes, Covered(p),
           NEW i \in servers, i < Advance(p).server
    PROVE  i \in p.tried
<1>1. i \in Int /\ p.server \in Int BY DnsAssumption DEF Servers, Processes
<1>2. CASE Advance(p).server = p.server BY <1>2 DEF Covered
<1>3. CASE p.sent = "due" /\ Advance(p).server = p.server + 1
  <2>1. i < p.server \/ i = p.server BY <1>1, <1>3
  <2> QED BY <1>3, <2>1 DEF Covered
<1> QED BY <1>2, <1>3, AdvanceServer

LEMMA AskingCovered ==
    ASSUME servers \subseteq Servers, NEW p \in Processes, Usable(p) # {}, Covered(p)
    PROVE  Covered(Asking(p))
<1> DEFINE i == CHOOSE i \in Usable(p) : \A j \in Usable(p) : i <= j
           q == Advance(p)
<1>1. Usable(p) \subseteq Servers BY DEF Usable
<1>2. i \in Usable(p) /\ \A j \in Usable(p) : i <= j BY <1>1, LeastServer
<1>3. p \in Wide BY DnsAssumption DEF Processes, Wide, Servers
<1>4. q \in Wide BY <1>3, AdvanceKeeps
<1>5. q.tried = p.tried BY AdvanceServer
<1>6. Asking(p) = [q EXCEPT !.sent = "waiting", !.server = i, !.tried = @ \union {i}]
      BY DEF Asking
<1>7. \A j \in servers : j < q.server => j \in p.tried BY CoveredNext
<1> HIDE DEF i, q
<1> DEFINE w == [q EXCEPT !.sent = "waiting", !.server = i, !.tried = @ \union {i}]
<1>8. w.server = i /\ w.tried = p.tried \union {i} BY <1>4, <1>5 DEF Wide
<1>9. q.server \in Int /\ i \in Int BY <1>1, <1>2, <1>4, DnsAssumption DEF Wide, Servers
<1>10. ASSUME NEW j \in servers, j < i PROVE j \in p.tried
  <2>1. j \in Int BY DnsAssumption DEF Servers
  <2>2. j \notin Usable(p) BY <1>2, <1>9, <1>10, <2>1
  <2>3. j < q.server BY <1>9, <2>1, <2>2 DEF Usable, q
  <2> QED BY <1>7, <2>3
<1> HIDE DEF w
<1> QED BY <1>6, <1>8, <1>10 DEF Covered, w

\* A process that gives up without an address has asked every server.
LEMMA ExhaustedThen ==
    ASSUME servers \subseteq Servers, NEW p \in Processes, Covered(p), GivesUp(p), p.ips = {}
    PROVE  servers \subseteq p.tried
<1>1. Usable(p) = {} BY DEF GivesUp, OnlyV6
<1>2. ASSUME NEW i \in servers PROVE i \in p.tried
  <2>1. p \in Wide BY DnsAssumption DEF Processes, Wide, Servers
  <2>2. Advance(p).server \in Int /\ i \in Int
        BY <2>1, AdvanceKeeps, DnsAssumption DEF Wide, Servers
  <2>3. i < Advance(p).server BY <1>1, <2>2 DEF Usable
  <2> QED BY <2>3, CoveredNext
<1> QED BY <1>2

\* dns_run ends a due process only when it gives up: the first one that does not asks.
LEMMA OverGivesUp ==
    ASSUME NEW proc \in [Names -> Processes \union {NoProcess}], NEW n \in Over(proc)
    PROVE  GivesUp(proc[n])
<1> DEFINE able == {m \in Due(proc) : ~GivesUp(proc[m])}
           owners == {proc[m].owner : m \in able}
<1>1. \A m \in Due(proc) : m \in Names /\ proc[m] \in Processes BY DEF Due, Active
<1>2. \A m \in Due(proc) : proc[m].owner \in Nat BY <1>1 DEF Processes, Requires
<1>3. owners \subseteq Nat BY <1>2
<1>4. n \in Due(proc) /\ \A m \in Asks(proc) : proc[n].owner < proc[m].owner BY DEF Over
<1>5. SUFFICES ASSUME n \in able PROVE FALSE BY <1>4
<1>6. PICK x \in owners : \A y \in owners : x <= y
  <2>1. owners # {} BY <1>5
  <2> HIDE DEF owners
  <2> QED BY <1>3, <2>1, LeastNatural
<1>7. PICK m \in able : x = proc[m].owner BY <1>6
<1>8. m \in Asks(proc) BY <1>6, <1>7 DEF Asks
<1>9. proc[m].owner <= proc[n].owner BY <1>5, <1>6, <1>7
<1>10. proc[m].owner \in Nat /\ proc[n].owner \in Nat BY <1>2, <1>4, <1>7
<1> QED BY <1>4, <1>8, <1>9, <1>10

\* dns_run with out: what was covered is, and what ends without an address is exhausted.
LEMMA RunOutCovers ==
    ASSUME NEW proc \in [Names -> Processes \union {NoProcess}], NEW req, NEW tx,
           servers \subseteq Servers, RunOut(proc, req, tx),
           \A n \in Names : proc[n] # NoProcess => Covered(proc[n])
    PROVE  /\ \A n \in Names : process'[n] # NoProcess => Covered(process'[n])
           /\ \A n \in Names : proc[n] # NoProcess /\ process'[n] = NoProcess /\ proc[n].ips = {}
                                 => servers \subseteq proc[n].tried
<1>1. CASE process' = proc BY <1>1
<1>2. CASE process' = [n \in Names |-> IF n \in Over(proc) THEN NoProcess
                                       ELSE IF n \in Asks(proc) THEN Asking(proc[n]) ELSE proc[n]]
  <2> SUFFICES ASSUME NEW n \in Names
               PROVE  /\ process'[n] # NoProcess => Covered(process'[n])
                      /\ proc[n] # NoProcess /\ process'[n] = NoProcess /\ proc[n].ips = {}
                            => servers \subseteq proc[n].tried
      OBVIOUS
  <2>1. process'[n] = IF n \in Over(proc) THEN NoProcess
                      ELSE IF n \in Asks(proc) THEN Asking(proc[n]) ELSE proc[n]
        BY <1>2
  <2>2. proc[n] # NoProcess => proc[n] \in Processes OBVIOUS
  <2>3. CASE n \in Over(proc)
    <3>1. GivesUp(proc[n]) BY <2>3, OverGivesUp
    <3> QED BY <2>1, <2>2, <2>3, <3>1, ExhaustedThen
  <2>4. CASE n \notin Over(proc) /\ n \in Asks(proc)
    <3>1. proc[n] # NoProcess /\ Usable(proc[n]) # {}
          BY <2>4 DEF Asks, Due, Active, GivesUp
    <3>2. Covered(Asking(proc[n])) /\ Asking(proc[n]) \in Processes
          BY <2>2, <3>1, AskingCovered, AskingKeeps
    <3> QED BY <2>1, <2>4, <3>2, DnsAssumption
  <2>5. CASE n \notin Over(proc) /\ n \notin Asks(proc) BY <2>1, <2>5
  <2> QED BY <2>3, <2>4, <2>5
<1> QED BY <1>1, <1>2 DEF RunOut

\* what GivesUpExhausted says of a name
Exhausts(n) ==
    LET p == process[n]
    IN  p # NoProcess /\ p.ips = {} /\ ~(servers \subseteq p.tried) /\ process'[n] = NoProcess
        => LinkLost \/ \E q \in asked : q.session = p.session /\ Receive(q)

\* A message or the timer, which ends no process but in dns_run.
LEMMA CoversTakeRequire ==
    ASSUME DnsInv, TriedInv, NEW r \in Requires, TakeRequire(r)
    PROVE  TriedInv' /\ \A n \in Names : Exhausts(n)
<1> DEFINE m == require[r].name
           p == NewProcess(r)
           proc == [process EXCEPT ![m] = p]
<1>1. /\ process \in [Names -> Processes \union {NoProcess}] /\ servers \subseteq Servers
      /\ m \in Names /\ session_id \in Nat
      BY DEF DnsInv, Fit, Requirements
<1>2. servers' = servers BY DEF TakeRequire
<1>3. PICK req :
         \/ RunOut(process, req, TRUE)
         \/ m \notin Active(process) /\ RunOut(proc, req, TRUE)
      BY DEF TakeRequire
<1>4. CASE RunOut(process, req, TRUE)
      BY <1>1, <1>2, <1>4, RunOutCovers DEF TriedInv, Covered, Exhausts
<1>5. CASE m \notin Active(process) /\ RunOut(proc, req, TRUE)
  <2>1. p \in Processes /\ Covered(p)
    <3>1. 0 \in Servers BY DnsAssumption DEF Servers
    <3>2. \A i \in servers : i \in Nat BY <1>1, DnsAssumption DEF Servers
    <3>3. p \in Processes BY <1>1, <3>1 DEF NewProcess, NextSession, Processes
    <3>4. p.server = 0 /\ p.sent = "now" BY DEF NewProcess
    <3> HIDE DEF p
    <3> QED BY <3>2, <3>3, <3>4 DEF Covered
  <2> HIDE DEF p
  <2>2. proc \in [Names -> Processes \union {NoProcess}] BY <1>1, <2>1
  <2>3. process[m] = NoProcess BY <1>1, <1>5 DEF Active
  <2>4. proc[m] = p /\ \A n \in Names : n # m => proc[n] = process[n] BY <1>1
  <2>5. \A n \in Names : proc[n] # NoProcess => Covered(proc[n])
        BY <2>1, <2>4 DEF TriedInv
  <2> HIDE DEF proc
  <2> QED BY <1>2, <1>1, <1>5, <2>2, <2>3, <2>4, <2>5, RunOutCovers
          DEF TriedInv, Covered, Exhausts
<1> QED BY <1>3, <1>4, <1>5

LEMMA CoversExpire ==
    ASSUME DnsInv, TriedInv, NEW n \in Names, Expire(n)
    PROVE  TriedInv' /\ \A m \in Names : Exhausts(m)
<1>1. process \in [Names -> Processes \union {NoProcess}] BY DEF DnsInv, Fit
<1>2. /\ process[n] \in Processes /\ process[n] # NoProcess /\ process[n].sent = "waiting"
      /\ process' = [process EXCEPT ![n].sent = "due"] /\ servers' = servers
      BY <1>1 DEF Expire, Active
<1> DEFINE p == [process[n] EXCEPT !.sent = "due"]
<1>3. p \in Processes /\ p.server = process[n].server /\ p.tried = process[n].tried
      BY <1>2 DEF Processes
<1>4. process'[n] = p /\ \A m \in Names : m # n => process'[m] = process[m] BY <1>1, <1>2
<1> HIDE DEF p
<1>5. Covered(process[n]) BY <1>2 DEF TriedInv
<1>6. Covered(p) /\ p # NoProcess BY <1>2, <1>3, <1>5, DnsAssumption DEF Covered
<1> QED BY <1>2, <1>4, <1>6 DEF TriedInv, Exhausts, Covered

\* An answer ends the process whose question it answers, and no other.
LEMMA CoversReceive ==
    ASSUME DnsInv, TriedInv, NEW q \in asked, Receive(q)
    PROVE  TriedInv' /\ \A n \in Names : Exhausts(n)
<1>1. PICK m \in Active(process), found \in SUBSET {q.name} :
         process[m].session = q.session /\ RunIn(m, found)
      BY DEF Receive
<1>2. /\ m \in Names /\ process[m] # NoProcess /\ process[m] \in Processes
      /\ process \in [Names -> Processes \union {NoProcess}]
      /\ asked \subseteq [session : Nat, name : Names] /\ session_id \in Nat
      /\ servers \subseteq Servers /\ servers' = servers
      BY DEF Active, DnsInv, Fit, Receive
<1>3. Exhausts(m) BY <1>1 DEF Exhausts
<1>4. process[m].ips \union found \in SUBSET Names
      BY <1>2 DEF Processes
<1>5. PICK p, req :
         /\ p = NoProcess \/ (p \in Processes /\ Covered(p))
         /\ RunOut([process EXCEPT ![m] = p], req, FALSE)
  <2> DEFINE c == Continued(process[m], found)
             d == [process[m] EXCEPT !.ips = process[m].ips \union found]
  <2>1. Covered(process[m]) BY <1>2 DEF TriedInv
  <2>2. c \in Processes /\ Covered(c)
    <3>1. c \in Processes BY <1>2, <1>4, ContinuedKeeps
    <3>2. c.server = process[m].server /\ c.tried = process[m].tried /\ c.sent = "now"
          BY <1>2 DEF Continued, Processes
    <3> HIDE DEF c
    <3> QED BY <2>1, <3>1, <3>2 DEF Covered
  <2>3. d \in Processes /\ Covered(d)
    <3>1. d \in Processes BY <1>2, <1>4 DEF Processes
    <3>2. d.server = process[m].server /\ d.tried = process[m].tried /\ d.sent = process[m].sent
          BY <1>2 DEF Processes
    <3> HIDE DEF d
    <3> QED BY <2>1, <3>1, <3>2 DEF Covered
  <2>4. [process EXCEPT ![m].ips = @ \union found] = [process EXCEPT ![m] = d] BY <1>2
  <2> HIDE DEF c, d
  <2>5. \/ \E req : RunOut([process EXCEPT ![m] = c], req, FALSE)
        \/ \E req : RunOut([process EXCEPT ![m] = NoProcess], req, FALSE)
        \/ \E req : RunOut([process EXCEPT ![m] = d], req, FALSE)
        BY <1>1, <2>4 DEF RunIn, c
  <2> QED BY <2>2, <2>3, <2>5
<1> DEFINE proc == [process EXCEPT ![m] = p]
<1>6. /\ proc \in [Names -> Processes \union {NoProcess}] /\ proc[m] = p
      /\ \A n \in Names : n # m => proc[n] = process[n]
      BY <1>2, <1>5
<1>7. \A n \in Names : proc[n] # NoProcess => Covered(proc[n])
      BY <1>5, <1>6 DEF TriedInv
<1>8. RunOut(proc, req, FALSE) BY <1>5
<1> HIDE DEF proc
<1> QED BY <1>2, <1>3, <1>6, <1>7, <1>8, RunOutCovers DEF TriedInv, Covered, Exhausts

LEMMA TriedStep ==
    ASSUME DnsInv, TriedInv, [Next]_vars
    PROVE  TriedInv' /\ (UNCHANGED vars \/ \A n \in Names : Exhausts(n))
<1>1. CASE UNCHANGED vars BY <1>1 DEF TriedInv, Covered, vars, clientVars
<1>2. CASE \E r \in Requires : PostRequire(r)
      BY <1>2 DEF PostRequire, TriedInv, Covered, Exhausts
<1>3. CASE \E r \in Requires : TakeRequire(r) BY <1>3, CoversTakeRequire
<1>4. process \in [Names -> Processes \union {NoProcess}] /\ servers \subseteq Servers
      BY DEF DnsInv, Fit
<1>5. CASE Tick
      BY <1>4, <1>5, RunOutCovers DEF Tick, TriedInv, Covered, Exhausts
<1>6. CASE \E n \in Names : Expire(n) BY <1>6, CoversExpire
<1>7. CASE \E q \in asked : Receive(q) BY <1>7, CoversReceive
<1>8. CASE Ignore
      BY <1>4, <1>8, RunOutCovers DEF Ignore, TriedInv, Covered, Exhausts
<1>9. CASE LinkLost BY <1>9 DEF LinkLost, TriedInv, Exhausts
<1> QED BY <1>1, <1>2, <1>3, <1>5, <1>6, <1>7, <1>8, <1>9 DEF Next

\* Unless an answer to its question or the loss of the link ends it, a look-up ends
\* without an address only after every configured server was asked (dns_run).
THEOREM DnsGivesUp == Spec => GivesUpExhausted
<1>1. Init => TriedInv BY DEF Init, TriedInv
<1>2. DnsInv /\ TriedInv /\ [Next]_vars => TriedInv' BY TriedStep
<1>3. DnsInv /\ TriedInv /\ [Next]_vars
      => [\A n \in Names :
            LET p == process[n]
            IN  p # NoProcess /\ p.ips = {} /\ ~(servers \subseteq p.tried)
                /\ process'[n] = NoProcess
                => LinkLost \/ \E q \in asked : q.session = p.session /\ Receive(q)]_vars
      BY TriedStep DEF Exhausts
<1> QED BY <1>1, <1>2, <1>3, DnsInvariant, PTL DEF Spec, GivesUpExhausted
=============================================================================
