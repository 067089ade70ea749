------------------------------- MODULE Ymodem -------------------------------
(***************************************************************************)
(* The YMODEM receiver (luat_ymodem.c), a sender and the serial line       *)
(* between them.  luat_ymodem_receive is called with what the line has     *)
(* delivered: a chunk, which may end anywhere in a frame.                  *)
(*                                                                         *)
(* Data is counted in units of XMODEM_SOH_DATA_LEN bytes.  A frame is a    *)
(* sequence of pieces, one for each unit and one for the five bytes of     *)
(* number and checksum.  The checksum finds every damage.                  *)
(*                                                                         *)
(* The sender is not part of the repository: it sends a frame, waits, and  *)
(* sends it again when it is refused or nothing comes.  It looks at        *)
(* replies once its frame has left the line.                               *)
(***************************************************************************)
EXTENDS Integers, SequencesExt

CONSTANTS
    FileLen,        \* length of the file in units
    StxUnits,       \* units of data in a long frame (8)
    SnMod,          \* a sequence number is a uint8_t (256)
    MidBytes,       \* what a chunk that starts inside a frame may look like
    MaxFaults,      \* bound: pieces and replies lost or damaged, early timeouts
    MaxSessions     \* bound: transfers

Kinds == {"SOH", "STX"}
Steps == {"idle", "header", "data", "eot", "end", "can", "over"}

ASSUME YmodemAssumption ==
    /\ FileLen \in Nat \ {0} /\ StxUnits \in Nat \ {0, 1}
    /\ SnMod \in Nat /\ SnMod > 2
    /\ MidBytes \subseteq Kinds \union {"EOT", "CAN", "other"} /\ MidBytes # {}
    /\ MaxFaults \in Nat /\ MaxSessions \in Nat

Units(kind) == IF kind = "SOH" THEN 1 ELSE StxUnits

VARIABLES
    state, next_sn, data_max,
    packet,         \* packet_data: the pieces received; data_pos is their number
    file_size,
    written,        \* the units in the file; write_size is their number
    open,           \* fd is not NULL
    file_ok, all_done,              \* of the last call
    \* external: the sender and the line
    step, at, no, kind,             \* the frame being sent: its first unit, number and kind
    wire,           \* pieces of that frame on the line
    replies,        \* what the receiver has sent
    faults, sessions,
    spoilt          \* a reply was lost, or the sender gave up (history)

receiverVars == <<state, next_sn, data_max, packet, file_size, written, open>>
frameVars == <<step, at, no, kind>>
vars == <<receiverVars, file_ok, all_done, frameVars, wire, replies, faults, sessions, spoilt>>

Frames == [what : Steps, kind : Kinds, sn : 0 .. SnMod - 1, at : Nat]
Pieces == [frame : Frames, i : Nat, bad : BOOLEAN]

Init ==
    /\ state = 0 /\ next_sn = 0 /\ data_max = 0 /\ packet = <<>>
    /\ file_size = 0 /\ written = <<>> /\ open = FALSE
    /\ file_ok = FALSE /\ all_done = FALSE
    /\ step = "idle" /\ at = 0 /\ no = 0 /\ kind = "SOH"
    /\ wire = <<>> /\ replies = <<>>
    /\ faults = 0 /\ sessions = 1 /\ spoilt = FALSE

-----------------------------------------------------------------------------
(* Frames *)

\* header and end have number 0, EOT and CAN are single bytes
Frame(w, k, m, a) ==
    [what |-> w, kind |-> k, sn |-> m, at |-> a]

\* the number of the next block
NextNumber(n) == (n + 1) % SnMod

Size(frame) == IF frame.what \in {"eot", "can"} THEN 1 ELSE Units(frame.kind) + 1

\* its pieces, as they are put on the line
Whole(frame) == [i \in 1 .. Size(frame) |-> [frame |-> frame, i |-> i, bad |-> FALSE]]

\* what the first byte of a chunk may be
FirstBytes(piece) ==
    IF piece.i # 1 \/ piece.bad THEN MidBytes
    ELSE CASE piece.frame.what = "eot" -> {"EOT"}
           [] piece.frame.what = "can" -> {"CAN"}
           [] OTHER -> {piece.frame.kind}

-----------------------------------------------------------------------------
(* The receiver.  chunk is the data of the call and first its first byte.     *)

Answer(reply) == replies' = Append(replies, reply)

\* mutant: what was received of the frame stays
RefuseKeeps ==
    /\ UNCHANGED packet
    /\ Answer("NAK")
    /\ file_ok' = FALSE /\ all_done' = FALSE
    /\ UNCHANGED <<state, next_sn, file_size, written, open>>

\* DATA_RECIEVE_ERROR
Refuse ==
    /\ packet' = <<>>
    /\ Answer("NAK")
    /\ file_ok' = FALSE /\ all_done' = FALSE
    /\ UNCHANGED <<state, next_sn, file_size, written, open>>

\* the frame is not complete: no answer
Collect(all) ==
    /\ packet' = all
    /\ file_ok' = FALSE /\ all_done' = FALSE
    /\ UNCHANGED <<state, next_sn, file_size, written, open, replies>>

\* luat_ymodem_reset: data_pos and data_max stay
Reset ==
    /\ state' = 0 /\ next_sn' = 0 /\ file_size' = 0 /\ open' = FALSE
    /\ UNCHANGED <<packet, written>>

\* the transfer has come to its end, or was cancelled
Finish ==
    /\ Reset
    /\ Answer("ACK")
    /\ file_ok' = FALSE /\ all_done' = TRUE

\* a header: the file is created.  A data frame whose number is 0 looks like one
Create(frame) ==
    /\ state' = 1 /\ next_sn' = 1 /\ packet' = <<>>
    /\ file_size' = IF frame.what = "header" THEN FileLen ELSE 0
    /\ written' = <<>> /\ open' = TRUE
    /\ Answer("ACK")
    /\ file_ok' = FALSE /\ all_done' = FALSE

\* state 0.  The first chunk decides how long the header is.  When a reset has cut off
\* a long block, data_max has the five bytes of number and checksum in it and they are
\* added again: the frame is taken to be StxUnits + 2 pieces, 1034 bytes of which the
\* last two go behind packet_data, where the handler is padded
ReceiveHeader(chunk, first) ==
    \/ packet = <<>> /\ first \notin Kinds /\ Refuse /\ UNCHANGED data_max
    \/ /\ packet # <<>> \/ first \in Kinds
       /\ LET max == IF packet = <<>> THEN Units(first) ELSE data_max
              all == packet \o chunk
              frame == all[1].frame
              good == SubSeq(all, 1, max + 1) = Whole(frame) /\ frame.sn = 0
          IN
          \/ Len(all) < max + 1 /\ Collect(all) /\ data_max' = max
          \/ Len(all) >= max + 1 /\ ~good /\ Refuse /\ data_max' = max
          \/ Len(all) >= max + 1 /\ good /\ frame.what = "end" /\ Finish /\ data_max' = max
          \/ /\ Len(all) >= max + 1 /\ good /\ frame.what # "end"
             /\ Create(frame) /\ data_max' = StxUnits + 1

\* a block of n units is written: DATA_RECIEVE_OK
Write(frame, n) ==
    LET grown == written \o [k \in 1 .. n |-> frame.at + k]
        ends == file_size # 0 /\ Len(grown) >= file_size
    IN
    /\ written' = grown
    /\ next_sn' = NextNumber(next_sn)
    /\ packet' = <<>>
    /\ Answer("ACK")
    /\ state' = IF ends THEN 2 ELSE 1
    /\ open' = ~ends
    /\ file_ok' = ends /\ all_done' = FALSE
    /\ UNCHANGED file_size

\* mutant: the last block is written with its padding
LenEndAll(frame) == Units(frame.kind)

\* mutant: a long block is written like a short one
LenEndShort(frame) == IF file_size - Len(written) > 1 THEN 1 ELSE file_size - Len(written)

\* what a block adds to the file
LenEnd(frame) ==
    LET rest == file_size - Len(written) IN
    IF rest > Units(frame.kind) THEN Units(frame.kind) ELSE rest

\* mutant: the number of a block is not compared
DataGoodAnyNumber(frame, pieces) == pieces = Whole(frame)

\* number and checksum of a block
DataGood(frame, pieces) == pieces = Whole(frame) /\ frame.sn = next_sn

\* state 1
ReceiveData(chunk, first) ==
    \/ packet = <<>> /\ first \notin Kinds /\ Refuse /\ UNCHANGED data_max
    \/ /\ packet # <<>> \/ first \in Kinds
       /\ LET max == IF packet = <<>> THEN Units(first) + 1 ELSE data_max
              all == packet \o chunk
              frame == all[1].frame
              good == DataGood(frame, SubSeq(all, 1, max))
          IN
          /\ data_max' = max
          /\ \/ Len(all) < max /\ Collect(all)
             \/ Len(all) >= max /\ ~good /\ Refuse
             \/ Len(all) >= max /\ good /\ Write(frame, LenEnd(frame))

\* mutant: the transfer is over with the second EOT
ReceiveEotDone(first) ==
    /\ UNCHANGED data_max
    /\ \/ first # "EOT" /\ Refuse
       \/ /\ first = "EOT"
          /\ file_ok' = FALSE /\ all_done' = (state = 3)
          /\ UNCHANGED <<next_sn, file_size, written>>
          /\ \/ state = 2 /\ state' = 3 /\ packet' = <<>> /\ open' = FALSE /\ Answer("NAK")
             \/ state = 3 /\ state' = 0 /\ UNCHANGED <<packet, open>> /\ Answer("ACK")

\* states 2 and 3: the first EOT is refused, the second accepted
ReceiveEot(first) ==
    /\ UNCHANGED data_max
    /\ \/ first # "EOT" /\ Refuse
       \/ /\ first = "EOT"
          /\ file_ok' = FALSE /\ all_done' = FALSE
          /\ UNCHANGED <<next_sn, file_size, written>>
          /\ \/ state = 2 /\ state' = 3 /\ packet' = <<>> /\ open' = FALSE /\ Answer("NAK")
             \/ state = 3 /\ state' = 0 /\ UNCHANGED <<packet, open>> /\ Answer("ACK")

\* luat_ymodem_receive with the first n pieces of the line
Receive(n) ==
    /\ n <= Len(wire)
    /\ wire' = SubSeq(wire, n + 1, Len(wire))
    /\ \E first \in FirstBytes(wire[1]) :
          LET chunk == SubSeq(wire, 1, n) IN
          \/ first = "CAN" /\ Finish /\ UNCHANGED data_max
          \/ first # "CAN" /\ state = 0 /\ ReceiveHeader(chunk, first)
          \/ first # "CAN" /\ state = 1 /\ ReceiveData(chunk, first)
          \/ first # "CAN" /\ state \in {2, 3} /\ ReceiveEot(first)
    /\ UNCHANGED <<frameVars, faults, sessions, spoilt>>

\* luat_ymodem_receive without data, which the caller repeats until a sender answers
Poll ==
    /\ state = 0 /\ step = "idle" /\ replies = <<>>
    /\ Answer("C")
    /\ file_ok' = FALSE /\ all_done' = FALSE
    /\ UNCHANGED <<receiverVars, frameVars, wire, faults, sessions, spoilt>>

-----------------------------------------------------------------------------
(* The sender and the line *)

Send(w, k, m, a) ==
    /\ step' = w /\ kind' = k /\ no' = m /\ at' = a
    /\ wire' = Whole(Frame(w, k, m, a))

Again == Send(step, kind, no, at)

\* a transfer is asked for
Begin ==
    /\ step = "idle" /\ replies # <<>>
    /\ replies' = Tail(replies)
    /\ Send("header", "SOH", 0, 0)
    /\ UNCHANGED <<receiverVars, file_ok, all_done, faults, sessions, spoilt>>

\* the first or the next block, or EOT when the file has been sent
NextBlock(from) ==
    \/ from < FileLen /\ \E k \in Kinds : Send("data", k, NextNumber(no), from)
    \/ from >= FileLen /\ Send("eot", "SOH", 0, 0)

\* the frame was accepted
Advance ==
    \/ step = "header" /\ NextBlock(0)
    \/ step = "data" /\ NextBlock(at + Units(kind))
    \/ step = "eot" /\ Send("end", "SOH", 0, 0)
    \/ step \in {"end", "can"} /\ step' = "over" /\ UNCHANGED <<at, no, kind, wire>>

Busy == step \notin {"idle", "over"}

\* the sender reads all that has come: an ACK counts before a NAK
TakeReply ==
    /\ Busy /\ wire = <<>> /\ replies # <<>>
    /\ replies' = <<>>
    /\ \/ "ACK" \in Range(replies) /\ Advance
       \/ "ACK" \notin Range(replies) /\ "NAK" \in Range(replies) /\ Again
       \/ Range(replies) = {"C"} /\ UNCHANGED <<frameVars, wire>>
    /\ UNCHANGED <<receiverVars, file_ok, all_done, faults, sessions, spoilt>>

Quiet == UNCHANGED <<receiverVars, file_ok, all_done, replies>>

\* nothing comes
Timeout ==
    /\ Busy /\ wire = <<>> /\ replies = <<>>
    /\ Again
    /\ Quiet /\ UNCHANGED <<faults, sessions, spoilt>>

\* the reply is on its way: the frame is sent once more than it should be
EarlyTimeout ==
    /\ Busy /\ wire = <<>> /\ replies # <<>> /\ faults < MaxFaults
    /\ faults' = faults + 1
    /\ Again
    /\ Quiet /\ UNCHANGED <<sessions, spoilt>>

GiveUp ==
    /\ Busy /\ step # "can" /\ wire = <<>>
    /\ Send("can", "SOH", 0, 0)
    /\ spoilt' = TRUE
    /\ Quiet /\ UNCHANGED <<faults, sessions>>

LosePiece ==
    /\ faults < MaxFaults /\ faults' = faults + 1
    /\ \E i \in DOMAIN wire : wire' = RemoveAt(wire, i)
    /\ Quiet /\ UNCHANGED <<frameVars, sessions, spoilt>>

DamagePiece ==
    /\ faults < MaxFaults /\ faults' = faults + 1
    /\ \E i \in DOMAIN wire : wire' = [wire EXCEPT ![i].bad = TRUE]
    /\ Quiet /\ UNCHANGED <<frameVars, sessions, spoilt>>

LoseReply ==
    /\ faults < MaxFaults /\ faults' = faults + 1
    /\ replies # <<>> /\ replies' = Tail(replies)
    /\ spoilt' = (spoilt \/ Head(replies) = "ACK")
    /\ UNCHANGED <<receiverVars, file_ok, all_done, frameVars, wire, sessions>>

\* the caller resets the handler for the next transfer
Restart ==
    /\ step = "over" /\ wire = <<>> /\ replies = <<>> /\ sessions < MaxSessions
    /\ sessions' = sessions + 1
    /\ Reset
    /\ step' = "idle" /\ at' = 0 /\ no' = 0 /\ kind' = "SOH"
    /\ spoilt' = FALSE
    /\ UNCHANGED <<data_max, file_ok, all_done, wire, replies, faults>>

-----------------------------------------------------------------------------
Receives == \E n \in 1 .. StxUnits + 1 : Receive(n)

Next ==
    \/ Receives \/ Poll
    \/ Begin \/ TakeReply \/ Timeout \/ EarlyTimeout \/ GiveUp
    \/ LosePiece \/ DamagePiece \/ LoseReply \/ Restart

Spec == Init /\ [][Next]_vars

\* all of a frame in one call
ReceiveWhole == wire # <<>> /\ wire = Whole(wire[1].frame) /\ Receive(Len(wire))

\* the line delivers, the caller polls, the sender waits no longer than its timeout;
\* a frame that is sent again and again is not cut in pieces every time (otherwise
\* the rest of a refused frame may always be taken for the start of the next)
FairSpec ==
    /\ Spec
    /\ WF_vars(Receives) /\ SF_vars(ReceiveWhole) /\ WF_vars(Poll)
    /\ WF_vars(Begin) /\ WF_vars(TakeReply) /\ WF_vars(Timeout)

-----------------------------------------------------------------------------
(* Properties *)

\* every variable has its type, and what is collected of a frame is less than the
\* receiver waits for, also with what a reset left of another frame: the length of the
\* copy that completes it, (data_max + 5) - data_pos or data_max - data_pos, is never
\* negative
TypeOK ==
    /\ state \in 0 .. 3 /\ next_sn \in 0 .. SnMod - 1
    /\ data_max \in 0 .. StxUnits + 1
    /\ packet \in Seq(Pieces)
    /\ packet # <<>> => Len(packet) < IF state = 0 THEN data_max + 1 ELSE data_max
    /\ file_size \in {0, FileLen}
    /\ written \in Seq(1 .. FileLen) /\ Len(written) <= FileLen
    /\ open \in BOOLEAN /\ file_ok \in BOOLEAN /\ all_done \in BOOLEAN
    /\ step \in Steps /\ at \in Nat /\ no \in 0 .. SnMod - 1 /\ kind \in Kinds
    /\ wire \in Seq(Pieces) /\ replies \in Seq({"C", "ACK", "NAK"})
    /\ faults \in 0 .. MaxFaults /\ sessions \in Nat /\ spoilt \in BOOLEAN

\* what the sender has seen acknowledged is in the file: a block that is lost,
\* damaged, cut off or sent twice never moves the sender past what was written
AckedIsWritten ==
    /\ step = "data" => at <= Len(written)
    /\ step \in {"eot", "end"} => Len(written) = FileLen

\* luat_ymodem.h: all_done tells that the frame that ends the transfer has come, or
\* one that cancels it
AllDoneMeansEnd == all_done => step \in {"end", "can", "over", "idle"}

\* the receiver implements the copying of a file: blocks go in once and in order,
\* and file_ok and the closing of the file come with the last one
Copy == INSTANCE FileCopy WITH copy <- written, complete <- state \in {2, 3}

CopiesFile == Copy!CopySpec

\* the file arrives, unless an acknowledgement is lost or the sender gives up
FileArrives == [](step = "header" => <>(Len(written) = FileLen \/ spoilt))
=============================================================================
