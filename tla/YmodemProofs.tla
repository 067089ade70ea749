---------------------------- MODULE YmodemProofs ----------------------------
(***************************************************************************)
(* Theorems about Ymodem, for every length of file and block, every number *)
(* of faults and transfers: types, that what the sender has seen           *)
(* acknowledged is written, what all_done tells, and that the receiver     *)
(* implements the copying of a file (FileCopy).                            *)
(*                                                                         *)
(* All of them need that no chunk inside a frame starts with a byte like   *)
(* EOT or CAN.                                                             *)
(***************************************************************************)
EXTENDS Ymodem, SequenceTheorems, TLAPS

TrueMids == MidBytes \intersect {"EOT", "CAN"} = {}

Current == Frame(step, kind, no, at)

\* what is on the line is of the frame being sent
OnLine ==
    /\ \A i \in 1 .. Len(wire) : wire[i].frame = Current
    /\ ~Busy => wire = <<>>
    /\ step = "over" => replies = <<>>

\* the types, and a bound for packet_data in pieces
Types ==
    /\ state \in 0 .. 3 /\ next_sn \in 0 .. SnMod - 1
    /\ data_max \in 0 .. StxUnits + 1
    /\ packet \in Seq(Pieces) /\ Len(packet) <= StxUnits + 1
    /\ file_size \in {0, FileLen}
    /\ written \in Seq(1 .. FileLen) /\ Len(written) <= FileLen
    /\ open \in BOOLEAN /\ file_ok \in BOOLEAN /\ all_done \in BOOLEAN
    /\ step \in Steps /\ at \in Nat /\ no \in 0 .. SnMod - 1 /\ kind \in Kinds
    /\ wire \in Seq(Pieces) /\ replies \in Seq({"C", "ACK", "NAK"})
    /\ faults \in 0 .. MaxFaults /\ sessions \in Nat /\ spoilt \in BOOLEAN

\* a frame in packet_data is not complete
Filling ==
    /\ packet # <<>> => data_max >= 1 /\ Len(packet) <= data_max
    /\ packet # <<>> /\ state = 1 => Len(packet) < data_max
    /\ state \in {2, 3} => packet = <<>>

Part(n) == [i \in 1 .. n |-> i]

\* the file is a prefix of what is sent
Copied ==
    /\ written = Part(Len(written))
    /\ state = 1 => Len(written) < FileLen /\ file_size = FileLen
    /\ state \in {2, 3} => Len(written) = FileLen

\* the block being sent is the next of the file, or the last that was written
Waiting == state = 1 /\ Len(written) = at /\ next_sn = no
Taken ==
    /\ at < FileLen
    /\ state = IF Len(written) = FileLen THEN 2 ELSE 1
    /\ Len(written) = IF at + Units(kind) < FileLen THEN at + Units(kind) ELSE FileLen
    /\ next_sn = NextNumber(no)

\* the receiver has accepted the frame being sent
Accepted ==
    \/ step = "header" /\ state = 1
    \/ step = "data" /\ Taken
    \/ step = "eot" /\ state = 0
    \/ step \in {"end", "can"}

\* how far sender and receiver are
Agreed ==
    /\ "ACK" \in Range(replies) => Accepted
    /\ step = "idle" => state = 0
    /\ step = "header" => /\ state \in {0, 1} /\ no = 0
                          /\ state = 1 => written = <<>> /\ next_sn = 1
    /\ step = "data" => Waiting \/ Taken
    /\ step = "eot" => state \in {0, 2, 3} /\ Len(written) = FileLen
    /\ step = "end" => state = 0 /\ Len(written) = FileLen

\* all_done belongs to the end of a transfer
Done ==
    /\ all_done => step \in {"end", "can", "over", "idle"}
    /\ step = "idle" /\ replies # <<>> => ~all_done

YmInv == Types /\ OnLine /\ Filling /\ Copied /\ Agreed /\ Done

-----------------------------------------------------------------------------
(* The operators *)

\* Numbers of blocks wrap, and the next is another one.
LEMMA NextNumberProps ==
    ASSUME NEW n \in 0 .. SnMod - 1
    PROVE  /\ NextNumber(n) \in 0 .. SnMod - 1 /\ NextNumber(n) # n
           /\ NextNumber(0) = 1
<1>1. SnMod \in Nat /\ SnMod > 2 BY YmodemAssumption
<1>2. 1 % SnMod = 1 BY <1>1
<1>3. (n + 1) % SnMod \in 0 .. SnMod - 1 BY <1>1
<1>4. CASE n + 1 < SnMod
  <2>1. (n + 1) % SnMod = n + 1 BY <1>1, <1>4
  <2> QED BY <1>1, <1>2, <1>3, <2>1 DEF NextNumber
<1>5. CASE n + 1 = SnMod
  <2>1. (n + 1) % SnMod = 0 BY <1>1, <1>5
  <2> QED BY <1>1, <1>2, <1>3, <1>5, <2>1 DEF NextNumber
<1> QED BY <1>1, <1>4, <1>5

\* A block has between one unit and StxUnits.
LEMMA UnitsProps ==
    ASSUME NEW k \in Kinds
    PROVE  Units(k) \in 1 .. StxUnits
BY YmodemAssumption DEF Units, Kinds

\* A frame is cut into pieces of its own, and fits packet_data.
LEMMA WholeProps ==
    ASSUME NEW frame \in Frames
    PROVE  /\ Whole(frame) \in Seq(Pieces) /\ Len(Whole(frame)) = Size(frame)
           /\ Size(frame) \in 1 .. StxUnits + 1
           /\ \A i \in 1 .. Len(Whole(frame)) : Whole(frame)[i].frame = frame
<1>1. Size(frame) \in 1 .. StxUnits + 1
      BY UnitsProps, YmodemAssumption DEF Size, Frames
<1>2. \A i \in 1 .. Size(frame) : [frame |-> frame, i |-> i, bad |-> FALSE] \in Pieces
      BY <1>1 DEF Pieces
<1>3. Whole(frame) \in [1 .. Size(frame) -> Pieces] BY <1>2 DEF Whole
<1>4. Whole(frame) \in Seq(Pieces) /\ Len(Whole(frame)) = Size(frame)
      BY <1>1, <1>3
<1> QED BY <1>1, <1>4 DEF Whole

\* What is written at the end of a part is the next part.
LEMMA PartConcat ==
    ASSUME NEW m \in Nat, NEW n \in Nat
    PROVE  /\ Part(m) \o [k \in 1 .. n |-> m + k] = Part(m + n)
           /\ Len(Part(m)) = m
<1> DEFINE more == [k \in 1 .. n |-> m + k]
<1>1. \A i \in Nat : Part(i) \in Seq(Nat) /\ Len(Part(i)) = i
      BY DEF Part
<1>2. more \in Seq(Nat) /\ Len(more) = n /\ \A i \in 1 .. n : more[i] = m + i
      OBVIOUS
<1> HIDE DEF more
<1>3. /\ Part(m) \o more \in Seq(Nat)
      /\ Len(Part(m) \o more) = m + n
      /\ \A i \in 1 .. m + n : (Part(m) \o more)[i] = IF i <= m THEN Part(m)[i] ELSE more[i - m]
  <2>1. Part(m) \in Seq(Nat) /\ Len(Part(m)) = m BY <1>1
  <2>2. /\ Part(m) \o more \in Seq(Nat)
        /\ Len(Part(m) \o more) = Len(Part(m)) + Len(more)
        /\ \A i \in 1 .. Len(Part(m)) + Len(more) :
             (Part(m) \o more)[i] =
               IF i <= Len(Part(m)) THEN Part(m)[i] ELSE more[i - Len(Part(m))]
        BY <1>2, <2>1, ConcatProperties
  <2> QED BY <1>2, <2>1, <2>2
<1>4. m + n \in Nat OBVIOUS
<1>5. ASSUME NEW i \in 1 .. m + n PROVE (Part(m) \o more)[i] = Part(m + n)[i]
  <2>1. CASE i <= m BY <1>3, <2>1 DEF Part
  <2>2. CASE i > m
    <3>1. i - m \in 1 .. n BY <2>2
    <3>2. more[i - m] = m + (i - m) BY <1>2, <3>1
    <3>3. Part(m + n)[i] = i BY DEF Part
    <3>4. (Part(m) \o more)[i] = more[i - m] BY <1>3, <2>2
    <3>5. m + (i - m) = i OBVIOUS
    <3> QED BY <3>2, <3>3, <3>4, <3>5
  <2>3. i <= m \/ i > m OBVIOUS
  <2> QED BY <2>1, <2>2, <2>3
<1>6. Part(m) \o more = Part(m + n)
  <2>1. Part(m + n) \in Seq(Nat) /\ Part(m) \o more \in Seq(Nat) BY <1>1, <1>3, <1>4
  <2>2. Len(Part(m) \o more) = Len(Part(m + n)) BY <1>1, <1>3, <1>4
  <2>3. \A i \in 1 .. Len(Part(m) \o more) : (Part(m) \o more)[i] = Part(m + n)[i]
        BY <1>3, <1>5
  <2> QED BY <2>1, <2>2, <2>3, SeqEqual
<1> QED BY <1>1, <1>6 DEF more

\* The frame that is being sent is one.
LEMMA CurrentFrame ==
    ASSUME Types PROVE Current \in Frames
BY DEF Types, Current, Frame, Frames

\* The first n pieces of a line and the others.
LEMMA Cut ==
    ASSUME NEW w \in Seq(Pieces), NEW f, \A i \in 1 .. Len(w) : w[i].frame = f,
           NEW n \in 1 .. Len(w)
    PROVE  /\ SubSeq(w, 1, n) \in Seq(Pieces) /\ Len(SubSeq(w, 1, n)) = n
           /\ \A i \in 1 .. n : SubSeq(w, 1, n)[i].frame = f
           /\ SubSeq(w, n + 1, Len(w)) \in Seq(Pieces)
           /\ \A i \in 1 .. Len(SubSeq(w, n + 1, Len(w))) : SubSeq(w, n + 1, Len(w))[i].frame = f
<1>1. Len(w) \in Nat /\ \A i \in 1 .. Len(w) : w[i] \in Pieces BY LenProperties
<1>2. \A i \in 1 .. n : w[i] \in Pieces BY <1>1
<1>3. /\ SubSeq(w, 1, n) \in Seq(Pieces)
      /\ Len(SubSeq(w, 1, n)) = IF 1 <= n THEN n - 1 + 1 ELSE 0
      /\ \A i \in 1 .. n - 1 + 1 : SubSeq(w, 1, n)[i] = w[1 + i - 1]
      BY <1>2, SubSeqProperties
<1>4. \A i \in n + 1 .. Len(w) : w[i] \in Pieces BY <1>1
<1>5. n + 1 \in Int /\ Len(w) \in Int BY <1>1
<1>6. /\ SubSeq(w, n + 1, Len(w)) \in Seq(Pieces)
      /\ Len(SubSeq(w, n + 1, Len(w))) =
           IF n + 1 <= Len(w) THEN Len(w) - (n + 1) + 1 ELSE 0
      /\ \A i \in 1 .. Len(w) - (n + 1) + 1 : SubSeq(w, n + 1, Len(w))[i] = w[n + 1 + i - 1]
      BY <1>4, <1>5, SubSeqProperties
<1>7. \A i \in 1 .. n : 1 + i - 1 \in 1 .. Len(w) /\ 1 + i - 1 = i BY <1>1
<1>8. \A i \in 1 .. n : SubSeq(w, 1, n)[i].frame = f BY <1>3, <1>7
<1>9. ASSUME NEW i \in 1 .. Len(SubSeq(w, n + 1, Len(w)))
      PROVE  SubSeq(w, n + 1, Len(w))[i].frame = f
  <2>1. i \in 1 .. Len(w) - (n + 1) + 1 /\ n + 1 + i - 1 \in 1 .. Len(w) BY <1>1, <1>6
  <2> QED BY <1>6, <2>1
<1> QED BY <1>3, <1>6, <1>8, <1>9

\* A frame that is complete when a chunk is added to the pieces p is the frame the
\* chunk is of: its last piece is one of the chunk's.
LEMMA Gathered ==
    ASSUME NEW p \in Seq(Pieces), NEW c \in Seq(Pieces), NEW f, Len(c) >= 1,
           \A i \in 1 .. Len(c) : c[i].frame = f,
           NEW max \in Nat, Len(p) < max
    PROVE  /\ p \o c \in Seq(Pieces) /\ Len(p \o c) = Len(p) + Len(c)
           /\ (p \o c)[1].frame \in Frames
           /\ /\ Len(p \o c) >= max
              /\ SubSeq(p \o c, 1, max) = Whole((p \o c)[1].frame)
              => (p \o c)[1].frame = f /\ Size(f) = max
<1> DEFINE all == p \o c
<1>1. Len(p) \in Nat /\ Len(c) \in Nat BY LenProperties
<1>2. /\ all \in Seq(Pieces) /\ Len(all) = Len(p) + Len(c)
      /\ \A i \in 1 .. Len(p) + Len(c) : all[i] = IF i <= Len(p) THEN p[i] ELSE c[i - Len(p)]
      BY ConcatProperties
<1> HIDE DEF all
<1>3. \A i \in 1 .. Len(all) : all[i] \in Pieces BY <1>2, LenProperties
<1>4. 1 \in 1 .. Len(all) BY <1>1, <1>2
<1>5. all[1] \in Pieces BY <1>3, <1>4
<1>6. all[1].frame \in Frames BY <1>5 DEF Pieces
<1>7. ASSUME Len(all) >= max, SubSeq(all, 1, max) = Whole(all[1].frame)
      PROVE  all[1].frame = f /\ Size(f) = max
  <2>1. \A i \in 1 .. max : all[i] \in Pieces BY <1>1, <1>2, <1>3, <1>7
  <2>2. /\ Len(SubSeq(all, 1, max)) = IF 1 <= max THEN max - 1 + 1 ELSE 0
        /\ \A i \in 1 .. max - 1 + 1 : SubSeq(all, 1, max)[i] = all[1 + i - 1]
        BY <2>1, SubSeqProperties
  <2>3. max >= 1 /\ 1 + max - 1 = max /\ max \in 1 .. max - 1 + 1 BY <1>1
  <2>4. Len(SubSeq(all, 1, max)) = max /\ SubSeq(all, 1, max)[max] = all[max]
        BY <2>2, <2>3
  <2>5. max - Len(p) \in 1 .. Len(c) /\ max \in 1 .. Len(p) + Len(c) /\ ~(max <= Len(p))
        BY <1>1, <1>2, <1>7
  <2>6. all[max] = c[max - Len(p)] BY <1>2, <2>5
  <2>7. all[max].frame = f BY <2>5, <2>6
  <2>8. /\ Len(Whole(all[1].frame)) = Size(all[1].frame)
        /\ \A i \in 1 .. Len(Whole(all[1].frame)) :
              Whole(all[1].frame)[i].frame = all[1].frame
        BY <1>6, WholeProps
  <2>9. max \in 1 .. Len(Whole(all[1].frame)) BY <1>7, <2>3, <2>4
  <2>10. all[max].frame = all[1].frame BY <1>7, <2>4, <2>8, <2>9
  <2> QED BY <1>7, <2>4, <2>7, <2>8, <2>10
<1> QED BY <1>2, <1>6, <1>7 DEF all

-----------------------------------------------------------------------------
(* What a call of luat_ymodem_receive does *)

\* the frame is not complete, and the pieces fit
Collected ==
    \E all \in Seq(Pieces) :
       /\ Collect(all)
       /\ state \in {0, 1} /\ data_max' >= 1 /\ Len(all) <= data_max'
       /\ state = 1 => Len(all) < data_max'

Created == state = 0 /\ step = "header" /\ Create(Current)

WroteNext ==
    /\ state = 1 /\ step = "data" /\ no = next_sn
    /\ Write(Current, LenEnd(Current))

Finished ==
    /\ step \in {"end", "can"} /\ Finish
    /\ packet # <<>> => data_max' = data_max

SawEot ==
    /\ step = "eot" /\ state \in {2, 3}
    /\ file_ok' = FALSE /\ all_done' = FALSE
    /\ UNCHANGED <<next_sn, file_size, written>>
    /\ \/ state = 2 /\ state' = 3 /\ packet' = <<>> /\ open' = FALSE /\ Answer("NAK")
       \/ state = 3 /\ state' = 0 /\ UNCHANGED <<packet, open>> /\ Answer("ACK")

Outcome == Refuse \/ Collected \/ Created \/ WroteNext \/ Finished \/ SawEot

\* A chunk that looks like CAN or EOT is one.
LEMMA FirstIsTrue ==
    ASSUME YmInv, TrueMids, Len(wire) >= 1, NEW first \in FirstBytes(wire[1])
    PROVE  /\ first = "CAN" => step = "can"
           /\ first = "EOT" => step = "eot"
<1>1. 1 \in 1 .. Len(wire) BY LenProperties DEF YmInv, Types
<1>2. wire[1].frame = Current BY <1>1 DEF YmInv, OnLine
<1>3. Current.what = step /\ Current.kind \in Kinds
      BY DEF YmInv, Types, Current, Frame
<1> QED BY <1>2, <1>3 DEF FirstBytes, TrueMids, Kinds

\* In state 0 a chunk completes the header or the end of a transfer.
LEMMA HeaderOutcome ==
    ASSUME YmInv, state = 0, Busy, NEW chunk \in Seq(Pieces), Len(chunk) >= 1,
           \A i \in 1 .. Len(chunk) : chunk[i].frame = Current,
           NEW first, ReceiveHeader(chunk, first)
    PROVE  Outcome /\ data_max' \in 0 .. StxUnits + 1
<1>1. CASE packet = <<>> /\ first \notin Kinds /\ Refuse /\ UNCHANGED data_max
      BY <1>1 DEF Outcome, YmInv, Types
<1>2. CASE ~(packet = <<>> /\ first \notin Kinds /\ Refuse /\ UNCHANGED data_max)
  <2> DEFINE max == IF packet = <<>> THEN Units(first) ELSE data_max
             all == packet \o chunk
             frame == all[1].frame
             good == SubSeq(all, 1, max + 1) = Whole(frame) /\ frame.sn = 0
  <2>1. packet # <<>> \/ first \in Kinds BY <1>2 DEF ReceiveHeader
  <2>2. /\ max \in 1 .. StxUnits + 1 /\ max + 1 \in Nat
        /\ packet \in Seq(Pieces) /\ Len(packet) < max + 1
        /\ packet # <<>> => max = data_max
    <3>1. CASE packet = <<>>
          BY <2>1, <3>1, UnitsProps, EmptySeq, YmodemAssumption DEF YmInv, Types
    <3>2. CASE packet # <<>>
      <4>1. data_max \in 1 .. StxUnits + 1 /\ Len(packet) <= data_max /\ packet \in Seq(Pieces)
            BY <3>2, YmodemAssumption DEF YmInv, Types, Filling
      <4>2. Len(packet) \in Nat BY <4>1, LenProperties
      <4> QED BY <3>2, <4>1, <4>2, YmodemAssumption
    <3> QED BY <3>1, <3>2
  <2>3. \/ Len(all) < max + 1 /\ Collect(all) /\ data_max' = max
        \/ Len(all) >= max + 1 /\ ~good /\ Refuse /\ data_max' = max
        \/ Len(all) >= max + 1 /\ good /\ frame.what = "end" /\ Finish /\ data_max' = max
        \/ /\ Len(all) >= max + 1 /\ good /\ frame.what # "end"
           /\ Create(frame) /\ data_max' = StxUnits + 1
        BY <1>2 DEF ReceiveHeader
  <2> HIDE DEF max
  <2>4. /\ all \in Seq(Pieces) /\ Len(all) = Len(packet) + Len(chunk)
        /\ frame \in Frames
        /\ Len(all) >= max + 1 /\ SubSeq(all, 1, max + 1) = Whole(frame)
              => frame = Current /\ Size(Current) = max + 1
        BY <2>2, Gathered
  <2>5. Len(all) \in Nat BY <2>4, LenProperties
  <2> HIDE DEF all
  <2>6. Len(all) >= max + 1 /\ good => frame = Current /\ Size(Current) = max + 1 /\ frame.sn = 0
        BY <2>4
  <2>7. /\ Current.what = step /\ Current.sn = no
        BY DEF Current, Frame
  <2>8. Size(Current) = max + 1 => step \notin {"eot", "can"}
        BY <2>2, <2>7 DEF Size
  <2>9. step # "data" BY DEF YmInv, Agreed, Waiting, Taken
  <2> HIDE DEF frame, good
  <2>10. CASE Len(all) < max + 1 /\ Collect(all) /\ data_max' = max
    <3>1. Len(all) <= data_max' /\ data_max' >= 1 BY <2>2, <2>5, <2>10
    <3> QED BY <2>2, <2>4, <2>10, <3>1 DEF Outcome, Collected
  <2>11. CASE Len(all) >= max + 1 /\ ~good /\ Refuse /\ data_max' = max
         BY <2>2, <2>11 DEF Outcome
  <2>12. CASE Len(all) >= max + 1 /\ good /\ frame.what = "end" /\ Finish /\ data_max' = max
         BY <2>2, <2>6, <2>7, <2>12 DEF Outcome, Finished
  <2>13. CASE /\ Len(all) >= max + 1 /\ good /\ frame.what # "end"
              /\ Create(frame) /\ data_max' = StxUnits + 1
    <3>1. frame = Current /\ step = "header"
          BY <2>6, <2>7, <2>8, <2>9, <2>13 DEF YmInv, Types, Steps, Busy
    <3>2. StxUnits + 1 \in 0 .. StxUnits + 1 BY YmodemAssumption
    <3> QED BY <2>13, <3>1, <3>2 DEF Outcome, Created
  <2> QED BY <2>3, <2>10, <2>11, <2>12, <2>13
<1> QED BY <1>1, <1>2

\* In state 1 a chunk completes the next block.
LEMMA DataOutcome ==
    ASSUME YmInv, state = 1, Busy, NEW chunk \in Seq(Pieces), Len(chunk) >= 1,
           \A i \in 1 .. Len(chunk) : chunk[i].frame = Current,
           NEW first, ReceiveData(chunk, first)
    PROVE  Outcome /\ data_max' \in 0 .. StxUnits + 1
<1>1. CASE packet = <<>> /\ first \notin Kinds /\ Refuse /\ UNCHANGED data_max
      BY <1>1 DEF Outcome, YmInv, Types
<1>2. CASE ~(packet = <<>> /\ first \notin Kinds /\ Refuse /\ UNCHANGED data_max)
  <2> DEFINE max == IF packet = <<>> THEN Units(first) + 1 ELSE data_max
             all == packet \o chunk
             frame == all[1].frame
             good == DataGood(frame, SubSeq(all, 1, max))
  <2>1. packet # <<>> \/ first \in Kinds BY <1>2 DEF ReceiveData
  <2>2. /\ max \in 2 .. StxUnits + 1 /\ max \in Nat
        /\ packet \in Seq(Pieces) /\ Len(packet) < max
    <3>1. CASE packet = <<>>
          BY <2>1, <3>1, UnitsProps, EmptySeq, YmodemAssumption DEF YmInv, Types
    <3>2. CASE packet # <<>>
      <4>1. data_max \in 1 .. StxUnits + 1 /\ Len(packet) < data_max /\ packet \in Seq(Pieces)
            BY <3>2, YmodemAssumption DEF YmInv, Types, Filling
      <4>2. Len(packet) \in Nat /\ Len(packet) > 0 BY <3>2, <4>1, EmptySeq
      <4> QED BY <3>2, <4>1, <4>2, YmodemAssumption
    <3> QED BY <3>1, <3>2
  <2>3. /\ data_max' = max
        /\ \/ Len(all) < max /\ Collect(all)
           \/ Len(all) >= max /\ ~good /\ Refuse
           \/ Len(all) >= max /\ good /\ Write(frame, LenEnd(frame))
        BY <1>2 DEF ReceiveData
  <2> HIDE DEF max
  <2>4. /\ all \in Seq(Pieces) /\ Len(all) = Len(packet) + Len(chunk)
        /\ Len(all) >= max /\ SubSeq(all, 1, max) = Whole(frame)
              => frame = Current /\ Size(Current) = max
        BY <2>2, Gathered
  <2>5. Len(all) \in Nat BY <2>4, LenProperties
  <2> HIDE DEF all
  <2>6. Len(all) >= max /\ good => frame = Current /\ Size(Current) = max /\ frame.sn = next_sn
        BY <2>4 DEF DataGood
  <2>7. Current.what = step /\ Current.sn = no
        BY DEF Current, Frame
  <2>8. Size(Current) = max => step \notin {"eot", "can"}
        BY <2>2, <2>7 DEF Size
  <2>9. step \notin {"idle", "end", "over"} /\ (step = "header" => no = 0 /\ next_sn = 1)
        BY DEF YmInv, Agreed, Busy
  <2> HIDE DEF frame, good
  <2>10. CASE Len(all) < max /\ Collect(all)
    <3>1. Len(all) < data_max' /\ Len(all) <= data_max' /\ data_max' >= 1
          BY <2>2, <2>3, <2>5, <2>10
    <3> QED BY <2>2, <2>3, <2>4, <2>10, <3>1 DEF Outcome, Collected
  <2>11. CASE Len(all) >= max /\ ~good /\ Refuse
         BY <2>2, <2>3, <2>11 DEF Outcome
  <2>12. CASE Len(all) >= max /\ good /\ Write(frame, LenEnd(frame))
    <3>1. frame = Current /\ no = next_sn
          BY <2>6, <2>7, <2>12
    <3>2. step = "data"
          BY <2>6, <2>8, <2>9, <2>12, <3>1 DEF YmInv, Types, Steps
    <3> QED BY <2>2, <2>3, <2>12, <3>1, <3>2 DEF Outcome, WroteNext
  <2> QED BY <2>3, <2>10, <2>11, <2>12
<1> QED BY <1>1, <1>2

\* The chunk is taken off the line, and has one of the outcomes.
LEMMA Outcomes ==
    ASSUME YmInv, TrueMids, NEW n \in 1 .. StxUnits + 1, Receive(n)
    PROVE  /\ Busy /\ Outcome
           /\ UNCHANGED <<frameVars, faults, sessions, spoilt>>
           /\ wire' \in Seq(Pieces)
           /\ \A i \in 1 .. Len(wire') : wire'[i].frame = Current
           /\ data_max' \in 0 .. StxUnits + 1
<1> DEFINE chunk == SubSeq(wire, 1, n)
<1>1. /\ n <= Len(wire) /\ wire' = SubSeq(wire, n + 1, Len(wire))
      /\ UNCHANGED <<frameVars, faults, sessions, spoilt>>
      BY DEF Receive
<1>2. wire \in Seq(Pieces) /\ Len(wire) \in Nat BY LenProperties DEF YmInv, Types
<1>3. n \in 1 .. Len(wire) /\ Len(wire) >= 1 BY <1>1, <1>2
<1>4. \A i \in 1 .. Len(wire) : wire[i].frame = Current BY DEF YmInv, OnLine
<1>5. /\ chunk \in Seq(Pieces) /\ Len(chunk) = n
      /\ \A i \in 1 .. n : chunk[i].frame = Current
      /\ wire' \in Seq(Pieces)
      /\ \A i \in 1 .. Len(wire') : wire'[i].frame = Current
      BY <1>1, <1>2, <1>3, <1>4, Cut
<1>6. Len(chunk) >= 1 /\ \A i \in 1 .. Len(chunk) : chunk[i].frame = Current BY <1>5
<1>7. Busy BY <1>3, EmptySeq DEF YmInv, OnLine
<1>8. PICK first \in FirstBytes(wire[1]) :
          \/ first = "CAN" /\ Finish /\ UNCHANGED data_max
          \/ first # "CAN" /\ state = 0 /\ ReceiveHeader(chunk, first)
          \/ first # "CAN" /\ state = 1 /\ ReceiveData(chunk, first)
          \/ first # "CAN" /\ state \in {2, 3} /\ ReceiveEot(first)
      BY DEF Receive
<1>9. /\ first = "CAN" => step = "can"
      /\ first = "EOT" => step = "eot"
      BY <1>3, <1>8, FirstIsTrue
<1> HIDE DEF chunk
<1>10. CASE first = "CAN" /\ Finish /\ UNCHANGED data_max
       BY <1>1, <1>5, <1>7, <1>9, <1>10 DEF Outcome, Finished, YmInv, Types
<1>11. CASE state = 0 /\ ReceiveHeader(chunk, first)
       BY <1>1, <1>5, <1>6, <1>7, <1>11, HeaderOutcome
<1>12. CASE state = 1 /\ ReceiveData(chunk, first)
       BY <1>1, <1>5, <1>6, <1>7, <1>12, DataOutcome
<1>13. CASE state \in {2, 3} /\ ReceiveEot(first)
  <2>1. data_max' \in 0 .. StxUnits + 1 BY <1>13 DEF ReceiveEot, YmInv, Types
  <2>2. Refuse \/ SawEot BY <1>9, <1>13 DEF ReceiveEot, SawEot
  <2> QED BY <1>1, <1>5, <1>7, <2>1, <2>2 DEF Outcome
<1> QED BY <1>8, <1>10, <1>11, <1>12, <1>13

-----------------------------------------------------------------------------
(* The invariant is kept by a call of luat_ymodem_receive *)

\* An answer joins the replies.
LEMMA Answered ==
    ASSUME NEW x \in {"C", "ACK", "NAK"}, replies \in Seq({"C", "ACK", "NAK"}), Answer(x)
    PROVE  /\ replies' \in Seq({"C", "ACK", "NAK"}) /\ replies' # <<>>
           /\ "ACK" \in Range(replies') <=> x = "ACK" \/ "ACK" \in Range(replies)
<1>1. Len(replies) \in Nat /\ DOMAIN replies = 1 .. Len(replies) BY LenProperties
<1>2. /\ replies' \in Seq({"C", "ACK", "NAK"}) /\ Len(replies') = Len(replies) + 1
      /\ \A i \in 1 .. Len(replies) : replies'[i] = replies[i]
      /\ replies'[Len(replies) + 1] = x
      BY AppendProperties DEF Answer
<1>3. DOMAIN replies' = 1 .. Len(replies) + 1 BY <1>2, LenProperties
<1>4. replies' # <<>> BY <1>1, <1>2, EmptySeq
<1>5. \A i \in 1 .. Len(replies) + 1 : i \in 1 .. Len(replies) \/ i = Len(replies) + 1
      BY <1>1
<1>6. \A i \in 1 .. Len(replies) : i \in 1 .. Len(replies) + 1 BY <1>1
<1>7. Len(replies) + 1 \in 1 .. Len(replies) + 1 BY <1>1
<1> QED BY <1>1, <1>2, <1>3, <1>4, <1>5, <1>6, <1>7 DEF Range

\* What a call leaves as it is.
CallFrame ==
    /\ YmInv /\ Busy
    /\ UNCHANGED <<frameVars, faults, sessions, spoilt>>
    /\ wire' \in Seq(Pieces)
    /\ \A i \in 1 .. Len(wire') : wire'[i].frame = Current
    /\ data_max' \in 0 .. StxUnits + 1

\* The sender and the line after a call.
LEMMA CallLine ==
    ASSUME CallFrame
    PROVE  /\ OnLine' /\ Busy' /\ Current' = Current
           /\ step' \in Steps /\ at' \in Nat /\ no' \in 0 .. SnMod - 1 /\ kind' \in Kinds
           /\ wire' \in Seq(Pieces) /\ data_max' \in 0 .. StxUnits + 1
           /\ faults' \in 0 .. MaxFaults /\ sessions' \in Nat /\ spoilt' \in BOOLEAN
<1>1. Current' = Current BY DEF CallFrame, Current, Frame, frameVars
<1>2. Busy' /\ step' # "over" BY DEF CallFrame, Busy, frameVars
<1> QED BY <1>1, <1>2 DEF CallFrame, OnLine, YmInv, Types, frameVars

\* The types after a call, from those of the receiver.
LEMMA CallTypes ==
    ASSUME CallFrame,
           state' \in 0 .. 3, next_sn' \in 0 .. SnMod - 1,
           packet' \in Seq(Pieces), Len(packet') <= StxUnits + 1,
           file_size' \in {0, FileLen},
           written' \in Seq(1 .. FileLen), Len(written') <= FileLen,
           open' \in BOOLEAN, file_ok' \in BOOLEAN, all_done' \in BOOLEAN,
           replies' \in Seq({"C", "ACK", "NAK"})
    PROVE  Types'
<1>1. data_max' \in 0 .. StxUnits + 1 BY CallLine
<1> QED BY <1>1, CallLine DEF Types

\* Nothing is received.
LEMMA NoPieces ==
    ASSUME packet' = <<>>
    PROVE  packet' \in Seq(Pieces) /\ Len(packet') <= StxUnits + 1
<1>1. Len(packet') = 0 /\ packet' \in Seq(Pieces) BY EmptySeq
<1> QED BY <1>1, YmodemAssumption

LEMMA KeepsRefuse ==
    ASSUME CallFrame, Refuse PROVE YmInv'
<1>1. /\ replies' \in Seq({"C", "ACK", "NAK"})
      /\ "ACK" \in Range(replies') => "ACK" \in Range(replies)
      BY Answered DEF CallFrame, YmInv, Types, Refuse
<1>2. Types'
  <2>1. packet' \in Seq(Pieces) /\ Len(packet') <= StxUnits + 1 BY NoPieces DEF Refuse
  <2>2. UNCHANGED <<state, next_sn, file_size, written, open>>
        /\ file_ok' = FALSE /\ all_done' = FALSE
        BY DEF Refuse
  <2> QED BY <1>1, <2>1, <2>2, CallTypes DEF CallFrame, YmInv, Types
<1>3. Filling' BY DEF Filling, Refuse
<1>4. Copied' BY DEF CallFrame, YmInv, Copied, Refuse
<1>5. Agreed'
      BY <1>1 DEF CallFrame, YmInv, Agreed, Accepted, Waiting, Taken, Refuse, frameVars
<1>6. Done' BY DEF Done, Refuse
<1> QED BY <1>2, <1>3, <1>4, <1>5, <1>6, CallLine DEF YmInv

LEMMA KeepsCollected ==
    ASSUME CallFrame, Collected PROVE YmInv'
<1>1. PICK all \in Seq(Pieces) :
          /\ Collect(all)
          /\ state \in {0, 1} /\ data_max' >= 1 /\ Len(all) <= data_max'
          /\ state = 1 => Len(all) < data_max'
      BY DEF Collected
<1>2. Len(all) \in Nat /\ Len(all) <= StxUnits + 1
      BY <1>1, LenProperties, YmodemAssumption DEF CallFrame
<1>3. Types' BY <1>1, <1>2, CallLine DEF CallFrame, YmInv, Types, Collect
<1>4. Filling' BY <1>1 DEF Filling, Collect
<1>5. Copied' BY <1>1 DEF CallFrame, YmInv, Copied, Collect
<1>6. Agreed'
      BY <1>1 DEF CallFrame, YmInv, Agreed, Accepted, Waiting, Taken, Collect, frameVars
<1>7. Done' BY <1>1 DEF Done, Collect
<1> QED BY <1>3, <1>4, <1>5, <1>6, <1>7, CallLine DEF YmInv

LEMMA KeepsCreated ==
    ASSUME CallFrame, Created PROVE YmInv'
<1>1. /\ replies' \in Seq({"C", "ACK", "NAK"})
      BY Answered DEF CallFrame, YmInv, Types, Created, Create
<1>2. Current.what = "header" BY DEF Created, Current, Frame
<1>3. /\ state' = 1 /\ next_sn' = 1 /\ packet' = <<>> /\ file_size' = FileLen
      /\ written' = <<>> /\ open' = TRUE /\ file_ok' = FALSE /\ all_done' = FALSE
      BY <1>2 DEF Created, Create
<1>4. Len(written') = 0 /\ written' \in Seq(1 .. FileLen) /\ written' = Part(0)
      BY <1>3, EmptySeq DEF Part
<1>5. 1 \in 0 .. SnMod - 1 BY YmodemAssumption
<1>6. Types'
  <2>1. packet' \in Seq(Pieces) /\ Len(packet') <= StxUnits + 1 BY <1>3, NoPieces
  <2>2. Len(written') <= FileLen BY <1>4, YmodemAssumption
  <2>3. state' \in 0 .. 3 /\ next_sn' \in 0 .. SnMod - 1 /\ file_size' \in {0, FileLen}
        BY <1>3, <1>5
  <2>4. open' \in BOOLEAN /\ file_ok' \in BOOLEAN /\ all_done' \in BOOLEAN BY <1>3
  <2> QED BY <1>1, <1>4, <2>1, <2>2, <2>3, <2>4, CallTypes
<1>7. Filling' BY <1>3 DEF Filling
<1>8. Copied' BY <1>3, <1>4, YmodemAssumption DEF Copied
<1>9. step' = "header" BY DEF Created, CallFrame, frameVars
<1>10. Agreed'
       BY <1>3, <1>9 DEF CallFrame, YmInv, Agreed, Accepted, Created, frameVars
<1>11. Done' BY <1>3 DEF Done
<1> QED BY <1>6, <1>7, <1>8, <1>10, <1>11, CallLine DEF YmInv

\* A block that is written is the next part of the file.
LEMMA WrittenNext ==
    ASSUME CallFrame, WroteNext
    PROVE  /\ Len(written) = at /\ Len(written) < Len(written') /\ Len(written') <= FileLen
           /\ written' = Part(Len(written')) /\ written' \in Seq(1 .. FileLen)
           /\ Taken' /\ state' \in {1, 2} /\ next_sn' \in 0 .. SnMod - 1
           /\ open' \in BOOLEAN /\ file_ok' \in BOOLEAN
           /\ state' = IF Len(written') = FileLen THEN 2 ELSE 1
<1> DEFINE n == LenEnd(Current)
           more == [k \in 1 .. n |-> at + k]
<1>1. /\ at \in Nat /\ kind \in Kinds /\ no \in 0 .. SnMod - 1 /\ next_sn \in 0 .. SnMod - 1
      /\ FileLen \in Nat /\ Units(kind) \in 1 .. StxUnits /\ Units(kind) \in Nat
      BY UnitsProps, YmodemAssumption DEF CallFrame, YmInv, Types
<1>2. Len(written) = at
      BY <1>1, NextNumberProps DEF CallFrame, YmInv, Agreed, Waiting, Taken, WroteNext
<1>3. at < FileLen /\ file_size = FileLen /\ written = Part(at)
      BY <1>2 DEF CallFrame, YmInv, Copied, WroteNext
<1>4. Current.at = at /\ Current.kind = kind BY DEF Current, Frame
<1>5. /\ n \in Nat /\ n > 0
      /\ at + n = IF at + Units(kind) < FileLen THEN at + Units(kind) ELSE FileLen
      BY <1>1, <1>2, <1>3, <1>4 DEF LenEnd
<1> HIDE DEF n
<1>6. /\ written' = written \o more
      /\ next_sn' = NextNumber(next_sn)
      /\ state' = IF file_size # 0 /\ Len(written') >= file_size THEN 2 ELSE 1
      /\ open' = ~(file_size # 0 /\ Len(written') >= file_size)
      /\ file_ok' = (file_size # 0 /\ Len(written') >= file_size)
      BY <1>4 DEF WroteNext, Write, n
<1> HIDE DEF more
<1>7. /\ written' = Part(at + n) /\ at + n \in Nat
  <2>1. written' = Part(at) \o more
    <3>1. written = Part(at) BY <1>3
    <3>2. written' = written \o more BY <1>6
    <3> QED BY <3>1, <3>2
  <2>2. Part(at) \o more = Part(at + n) BY <1>1, <1>5, PartConcat DEF more
  <2> QED BY <1>1, <1>5, <2>1, <2>2
<1>8. Len(written') = at + n BY <1>7, PartConcat
<1>9. at + n <= FileLen /\ at < at + n BY <1>1, <1>3, <1>5
<1>10. written' \in Seq(1 .. FileLen)
  <2>1. written' \in [1 .. at + n -> 1 .. FileLen] BY <1>1, <1>7, <1>9 DEF Part
  <2> QED BY <1>7, <2>1, SeqDef
<1>11. state' = IF Len(written') = FileLen THEN 2 ELSE 1
  <2>1. file_size = FileLen /\ FileLen # 0 /\ FileLen \in Nat BY <1>3, YmodemAssumption
  <2>2. Len(written') >= FileLen <=> Len(written') = FileLen BY <1>7, <1>8, <1>9, <2>1
  <2> QED BY <1>6, <2>1, <2>2
<1>12. next_sn' = NextNumber(no) /\ next_sn' \in 0 .. SnMod - 1
       BY <1>1, <1>6, NextNumberProps DEF WroteNext
<1>13. Taken'
       BY <1>3, <1>5, <1>8, <1>11, <1>12 DEF Taken, CallFrame, frameVars
<1> QED BY <1>2, <1>6, <1>7, <1>8, <1>9, <1>10, <1>11, <1>12, <1>13

LEMMA KeepsWroteNext ==
    ASSUME CallFrame, WroteNext PROVE YmInv'
<1>1. /\ replies' \in Seq({"C", "ACK", "NAK"})
      BY Answered DEF CallFrame, YmInv, Types, WroteNext, Write
<1>2. /\ packet' = <<>> /\ all_done' = FALSE /\ file_size' = file_size
      /\ file_size = FileLen
      BY DEF WroteNext, Write, CallFrame, YmInv, Copied
<1>3. Types'
  <2>1. packet' \in Seq(Pieces) /\ Len(packet') <= StxUnits + 1 BY <1>2, NoPieces
  <2>2. state' \in 0 .. 3 BY WrittenNext
  <2>3. all_done' \in BOOLEAN /\ file_size' \in {0, FileLen} BY <1>2
  <2> QED BY <1>1, <2>1, <2>2, <2>3, WrittenNext, CallTypes
<1>4. Filling' BY <1>2 DEF Filling
<1>5. Copied'
  <2>1. Len(written') \in Nat /\ FileLen \in Nat
        BY WrittenNext, LenProperties, YmodemAssumption
  <2> QED BY <1>2, <2>1, WrittenNext DEF Copied
<1>6. step' = "data" BY DEF WroteNext, CallFrame, frameVars
<1>7. Agreed' BY <1>6, WrittenNext DEF Agreed, Accepted
<1>8. Done' BY <1>2 DEF Done
<1> QED BY <1>3, <1>4, <1>5, <1>7, <1>8, CallLine DEF YmInv

LEMMA KeepsFinished ==
    ASSUME CallFrame, Finished PROVE YmInv'
<1>1. /\ replies' \in Seq({"C", "ACK", "NAK"})
      BY Answered DEF CallFrame, YmInv, Types, Finished, Finish
<1>2. /\ state' = 0 /\ next_sn' = 0 /\ file_size' = 0 /\ open' = FALSE
      /\ UNCHANGED <<packet, written>> /\ file_ok' = FALSE /\ all_done' = TRUE
      BY DEF Finished, Finish, Reset
<1>3. Types'
  <2>1. 0 \in 0 .. SnMod - 1 BY YmodemAssumption
  <2>2. packet' \in Seq(Pieces) /\ Len(packet') <= StxUnits + 1
        BY <1>2 DEF CallFrame, YmInv, Types
  <2>3. written' \in Seq(1 .. FileLen) /\ Len(written') <= FileLen
        BY <1>2 DEF CallFrame, YmInv, Types
  <2>4. state' \in 0 .. 3 /\ next_sn' \in 0 .. SnMod - 1 /\ file_size' \in {0, FileLen}
        BY <1>2, <2>1
  <2>5. open' \in BOOLEAN /\ file_ok' \in BOOLEAN /\ all_done' \in BOOLEAN
        BY <1>2
  <2> QED BY <1>1, <2>2, <2>3, <2>4, <2>5, CallTypes
<1>4. Filling' BY <1>2 DEF Filling, Finished, CallFrame, YmInv
<1>5. Copied' BY <1>2 DEF CallFrame, YmInv, Copied
<1>6. step' = step /\ step \in {"end", "can"} BY DEF Finished, CallFrame, frameVars
<1>7. Agreed' BY <1>2, <1>6 DEF CallFrame, YmInv, Agreed, Accepted
<1>8. Done' BY <1>6 DEF Done
<1> QED BY <1>3, <1>4, <1>5, <1>7, <1>8, CallLine DEF YmInv

LEMMA KeepsSawEot ==
    ASSUME CallFrame, SawEot PROVE YmInv'
<1>1. CASE state = 2 /\ state' = 3 /\ packet' = <<>> /\ open' = FALSE /\ Answer("NAK")
  <2>1. /\ replies' \in Seq({"C", "ACK", "NAK"})
        /\ "ACK" \in Range(replies') => "ACK" \in Range(replies)
        BY <1>1, Answered DEF CallFrame, YmInv, Types
  <2>2. Types'
    <3>1. packet' \in Seq(Pieces) /\ Len(packet') <= StxUnits + 1 BY <1>1, NoPieces
    <3>2. state' \in 0 .. 3 BY <1>1
    <3>5. open' \in BOOLEAN BY <1>1
    <3>3. /\ next_sn' \in 0 .. SnMod - 1 /\ file_size' \in {0, FileLen}
          /\ written' \in Seq(1 .. FileLen) /\ Len(written') <= FileLen
          BY DEF CallFrame, YmInv, Types, SawEot
    <3>4. file_ok' \in BOOLEAN /\ all_done' \in BOOLEAN BY DEF SawEot
    <3> QED BY <2>1, <3>1, <3>2, <3>3, <3>4, <3>5, CallTypes
  <2>3. Filling' BY <1>1 DEF Filling
  <2>4. Copied' BY <1>1 DEF CallFrame, YmInv, Copied, SawEot
  <2>5. step' = "eot" BY DEF SawEot, CallFrame, frameVars
  <2>6. Agreed' BY <1>1, <2>1, <2>5 DEF CallFrame, YmInv, Agreed, Accepted, SawEot
  <2>7. Done' BY DEF Done, SawEot
  <2> QED BY <2>2, <2>3, <2>4, <2>6, <2>7, CallLine DEF YmInv
<1>2. CASE state = 3 /\ state' = 0 /\ UNCHANGED <<packet, open>> /\ Answer("ACK")
  <2>1. replies' \in Seq({"C", "ACK", "NAK"})
        BY <1>2, Answered DEF CallFrame, YmInv, Types
  <2>2. Types'
    <3>1. packet' = packet /\ state' \in 0 .. 3 BY <1>2
    <3> QED BY <1>2, <2>1, <3>1, CallTypes DEF CallFrame, YmInv, Types, SawEot
  <2>3. Filling' BY <1>2 DEF Filling, CallFrame, YmInv
  <2>4. Copied' BY <1>2 DEF CallFrame, YmInv, Copied, SawEot
  <2>5. step' = "eot" BY DEF SawEot, CallFrame, frameVars
  <2>6. Agreed' BY <1>2, <2>5 DEF CallFrame, YmInv, Agreed, Accepted, SawEot
  <2>7. Done' BY DEF Done, SawEot
  <2> QED BY <2>2, <2>3, <2>4, <2>6, <2>7, CallLine DEF YmInv
<1> QED BY <1>1, <1>2 DEF SawEot

LEMMA StepReceive ==
    ASSUME YmInv, TrueMids, NEW n \in 1 .. StxUnits + 1, Receive(n) PROVE YmInv'
<1>1. Outcome /\ CallFrame BY Outcomes DEF CallFrame
<1> QED
    BY <1>1, KeepsRefuse, KeepsCollected, KeepsCreated, KeepsWroteNext, KeepsFinished,
       KeepsSawEot DEF Outcome

-----------------------------------------------------------------------------
(* The invariant is kept by the sender and the line *)

\* A frame that is sent is on the line.
LEMMA Sent ==
    ASSUME NEW w \in Steps, NEW k \in Kinds, NEW m \in 0 .. SnMod - 1, NEW a \in Nat,
           w \notin {"idle", "over"}, Send(w, k, m, a)
    PROVE  /\ wire' \in Seq(Pieces) /\ OnLine'
           /\ step' = w /\ kind' = k /\ no' = m /\ at' = a
<1>1. /\ step' = w /\ kind' = k /\ no' = m /\ at' = a /\ wire' = Whole(Frame(w, k, m, a))
      BY DEF Send
<1>2. Frame(w, k, m, a) \in Frames BY DEF Frame, Frames
<1>3. Current' = Frame(w, k, m, a) BY <1>1 DEF Current, Frame
<1>4. Busy' /\ step' # "over" BY <1>1 DEF Busy
<1> QED BY <1>1, <1>2, <1>3, <1>4, WholeProps DEF OnLine

\* What the sender and the line leave as it is.
ReceiverFrame == YmInv /\ UNCHANGED <<receiverVars, file_ok, all_done>>

LEMMA ReceiverKeeps ==
    ASSUME ReceiverFrame
    PROVE  /\ Filling' /\ Copied'
           /\ state' \in 0 .. 3 /\ next_sn' \in 0 .. SnMod - 1
           /\ data_max' \in 0 .. StxUnits + 1
           /\ packet' \in Seq(Pieces) /\ Len(packet') <= StxUnits + 1
           /\ file_size' \in {0, FileLen}
           /\ written' \in Seq(1 .. FileLen) /\ Len(written') <= FileLen
           /\ open' \in BOOLEAN /\ file_ok' \in BOOLEAN /\ all_done' \in BOOLEAN
<1>1. /\ state' = state /\ next_sn' = next_sn /\ data_max' = data_max /\ packet' = packet
      /\ file_size' = file_size /\ written' = written /\ open' = open
      /\ file_ok' = file_ok /\ all_done' = all_done
      BY DEF ReceiverFrame, receiverVars
<1>2. Filling' BY <1>1 DEF ReceiverFrame, YmInv, Filling
<1>3. Copied' BY <1>1 DEF ReceiverFrame, YmInv, Copied
<1> QED BY <1>1, <1>2, <1>3 DEF ReceiverFrame, YmInv, Types

\* An empty list of replies, and one without its first.
LEMMA FewerReplies ==
    ASSUME NEW r \in Seq({"C", "ACK", "NAK"})
    PROVE  /\ <<>> \in Seq({"C", "ACK", "NAK"}) /\ "ACK" \notin Range(<<>>)
           /\ r # <<>> => /\ Tail(r) \in Seq({"C", "ACK", "NAK"})
                          /\ "ACK" \in Range(Tail(r)) => "ACK" \in Range(r)
<1>1. <<>> \in Seq({"C", "ACK", "NAK"}) /\ Len(<<>>) = 0 BY EmptySeq
<1>2. DOMAIN <<>> = {} BY <1>1
<1>3. ASSUME r # <<>>
      PROVE  /\ Tail(r) \in Seq({"C", "ACK", "NAK"})
             /\ "ACK" \in Range(Tail(r)) => "ACK" \in Range(r)
  <2>1. /\ Tail(r) \in Seq({"C", "ACK", "NAK"}) /\ Len(Tail(r)) = Len(r) - 1
        /\ \A i \in 1 .. Len(Tail(r)) : Tail(r)[i] = r[i + 1]
        BY <1>3, HeadTailProperties
  <2>2. DOMAIN r = 1 .. Len(r) /\ DOMAIN Tail(r) = 1 .. Len(Tail(r)) /\ Len(r) \in Nat
        BY <2>1, LenProperties
  <2>3. \A i \in 1 .. Len(Tail(r)) : i + 1 \in 1 .. Len(r) BY <2>1, <2>2
  <2> QED BY <2>1, <2>2, <2>3 DEF Range
<1> QED BY <1>1, <1>2, <1>3 DEF Range

LEMMA StepPoll ==
    ASSUME YmInv, Poll PROVE YmInv'
<1>1. /\ replies' \in Seq({"C", "ACK", "NAK"})
      /\ "ACK" \in Range(replies') => "ACK" \in Range(replies)
      BY Answered DEF YmInv, Types, Poll
<1>2. Types' BY <1>1 DEF YmInv, Types, Poll, receiverVars, frameVars
<1>3. OnLine' BY DEF YmInv, OnLine, Busy, Current, Frame, Poll, frameVars
<1>4. Filling' BY DEF YmInv, Filling, Poll, receiverVars
<1>5. Copied' BY DEF YmInv, Copied, Poll, receiverVars
<1>6. step' = "idle" /\ state' = 0 BY DEF Poll, frameVars, receiverVars
<1>7. ~("ACK" \in Range(replies)) BY DEF YmInv, Agreed, Accepted, Poll
<1>8. Agreed' BY <1>1, <1>6, <1>7 DEF Agreed
<1>9. Done' BY DEF Done, Poll
<1> QED BY <1>2, <1>3, <1>4, <1>5, <1>8, <1>9 DEF YmInv

LEMMA StepBegin ==
    ASSUME YmInv, Begin PROVE YmInv'
<1>1. ReceiverFrame BY DEF ReceiverFrame, Begin
<1>2. /\ replies' \in Seq({"C", "ACK", "NAK"})
      /\ "ACK" \in Range(replies') => "ACK" \in Range(replies)
      BY FewerReplies DEF YmInv, Types, Begin
<1>3. "header" \in Steps /\ "SOH" \in Kinds /\ 0 \in 0 .. SnMod - 1 /\ 0 \in Nat
      BY YmodemAssumption DEF Steps, Kinds
<1>4. /\ wire' \in Seq(Pieces) /\ OnLine'
      /\ step' = "header" /\ kind' = "SOH" /\ no' = 0 /\ at' = 0
      BY <1>3, Sent DEF Begin
<1>5. /\ faults' \in 0 .. MaxFaults /\ sessions' \in Nat /\ spoilt' \in BOOLEAN
      BY DEF Begin, YmInv, Types
<1>6. Types' BY <1>1, <1>2, <1>3, <1>4, <1>5, ReceiverKeeps DEF Types
<1>7. state' = 0 /\ all_done' = all_done /\ ~all_done
      BY DEF Begin, receiverVars, YmInv, Agreed, Done
<1>8. ~("ACK" \in Range(replies)) BY DEF YmInv, Agreed, Accepted, Begin
<1>9. Agreed' BY <1>2, <1>4, <1>7, <1>8 DEF Agreed
<1>10. Done' BY <1>7 DEF Done
<1> QED BY <1>1, <1>4, <1>6, <1>9, <1>10, ReceiverKeeps DEF YmInv

\* The sender sends its frame once more, with the replies it then has.
LEMMA KeepsAgain ==
    ASSUME ReceiverFrame, Busy, Again,
           replies' \in Seq({"C", "ACK", "NAK"}),
           "ACK" \in Range(replies') => "ACK" \in Range(replies),
           faults' \in 0 .. MaxFaults, sessions' \in Nat, spoilt' \in BOOLEAN
    PROVE  YmInv'
<1>1. /\ step \in Steps /\ kind \in Kinds /\ no \in 0 .. SnMod - 1 /\ at \in Nat
      /\ step \notin {"idle", "over"}
      BY DEF ReceiverFrame, YmInv, Types, Busy
<1>2. /\ wire' \in Seq(Pieces) /\ OnLine'
      /\ step' = step /\ kind' = kind /\ no' = no /\ at' = at
      BY <1>1, Sent DEF Again
<1>3. Types' BY <1>1, <1>2, ReceiverKeeps DEF Types
<1>4. /\ state' = state /\ next_sn' = next_sn /\ written' = written /\ all_done' = all_done
      BY DEF ReceiverFrame, receiverVars
<1>5. Agreed'
      BY <1>2, <1>4 DEF ReceiverFrame, YmInv, Agreed, Accepted, Waiting, Taken
<1>6. Done' BY <1>1, <1>2, <1>4 DEF ReceiverFrame, YmInv, Done
<1> QED BY <1>2, <1>3, <1>5, <1>6, ReceiverKeeps DEF YmInv

\* The sender goes on when its frame has been accepted.
LEMMA KeepsAdvance ==
    ASSUME ReceiverFrame, Advance, "ACK" \in Range(replies), replies' = <<>>,
           UNCHANGED <<faults, sessions, spoilt>>, wire = <<>>
    PROVE  YmInv'
<1>1. /\ replies' \in Seq({"C", "ACK", "NAK"}) /\ "ACK" \notin Range(replies')
      BY FewerReplies DEF ReceiverFrame, YmInv, Types
<1>2. /\ faults' \in 0 .. MaxFaults /\ sessions' \in Nat /\ spoilt' \in BOOLEAN
      BY DEF ReceiverFrame, YmInv, Types
<1>3. /\ state' = state /\ next_sn' = next_sn /\ written' = written /\ all_done' = all_done
      BY DEF ReceiverFrame, receiverVars
<1>4. Accepted BY DEF ReceiverFrame, YmInv, Agreed
<1>5. /\ "SOH" \in Kinds /\ 0 \in 0 .. SnMod - 1 /\ 0 \in Nat
      /\ "data" \in Steps /\ "eot" \in Steps /\ "end" \in Steps /\ "over" \in Steps
      BY YmodemAssumption DEF Kinds, Steps
<1>6. ASSUME NEW from \in Nat, NextBlock(from), step \in {"header", "data"},
             from < FileLen => state = 1 /\ Len(written) = from /\ next_sn = NextNumber(no),
             from >= FileLen => Len(written) = FileLen /\ state \in {0, 2, 3}
      PROVE  YmInv'
  <2>1. CASE from < FileLen /\ \E k \in Kinds : Send("data", k, NextNumber(no), from)
    <3>1. PICK k \in Kinds : Send("data", k, NextNumber(no), from) BY <2>1
    <3>2. NextNumber(no) \in 0 .. SnMod - 1
          BY NextNumberProps DEF ReceiverFrame, YmInv, Types
    <3>3. /\ wire' \in Seq(Pieces) /\ OnLine'
          /\ step' = "data" /\ kind' = k /\ no' = NextNumber(no) /\ at' = from
          BY <1>5, <3>1, <3>2, Sent
    <3>4. Types' BY <1>1, <1>2, <1>5, <3>2, <3>3, ReceiverKeeps DEF Types
    <3>5. Agreed' BY <1>1, <1>3, <1>6, <2>1, <3>3 DEF Agreed, Waiting
    <3>6. Done' BY <1>3, <1>6, <3>3 DEF ReceiverFrame, YmInv, Done
    <3> QED BY <3>3, <3>4, <3>5, <3>6, ReceiverKeeps DEF YmInv
  <2>2. CASE from >= FileLen /\ Send("eot", "SOH", 0, 0)
    <3>1. /\ wire' \in Seq(Pieces) /\ OnLine'
          /\ step' = "eot" /\ kind' = "SOH" /\ no' = 0 /\ at' = 0
          BY <1>5, <2>2, Sent
    <3>2. Types' BY <1>1, <1>2, <1>5, <3>1, ReceiverKeeps DEF Types
    <3>3. Agreed' BY <1>1, <1>3, <1>6, <2>2, <3>1 DEF Agreed
    <3>4. Done' BY <1>3, <1>6, <3>1 DEF ReceiverFrame, YmInv, Done
    <3> QED BY <3>1, <3>2, <3>3, <3>4, ReceiverKeeps DEF YmInv
  <2> QED BY <1>6, <2>1, <2>2 DEF NextBlock
<1>7. CASE step = "header" /\ NextBlock(0)
  <2>1. state = 1 /\ written = <<>> /\ next_sn = 1 /\ no = 0
        BY <1>4, <1>7 DEF Accepted, ReceiverFrame, YmInv, Agreed
  <2>2. Len(written) = 0 /\ NextNumber(no) = 1
        BY <2>1, EmptySeq, NextNumberProps DEF ReceiverFrame, YmInv, Types
  <2>3. ~(0 >= FileLen) BY YmodemAssumption
  <2> QED BY <1>5, <1>6, <1>7, <2>1, <2>2, <2>3
<1>8. CASE step = "data" /\ NextBlock(at + Units(kind))
  <2>1. Taken BY <1>4, <1>8 DEF Accepted
  <2>2. at + Units(kind) \in Nat /\ FileLen \in Nat
        BY UnitsProps, YmodemAssumption DEF ReceiverFrame, YmInv, Types
  <2>3. /\ at + Units(kind) < FileLen =>
              state = 1 /\ Len(written) = at + Units(kind) /\ next_sn = NextNumber(no)
        /\ at + Units(kind) >= FileLen => Len(written) = FileLen /\ state \in {0, 2, 3}
        BY <2>1, <2>2 DEF Taken
  <2> QED BY <1>6, <1>8, <2>2, <2>3
<1>9. CASE step = "eot" /\ Send("end", "SOH", 0, 0)
  <2>1. /\ wire' \in Seq(Pieces) /\ OnLine'
        /\ step' = "end" /\ kind' = "SOH" /\ no' = 0 /\ at' = 0
        BY <1>5, <1>9, Sent
  <2>2. Types' BY <1>1, <1>2, <1>5, <2>1, ReceiverKeeps DEF Types
  <2>3. state = 0 /\ Len(written) = FileLen
        BY <1>4, <1>9 DEF Accepted, ReceiverFrame, YmInv, Agreed
  <2>4. Agreed' BY <1>1, <1>3, <2>1, <2>3 DEF Agreed
  <2>5. Done' BY <2>1 DEF Done
  <2> QED BY <2>1, <2>2, <2>4, <2>5, ReceiverKeeps DEF YmInv
<1>10. CASE step \in {"end", "can"} /\ step' = "over" /\ UNCHANGED <<at, no, kind, wire>>
  <2>1. wire' = <<>> /\ step' = "over" BY <1>10
  <2>2. OnLine'
    <3>1. Len(wire') = 0 BY <2>1, EmptySeq
    <3> QED BY <2>1, <3>1 DEF OnLine
  <2>3. wire' \in Seq(Pieces) BY <2>1, EmptySeq
  <2>4. at' \in Nat /\ no' \in 0 .. SnMod - 1 /\ kind' \in Kinds /\ step' \in Steps
        BY <1>5, <1>10 DEF ReceiverFrame, YmInv, Types
  <2>5. Types' BY <1>1, <1>2, <2>3, <2>4, ReceiverKeeps DEF Types
  <2>6. Agreed' BY <1>1, <2>1 DEF Agreed
  <2>7. Done' BY <2>1 DEF Done
  <2> QED BY <2>2, <2>5, <2>6, <2>7, ReceiverKeeps DEF YmInv
<1> QED BY <1>7, <1>8, <1>9, <1>10 DEF Advance

LEMMA StepTakeReply ==
    ASSUME YmInv, TakeReply PROVE YmInv'
<1>1. ReceiverFrame /\ Busy /\ wire = <<>> /\ replies' = <<>>
      /\ UNCHANGED <<faults, sessions, spoilt>>
      BY DEF ReceiverFrame, TakeReply
<1>2. /\ replies' \in Seq({"C", "ACK", "NAK"}) /\ "ACK" \notin Range(replies')
      BY <1>1, FewerReplies DEF YmInv, Types
<1>3. /\ faults' \in 0 .. MaxFaults /\ sessions' \in Nat /\ spoilt' \in BOOLEAN
      BY <1>1 DEF YmInv, Types
<1>4. CASE "ACK" \in Range(replies) /\ Advance
      BY <1>1, <1>4, KeepsAdvance
<1>5. CASE Again
      BY <1>1, <1>2, <1>3, <1>5, KeepsAgain
<1>6. CASE UNCHANGED <<frameVars, wire>>
  <2>1. /\ step' = step /\ at' = at /\ no' = no /\ kind' = kind /\ wire' = wire
        BY <1>6 DEF frameVars
  <2>2. /\ step' \in Steps /\ at' \in Nat /\ no' \in 0 .. SnMod - 1 /\ kind' \in Kinds
        /\ wire' \in Seq(Pieces)
        BY <2>1 DEF YmInv, Types
  <2>3. Types' BY <1>1, <1>2, <1>3, <2>2, ReceiverKeeps DEF Types
  <2>4. OnLine' BY <1>1, <2>1 DEF YmInv, OnLine, Current, Frame, Busy
  <2>5. /\ state' = state /\ next_sn' = next_sn /\ written' = written /\ all_done' = all_done
        BY <1>1 DEF ReceiverFrame, receiverVars
  <2>6. Agreed' BY <1>2, <2>1, <2>5 DEF YmInv, Agreed, Waiting, Taken
  <2>7. Done' BY <1>1, <2>1, <2>5 DEF YmInv, Done, Busy
  <2> QED BY <1>1, <2>3, <2>4, <2>6, <2>7, ReceiverKeeps DEF YmInv
<1> QED BY <1>4, <1>5, <1>6 DEF TakeReply

LEMMA StepTimeout ==
    ASSUME YmInv, Timeout \/ EarlyTimeout PROVE YmInv'
<1>1. ReceiverFrame /\ Busy /\ Again /\ replies' = replies
      /\ sessions' = sessions /\ spoilt' = spoilt
      BY DEF ReceiverFrame, Timeout, EarlyTimeout, Quiet
<1>2. faults' \in 0 .. MaxFaults
      BY YmodemAssumption DEF Timeout, EarlyTimeout, YmInv, Types
<1>3. /\ replies' \in Seq({"C", "ACK", "NAK"}) /\ sessions' \in Nat /\ spoilt' \in BOOLEAN
      BY <1>1 DEF YmInv, Types
<1> QED BY <1>1, <1>2, <1>3, KeepsAgain

LEMMA StepGiveUp ==
    ASSUME YmInv, GiveUp PROVE YmInv'
<1>1. ReceiverFrame /\ replies' = replies /\ faults' = faults /\ sessions' = sessions
      /\ spoilt' = TRUE
      BY DEF ReceiverFrame, GiveUp, Quiet
<1>2. "can" \in Steps /\ "SOH" \in Kinds /\ 0 \in 0 .. SnMod - 1 /\ 0 \in Nat
      BY YmodemAssumption DEF Steps, Kinds
<1>3. /\ wire' \in Seq(Pieces) /\ OnLine'
      /\ step' = "can" /\ kind' = "SOH" /\ no' = 0 /\ at' = 0
      BY <1>2, Sent DEF GiveUp
<1>4. /\ replies' \in Seq({"C", "ACK", "NAK"}) /\ sessions' \in Nat /\ faults' \in 0 .. MaxFaults
      BY <1>1 DEF YmInv, Types
<1>5. spoilt' \in BOOLEAN BY <1>1
<1>6. Types' BY <1>1, <1>2, <1>3, <1>4, <1>5, ReceiverKeeps DEF Types
<1>7. Agreed' BY <1>3 DEF Agreed, Accepted
<1>8. Done' BY <1>3 DEF Done
<1> QED BY <1>1, <1>3, <1>6, <1>7, <1>8, ReceiverKeeps DEF YmInv

\* The line loses or damages a piece.
LEMMA KeepsLine ==
    ASSUME ReceiverFrame, UNCHANGED <<frameVars, replies, sessions, spoilt>>,
           faults < MaxFaults, faults' = faults + 1, wire # <<>>,
           wire' \in Seq(Pieces), \A i \in 1 .. Len(wire') : wire'[i].frame = Current
    PROVE  YmInv'
<1>1. /\ step' = step /\ at' = at /\ no' = no /\ kind' = kind /\ replies' = replies
      BY DEF frameVars
<1>2. /\ step' \in Steps /\ at' \in Nat /\ no' \in 0 .. SnMod - 1 /\ kind' \in Kinds
      /\ replies' \in Seq({"C", "ACK", "NAK"}) /\ sessions' \in Nat /\ spoilt' \in BOOLEAN
      BY <1>1 DEF ReceiverFrame, YmInv, Types
<1>3. faults' \in 0 .. MaxFaults BY YmodemAssumption DEF ReceiverFrame, YmInv, Types
<1>4. Types' BY <1>2, <1>3, ReceiverKeeps DEF Types
<1>5. Current' = Current BY <1>1 DEF Current, Frame
<1>6. Busy' /\ step' # "over" BY <1>1 DEF ReceiverFrame, YmInv, OnLine, Busy
<1>7. OnLine' BY <1>5, <1>6 DEF OnLine
<1>8. /\ state' = state /\ next_sn' = next_sn /\ written' = written /\ all_done' = all_done
      BY DEF ReceiverFrame, receiverVars
<1>9. Agreed'
      BY <1>1, <1>8 DEF ReceiverFrame, YmInv, Agreed, Accepted, Waiting, Taken
<1>10. Done' BY <1>1, <1>8 DEF ReceiverFrame, YmInv, Done
<1> QED BY <1>4, <1>7, <1>9, <1>10, ReceiverKeeps DEF YmInv

LEMMA StepLosePiece ==
    ASSUME YmInv, LosePiece PROVE YmInv'
<1>1. PICK i \in DOMAIN wire : wire' = RemoveAt(wire, i) BY DEF LosePiece
<1>2. /\ wire \in Seq(Pieces) /\ Len(wire) \in Nat /\ DOMAIN wire = 1 .. Len(wire)
      /\ \A j \in 1 .. Len(wire) : wire[j] \in Pieces /\ wire[j].frame = Current
      BY LenProperties DEF YmInv, Types, OnLine
<1> DEFINE before == SubSeq(wire, 1, i - 1)
           after == SubSeq(wire, i + 1, Len(wire))
<1>3. /\ before \in Seq(Pieces)
      /\ \A j \in 1 .. Len(before) : before[j].frame = Current
  <2>1. \A j \in 1 .. i - 1 : wire[j] \in Pieces BY <1>2
  <2>2. /\ before \in Seq(Pieces)
        /\ Len(before) = IF 1 <= i - 1 THEN i - 1 - 1 + 1 ELSE 0
        /\ \A j \in 1 .. i - 1 - 1 + 1 : before[j] = wire[1 + j - 1]
        BY <1>2, <2>1, SubSeqProperties
  <2>3. \A j \in 1 .. Len(before) : j \in 1 .. i - 1 - 1 + 1 /\ 1 + j - 1 \in 1 .. Len(wire)
        BY <1>2, <2>2
  <2> QED BY <1>2, <2>2, <2>3
<1>4. /\ after \in Seq(Pieces)
      /\ \A j \in 1 .. Len(after) : after[j].frame = Current
      BY <1>2, Cut
<1> HIDE DEF before, after
<1>5. wire' = before \o after BY <1>1 DEF RemoveAt, before, after
<1>6. /\ wire' \in Seq(Pieces) /\ Len(wire') = Len(before) + Len(after)
      /\ \A j \in 1 .. Len(before) + Len(after) :
            wire'[j] = IF j <= Len(before) THEN before[j] ELSE after[j - Len(before)]
      BY <1>3, <1>4, <1>5, ConcatProperties
<1>7. Len(before) \in Nat /\ Len(after) \in Nat BY <1>3, <1>4, LenProperties
<1>8. ASSUME NEW j \in 1 .. Len(wire') PROVE wire'[j].frame = Current
  <2>1. CASE j <= Len(before) BY <1>3, <1>6, <1>7, <2>1
  <2>2. CASE j > Len(before)
    <3>1. j - Len(before) \in 1 .. Len(after) BY <1>6, <1>7, <2>2
    <3>2. wire'[j] = after[j - Len(before)] BY <1>6, <1>7, <2>2
    <3> QED BY <1>4, <3>1, <3>2
  <2> QED BY <1>6, <1>7, <2>1, <2>2
<1>9. ReceiverFrame /\ wire # <<>> /\ UNCHANGED <<frameVars, replies, sessions, spoilt>>
      BY <1>2, EmptySeq DEF ReceiverFrame, LosePiece, Quiet
<1> QED BY <1>6, <1>8, <1>9, KeepsLine DEF LosePiece

LEMMA StepDamagePiece ==
    ASSUME YmInv, DamagePiece PROVE YmInv'
<1>1. PICK i \in DOMAIN wire : wire' = [wire EXCEPT ![i].bad = TRUE] BY DEF DamagePiece
<1>2. /\ wire \in Seq(Pieces) /\ Len(wire) \in Nat /\ DOMAIN wire = 1 .. Len(wire)
      /\ \A j \in 1 .. Len(wire) : wire[j] \in Pieces /\ wire[j].frame = Current
      BY LenProperties DEF YmInv, Types, OnLine
<1> DEFINE bad == [wire[i] EXCEPT !.bad = TRUE]
<1>3. bad \in Pieces /\ bad.frame = Current BY <1>2 DEF Pieces
<1>4. wire' = [wire EXCEPT ![i] = bad] BY <1>1
<1> HIDE DEF bad
<1>5. /\ wire' \in Seq(Pieces) /\ Len(wire') = Len(wire)
      /\ \A j \in 1 .. Len(wire) : wire'[j] = IF j = i THEN bad ELSE wire[j]
      BY <1>2, <1>3, <1>4, ExceptSeq
<1>6. \A j \in 1 .. Len(wire') : wire'[j].frame = Current BY <1>2, <1>3, <1>5
<1>7. ReceiverFrame /\ wire # <<>> /\ UNCHANGED <<frameVars, replies, sessions, spoilt>>
      BY <1>2, EmptySeq DEF ReceiverFrame, DamagePiece, Quiet
<1> QED BY <1>5, <1>6, <1>7, KeepsLine DEF DamagePiece

LEMMA StepLoseReply ==
    ASSUME YmInv, LoseReply PROVE YmInv'
<1>1. ReceiverFrame BY DEF ReceiverFrame, LoseReply
<1>2. /\ replies' \in Seq({"C", "ACK", "NAK"})
      /\ "ACK" \in Range(replies') => "ACK" \in Range(replies)
      BY FewerReplies DEF YmInv, Types, LoseReply
<1>3. /\ step' = step /\ at' = at /\ no' = no /\ kind' = kind /\ wire' = wire
      /\ sessions' = sessions
      BY DEF LoseReply, frameVars
<1>4. /\ step' \in Steps /\ at' \in Nat /\ no' \in 0 .. SnMod - 1 /\ kind' \in Kinds
      /\ wire' \in Seq(Pieces) /\ sessions' \in Nat
      BY <1>3 DEF YmInv, Types
<1>5. faults' \in 0 .. MaxFaults BY YmodemAssumption DEF LoseReply, YmInv, Types
<1>6. spoilt' \in BOOLEAN BY DEF LoseReply
<1>7. Types' BY <1>1, <1>2, <1>4, <1>5, <1>6, ReceiverKeeps DEF Types
<1>8. OnLine' BY <1>3 DEF YmInv, OnLine, Current, Frame, Busy, LoseReply
<1>9. /\ state' = state /\ next_sn' = next_sn /\ written' = written /\ all_done' = all_done
      BY DEF LoseReply, receiverVars
<1>10. Agreed' BY <1>2, <1>3, <1>9 DEF YmInv, Agreed, Accepted, Waiting, Taken
<1>11. Done' BY <1>3, <1>9 DEF YmInv, Done, LoseReply
<1> QED BY <1>1, <1>7, <1>8, <1>10, <1>11, ReceiverKeeps DEF YmInv

LEMMA StepRestart ==
    ASSUME YmInv, Restart PROVE YmInv'
<1>1. /\ state' = 0 /\ next_sn' = 0 /\ file_size' = 0 /\ open' = FALSE
      /\ packet' = packet /\ written' = written /\ data_max' = data_max
      /\ file_ok' = file_ok /\ all_done' = all_done
      /\ step' = "idle" /\ at' = 0 /\ no' = 0 /\ kind' = "SOH"
      /\ wire' = wire /\ replies' = replies /\ wire = <<>> /\ replies = <<>>
      BY DEF Restart, Reset
<1>2. /\ state' \in 0 .. 3 /\ next_sn' \in 0 .. SnMod - 1 /\ file_size' \in {0, FileLen}
      BY <1>1, YmodemAssumption
<1>3. open' \in BOOLEAN /\ spoilt' \in BOOLEAN BY <1>1 DEF Restart
<1>4. /\ step' \in Steps /\ at' \in Nat /\ no' \in 0 .. SnMod - 1 /\ kind' \in Kinds
      BY <1>1, YmodemAssumption DEF Steps, Kinds
<1>5. faults' \in 0 .. MaxFaults /\ sessions' \in Nat
      BY DEF Restart, YmInv, Types
<1>6. Types' BY <1>1, <1>2, <1>3, <1>4, <1>5 DEF YmInv, Types
<1>7. OnLine'
  <2>1. Len(wire') = 0 BY <1>1, EmptySeq
  <2> QED BY <1>1, <2>1 DEF OnLine
<1>8. Filling' BY <1>1 DEF YmInv, Filling
<1>9. Copied' BY <1>1 DEF YmInv, Copied
<1>10. "ACK" \notin Range(replies')
       BY <1>1, FewerReplies DEF YmInv, Types
<1>11. Agreed' BY <1>1, <1>10 DEF Agreed
<1>12. Done' BY <1>1 DEF Done
<1> QED BY <1>6, <1>7, <1>8, <1>9, <1>11, <1>12 DEF YmInv

-----------------------------------------------------------------------------
(* The theorems *)

LEMMA InitInv == Init => YmInv
<1> SUFFICES ASSUME Init PROVE YmInv OBVIOUS
<1>1. /\ <<>> \in Seq(Pieces) /\ <<>> \in Seq(1 .. FileLen)
      /\ <<>> \in Seq({"C", "ACK", "NAK"}) /\ Len(<<>>) = 0
      BY EmptySeq
<1>2. Types
  <2>1. /\ 0 \in 0 .. 3 /\ 0 \in 0 .. SnMod - 1 /\ 0 \in 0 .. StxUnits + 1
        /\ 0 \in 0 .. MaxFaults /\ 0 \in Nat /\ 1 \in Nat
        /\ 0 <= StxUnits + 1 /\ 0 <= FileLen
        BY YmodemAssumption
  <2>2. "idle" \in Steps /\ "SOH" \in Kinds BY DEF Steps, Kinds
  <2> QED BY <1>1, <2>1, <2>2 DEF Init, Types
<1>3. OnLine BY <1>1 DEF Init, OnLine
<1>4. Filling BY DEF Init, Filling
<1>5. Part(0) = <<>> BY DEF Part
<1>6. Copied BY <1>1, <1>5 DEF Init, Copied
<1>7. Agreed BY <1>1, FewerReplies DEF Init, Agreed
<1>8. Done BY DEF Init, Done
<1> QED BY <1>2, <1>3, <1>4, <1>6, <1>7, <1>8 DEF YmInv

LEMMA StepInv == TrueMids /\ YmInv /\ [Next]_vars => YmInv'
<1> SUFFICES ASSUME TrueMids, YmInv, [Next]_vars PROVE YmInv' OBVIOUS
<1>1. CASE Receives BY <1>1, StepReceive DEF Receives
<1>2. CASE Poll BY <1>2, StepPoll
<1>3. CASE Begin BY <1>3, StepBegin
<1>4. CASE TakeReply BY <1>4, StepTakeReply
<1>5. CASE Timeout \/ EarlyTimeout BY <1>5, StepTimeout
<1>6. CASE GiveUp BY <1>6, StepGiveUp
<1>7. CASE LosePiece BY <1>7, StepLosePiece
<1>8. CASE DamagePiece BY <1>8, StepDamagePiece
<1>9. CASE LoseReply BY <1>9, StepLoseReply
<1>10. CASE Restart BY <1>10, StepRestart
<1>11. CASE UNCHANGED vars
  <2>1. UNCHANGED vars BY <1>11
  <2>2. Types' BY <2>1 DEF vars, receiverVars, frameVars, YmInv, Types
  <2>3. OnLine' /\ Filling'
        BY <2>1 DEF vars, receiverVars, frameVars, YmInv, OnLine, Filling, Current, Frame, Busy
  <2>4. Copied' /\ Done' BY <2>1 DEF vars, receiverVars, frameVars, YmInv, Copied, Done
  <2>5. Agreed'
        BY <2>1 DEF vars, receiverVars, frameVars, YmInv, Agreed, Accepted, Waiting, Taken
  <2> QED BY <2>2, <2>3, <2>4, <2>5 DEF YmInv
<1> QED
    BY <1>1, <1>2, <1>3, <1>4, <1>5, <1>6, <1>7, <1>8, <1>9, <1>10, <1>11 DEF Next

LEMMA Invariant == TrueMids /\ Spec => []YmInv
<1>1. TrueMids => []TrueMids BY DEF TrueMids, PTL
<1> QED BY <1>1, InitInv, StepInv, PTL DEF Spec

\* Every variable has its type, and what is collected of a frame is less than the
\* receiver waits for, whatever is lost, damaged, cut into chunks or left by a reset: the
\* copy that completes a frame has no negative length.
THEOREM YmodemTypes == TrueMids /\ Spec => []TypeOK
<1>1. ASSUME YmInv, packet # <<>>
      PROVE  Len(packet) < IF state = 0 THEN data_max + 1 ELSE data_max
  <2>1. state \in {0, 1} BY <1>1 DEF YmInv, Types, Filling
  <2>2. Len(packet) \in Nat /\ data_max \in Nat
        BY <1>1, LenProperties, YmodemAssumption DEF YmInv, Types
  <2>3. Len(packet) <= data_max /\ (state = 1 => Len(packet) < data_max)
        BY <1>1 DEF YmInv, Filling
  <2> QED BY <2>1, <2>2, <2>3
<1>2. YmInv => TypeOK BY <1>1 DEF YmInv, Types, TypeOK
<1> QED BY <1>2, Invariant, PTL

\* What the sender has seen acknowledged is in the file.
THEOREM YmodemAcked == TrueMids /\ Spec => []AckedIsWritten
<1>1. YmInv => AckedIsWritten
  <2> SUFFICES ASSUME YmInv PROVE AckedIsWritten OBVIOUS
  <2>1. step = "data" => at <= Len(written)
    <3>1. at \in Nat /\ Units(kind) \in Nat /\ FileLen \in Nat
          BY UnitsProps, YmodemAssumption DEF YmInv, Types
    <3> QED BY <3>1 DEF YmInv, Agreed, Waiting, Taken
  <2> QED BY <2>1 DEF YmInv, Agreed, AckedIsWritten
<1> QED BY <1>1, Invariant, PTL

\* all_done is set for the end of a transfer or its cancellation only.
THEOREM YmodemDone == TrueMids /\ Spec => []AllDoneMeansEnd
<1>1. YmInv => AllDoneMeansEnd BY DEF YmInv, Done, AllDoneMeansEnd
<1> QED BY <1>1, Invariant, PTL

\* A step of the receiver adds the next part of the file, opens or closes it, or does
\* not touch it.
LEMMA StepCopies ==
    ASSUME TrueMids, YmInv, [Next]_vars
    PROVE  [Copy!CopyNext]_<<written, state \in {2, 3}>>
<1> DEFINE complete == state \in {2, 3}
<1>1. CASE Receives
  <2>1. PICK n \in 1 .. StxUnits + 1 : Receive(n) BY <1>1 DEF Receives
  <2>2. Outcome /\ CallFrame BY <2>1, Outcomes DEF CallFrame
  <2>3. CASE Refuse \/ Collected
        BY <2>3 DEF Refuse, Collected, Collect
  <2>4. CASE Created
    <3>1. written' = <<>> /\ state' = 1 BY <2>4 DEF Created, Create
    <3> QED BY <3>1 DEF Copy!CopyNext, Copy!Open, Copy!Part
  <2>5. CASE WroteNext
    <3>1. /\ Len(written) < Len(written') /\ Len(written') <= FileLen
          /\ written = Part(Len(written)) /\ written' = Part(Len(written'))
          /\ state = 1 /\ state' = IF Len(written') = FileLen THEN 2 ELSE 1
          BY <2>2, <2>5, WrittenNext DEF WroteNext, CallFrame, YmInv, Copied
    <3>2. Len(written) \in Nat /\ Len(written') \in Nat /\ FileLen \in Nat
          BY <2>2, <2>5, WrittenNext, LenProperties, YmodemAssumption
          DEF CallFrame, YmInv, Types
    <3>3. Len(written) \in 0 .. FileLen /\ Len(written') \in 0 .. FileLen
          BY <3>1, <3>2
    <3>4. (state' \in {2, 3}) = (Len(written') = FileLen) BY <3>1
    <3>5. ~(state \in {2, 3}) BY <3>1
    <3>6. \A m : Part(m) = Copy!Part(m) BY DEF Part, Copy!Part
    <3>7. Copy!Grow
      <4>1. /\ Len(written) < Len(written')
            /\ written = Copy!Part(Len(written)) /\ written' = Copy!Part(Len(written'))
            BY <3>1, <3>6
      <4> QED BY <3>3, <3>4, <3>5, <4>1 DEF Copy!Grow
    <3> QED BY <3>7 DEF Copy!CopyNext
  <2>6. CASE Finished
    <3>1. written' = written /\ state' = 0 BY <2>6 DEF Finished, Finish, Reset
    <3> QED BY <3>1 DEF Copy!CopyNext, Copy!Close
  <2>7. CASE SawEot
    <3>1. /\ written' = written
          /\ \/ state = 2 /\ state' = 3
             \/ state = 3 /\ state' = 0
          BY <2>7 DEF SawEot
    <3> QED BY <3>1 DEF Copy!CopyNext, Copy!Close
  <2> QED BY <2>2, <2>3, <2>4, <2>5, <2>6, <2>7 DEF Outcome
<1>2. CASE Restart
  <2>1. written' = written /\ state' = 0 BY <1>2 DEF Restart, Reset
  <2> QED BY <2>1 DEF Copy!CopyNext, Copy!Close
<1>3. CASE /\ ~Receives /\ ~Restart
      BY <1>3 DEF Next, Poll, Begin, TakeReply, Timeout, EarlyTimeout, GiveUp, LosePiece,
         DamagePiece, LoseReply, Quiet, vars, receiverVars
<1> QED BY <1>1, <1>2, <1>3

\* The receiver implements the copying of a file.
THEOREM YmodemCopies == TrueMids /\ Spec => CopiesFile
<1>1. Init => Copy!CopyInit BY DEF Init, Copy!CopyInit, Copy!Part
<1>2. TrueMids /\ YmInv /\ [Next]_vars => [Copy!CopyNext]_<<written, state \in {2, 3}>>
      BY StepCopies
<1>3. TrueMids => []TrueMids BY DEF TrueMids, PTL
<1> QED BY <1>1, <1>2, <1>3, Invariant, PTL
        DEF Spec, CopiesFile, Copy!CopySpec, Copy!copyVars
=============================================================================
