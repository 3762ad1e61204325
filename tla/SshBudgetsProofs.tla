-------------------------- MODULE SshBudgetsProofs --------------------------
(***************************************************************************)
(* Proofs for the two layers that bound an SSH session: the transport of   *)
(* bounded_paramiko.py (PacketBudget) and the session of                   *)
(* bounded_netmiko.py (ReadBudget), for every value of their limits.       *)
(*                                                                         *)
(* Each has an inductive invariant, TransportInv and SessionInv, of which  *)
(* one step lemma per conjunct is proved.  The session's needs to know     *)
(* that the comparison of a count with its maximum, which the code makes   *)
(* on digit strings of any length, agrees with the comparison of the       *)
(* numbers: CountCheck.  The recursive functions in it are reasoned about  *)
(* through sets of numbers (LeastNumber, CountUp), as the provers have no  *)
(* induction rule.                                                         *)
(***************************************************************************)
EXTENDS ReadBudget, PacketBudget, NaturalsInduction, WellFoundedInduction,
        SequenceTheorems, TLAPS

\* A set of numbers that is not empty has a least one.
LEMMA LeastNumber ==
  ASSUME NEW T, T \subseteq Nat, T # {}
  PROVE  \E x \in T : \A y \in T : x <= y
<1> DEFINE R == OpToRel(<, Nat)
<1>1. IsWellFoundedOn(R, Nat)
  BY NatLessThanWellFounded
<1>2. \A x, y \in Nat : y < x => <<y, x>> \in R
  BY SMT DEF OpToRel
<1> HIDE DEF R
<1>3. PICK x \in T : \A y \in T : ~ (<<y, x>> \in R)
  BY Zenon, <1>1, WFMin
<1>4. ASSUME NEW y \in T PROVE x <= y
  <2>1. x \in Nat /\ y \in Nat
    OBVIOUS
  <2>2. ~(y < x)
    BY <1>2, <1>3, <2>1
  <2> QED BY <2>1, <2>2
<1> QED BY <1>4
-----------------------------------------------------------------------------
(* PacketBudget: the transport *)

\* Every variable has its type.
TransportTypeOK ==
    /\ tpc \in {"readline", "idle", "header", "body", "mac", "dead"}
    /\ remainder \in Seq({"b", "n"})
    /\ line \in Nat /\ text_bytes \in Nat /\ pre_identification_lines \in Nat
    /\ field \in Nat /\ packets \in Nat /\ received \in Nat /\ taken \in Nat
    /\ cipher \in [mode: {"classic", "etm", "aead"}, block: Nat, mac: Nat]
    /\ clear_length \in Nat \cup {NoLength}
    /\ banner_limit_exceeded \in BOOLEAN /\ binary_packet_limit_exceeded \in BOOLEAN
    /\ closed \in BOOLEAN /\ transport \in BOOLEAN
    /\ mpc \in {"connect", "except", "connected", "raised"}
    /\ result \in {"none", "banner", "binary", "other"}
    /\ cause \subseteq {"banner", "binary"}

\* The text that was received is what was consumed and what is left over.
TextInv ==
    /\ received = text_bytes + Len(remainder)
    /\ received <= MaxText /\ line <= MaxLine /\ pre_identification_lines <= MaxLines
    /\ banner_limit_exceeded =>
          /\ tpc = "dead"
          /\ \/ line + TakeLength >= MaxLine
             \/ text_bytes + TakeLength >= MaxText
             \/ pre_identification_lines = MaxLines

\* What has been read of the packet in progress.
PacketInv ==
    /\ taken <= 4 + MaxPacket + cipher.mac
    /\ tpc = "header" => taken = 0
    /\ tpc = "body" => /\ ReviewedCipher
                       /\ taken = cipher.block
                       /\ clear_length \in {NoLength, field}
    /\ tpc = "mac" => taken <= 4 + MaxPacket

\* connect() still knows the limits that were exceeded when it failed.
MainInv ==
    /\ mpc \in {"except", "raised"} => cause \subseteq Limits
    /\ LimitIsReported

TransportInv == TransportTypeOK /\ TextInv /\ PacketInv /\ MainInv

\* The limits are numbers.
LEMMA LimitTypes ==
  /\ MaxLine \in Nat /\ MaxText \in Nat /\ TextChunk \in Nat /\ MaxPacket \in Nat
  /\ MaxLines \in Nat /\ MaxMac \in Nat /\ MaxPacket >= 12 /\ MaxMac <= 64
  /\ Fields \subseteq Nat
  /\ Ciphers \subseteq [mode: {"classic", "etm", "aead"}, block: Nat, mac: Nat]
  BY LimitsAssumption

\* What is taken of the text is a part of what is there.
LEMMA TakeLengthIsInRemainder ==
  ASSUME remainder \in Seq({"b", "n"})
  PROVE  TakeLength \in 0..Len(remainder)
<1>1. Newlines \subseteq 1..Len(remainder) /\ Newlines \subseteq Nat
  BY DEF Newlines
<1>2. CASE Newlines = {}
  BY <1>2 DEF TakeLength
<1>3. CASE Newlines # {}
  <2>1. \E k \in Newlines : \A j \in Newlines : k <= j
    BY <1>1, <1>3, LeastNumber
  <2>2. TakeLength \in Newlines
    BY <1>3, <2>1, Zenon DEF TakeLength
  <2> QED BY <1>1, <2>2
<1> QED BY <1>2, <1>3

\* TakeLength is about the remainder only.
LEMMA TakeLengthStays == remainder' = remainder => TakeLength' = TakeLength
  BY DEF TakeLength, Newlines

\* RefusedBody computes the packet_length that Paramiko started from.
LEMMA RequestIsTheField ==
  ASSUME TransportTypeOK
  PROVE  RequestedField(BodyRequest) = field
<1>1. field \in Nat /\ cipher.block \in Nat /\ cipher.mac \in Nat
  BY DEF TransportTypeOK
<1>2. CASE cipher.mode = "etm"
  BY <1>1, <1>2 DEF RequestedField, BodyRequest
<1>3. CASE cipher.mode # "etm"
  BY <1>1, <1>3 DEF RequestedField, BodyRequest
<1> QED BY <1>2, <1>3

\* No legal packet is refused: one whole block of it was the header, so what is left
\* is not negative, and it is no longer than the limit allows.
LEMMA LegalIsNotRefused ==
  ASSUME TransportTypeOK, ReviewedCipher, clear_length \in {NoLength, field}, Legal(field)
  PROVE  ~RefusedBody(BodyRequest)
<1>1. /\ field \in Nat /\ field >= 5 /\ field <= MaxPacket
      /\ cipher.block \in {8, 16} /\ cipher.mac \in Nat /\ cipher.mac <= MaxMac
      /\ MaxPacket \in Nat /\ MaxMac \in Nat /\ MaxMac <= 64
  BY LimitTypes DEF TransportTypeOK, ReviewedCipher, Legal
<1>2. field + 4 >= cipher.block
  <2>1. CASE ClearLength
    <3>1. field % cipher.block = 0
      BY <2>1 DEF Legal
    <3> QED BY <1>1, <3>1
  <2>2. CASE ~ClearLength
    <3>1. (field + 4) % cipher.block = 0
      BY <2>2 DEF Legal
    <3> QED BY <1>1, <3>1
  <2> QED BY <2>1, <2>2
<1>3. BodyRequest >= 0 /\ BodyRequest <= MaxPacket + 64
  BY <1>1, <1>2 DEF BodyRequest
<1>4. RequestedField(BodyRequest) = field
  BY RequestIsTheField
<1> HIDE DEF BodyRequest, RequestedField
<1>5. BodyRequest \in Int
  BY <1>1 DEF BodyRequest
<1> QED BY <1>1, <1>3, <1>4, <1>5 DEF RefusedBody

\* What RecvText does: it finds no room, or receives what fits into the line and
\* the total.
TextReceived ==
    /\ tpc = "readline" /\ Len(remainder) = 0 /\ TakeLength = 0
    /\ \/ /\ BannerLimit /\ UNCHANGED <<remainder, received>>
          /\ line >= MaxLine \/ text_bytes >= MaxText
       \/ /\ remainder' \in Seq({"b", "n"}) /\ Len(remainder') <= MaxText - text_bytes
          /\ received' = received + Len(remainder')
          /\ UNCHANGED <<tpc, banner_limit_exceeded>>
    /\ UNCHANGED <<line, text_bytes, pre_identification_lines, Packet,
                   binary_packet_limit_exceeded, closed, Main>>

\* RecvText does that.
LEMMA RecvTextCases ==
  ASSUME TransportTypeOK, RecvText
  PROVE  TextReceived
<1>0. /\ tpc = "readline"
      /\ UNCHANGED <<line, text_bytes, pre_identification_lines, Packet,
                     binary_packet_limit_exceeded, closed, Main>>
  BY DEF RecvText
<1>1. remainder = <<>>
  BY DEF RecvText
<1>2. Len(remainder) = 0 /\ TakeLength = 0
  BY <1>1 DEF TakeLength, Newlines
<1>3. line \in Nat /\ text_bytes \in Nat
  BY DEF TransportTypeOK
<1>4. CASE RecvRoom = 0
  <2>1. line >= MaxLine \/ text_bytes >= MaxText
    BY <1>3, <1>4, LimitTypes DEF RecvRoom, LineRoom, TextRoom, Lesser
  <2>2. BannerLimit /\ UNCHANGED <<remainder, received>>
    BY <1>4 DEF RecvText
  <2> QED BY <1>0, <1>2, <2>1, <2>2, Zenon DEF TextReceived
<1>5. CASE RecvRoom # 0
  <2>1. PICK c \in Chunks(TextRecvSize) :
           /\ remainder' = c /\ received' = received + Len(c)
           /\ UNCHANGED <<tpc, banner_limit_exceeded>>
    BY <1>5 DEF RecvText
  <2>2. TextRecvSize \in Int /\ TextRecvSize <= MaxText - text_bytes
    BY <1>3, LimitTypes DEF TextRecvSize, RecvRoom, LineRoom, TextRoom, Lesser
  <2>3. PICK k \in 1..TextRecvSize : c \in [1..k -> {"b", "n"}]
    BY <2>1 DEF Chunks
  <2>4. k \in Nat /\ c \in Seq({"b", "n"}) /\ Len(c) = k
    BY <2>2, <2>3
  <2>5. Len(c) <= MaxText - text_bytes
    BY <1>3, <2>2, <2>3, <2>4, LimitTypes
  <2> QED BY <1>0, <1>2, <2>1, <2>4, <2>5, Zenon DEF TextReceived
<1> QED BY <1>4, <1>5

\* What TakeText does: it finds that the text does not fit, or consumes it; a line
\* may be one too many.
TextTaken ==
    /\ tpc = "readline" /\ TakeLength \in 0..Len(remainder)
    /\ \/ /\ BannerLimit
          /\ UNCHANGED <<remainder, line, text_bytes, pre_identification_lines>>
          /\ line + TakeLength > MaxLine \/ text_bytes + TakeLength > MaxText
       \/ /\ line + TakeLength <= MaxLine
          /\ remainder' \in Seq({"b", "n"})
          /\ Len(remainder') = Len(remainder) - TakeLength
          /\ text_bytes' = text_bytes + TakeLength
          /\ line' \in {0, line + TakeLength}
          /\ \/ /\ tpc' \in {"readline", "idle"} /\ UNCHANGED banner_limit_exceeded
                /\ \/ UNCHANGED pre_identification_lines
                   \/ /\ pre_identification_lines < MaxLines
                      /\ pre_identification_lines' = pre_identification_lines + 1
             \/ /\ BannerLimit /\ UNCHANGED pre_identification_lines
                /\ pre_identification_lines >= MaxLines
    /\ UNCHANGED <<received, Packet, binary_packet_limit_exceeded, closed, Main>>

\* TakeText does that.
LEMMA TakeTextCases ==
  ASSUME TransportTypeOK, TakeText
  PROVE  TextTaken
<1>0. /\ tpc = "readline"
      /\ UNCHANGED <<received, Packet, binary_packet_limit_exceeded, closed, Main>>
  BY DEF TakeText
<1>1. TakeLength \in 0..Len(remainder)
  BY TakeLengthIsInRemainder DEF TransportTypeOK
<1>2. /\ line \in Nat /\ text_bytes \in Nat /\ remainder \in Seq({"b", "n"})
      /\ pre_identification_lines \in Nat /\ tpc = "readline"
  BY DEF TransportTypeOK, TakeText
<1>3. CASE TakeLength > LineRoom \/ TakeLength > TextRoom
  <2>1. line + TakeLength > MaxLine \/ text_bytes + TakeLength > MaxText
    BY <1>1, <1>2, <1>3, LimitTypes DEF LineRoom, TextRoom
  <2>2. BannerLimit /\ UNCHANGED <<remainder, line, text_bytes, pre_identification_lines>>
    BY <1>3 DEF TakeText
  <2> QED BY <1>0, <1>1, <2>1, <2>2, Zenon DEF TextTaken
<1>4. CASE ~(TakeLength > LineRoom \/ TakeLength > TextRoom)
  <2>1. line + TakeLength <= MaxLine
    BY <1>1, <1>2, <1>4, LimitTypes DEF LineRoom
  <2>2. /\ text_bytes' = text_bytes + TakeLength
        /\ remainder' = SubSeq(remainder, TakeLength + 1, Len(remainder))
        /\ line' \in {0, line + TakeLength}
    BY <1>4 DEF TakeText
  <2>3. remainder' \in Seq({"b", "n"}) /\ Len(remainder') = Len(remainder) - TakeLength
    <3>1. Len(remainder) \in Nat /\ TakeLength + 1 \in Int
      BY <1>1, <1>2
    <3>2. \A i \in (TakeLength + 1)..Len(remainder) : remainder[i] \in {"b", "n"}
      BY <1>1, <1>2
    <3>3. /\ SubSeq(remainder, TakeLength + 1, Len(remainder)) \in Seq({"b", "n"})
          /\ Len(SubSeq(remainder, TakeLength + 1, Len(remainder))) =
                IF TakeLength + 1 <= Len(remainder)
                THEN Len(remainder) - (TakeLength + 1) + 1 ELSE 0
      BY <3>1, <3>2, SubSeqProperties
    <3> QED BY <1>1, <2>2, <3>1, <3>3
  <2>4. \/ UNCHANGED <<tpc, pre_identification_lines, banner_limit_exceeded>>
        \/ \E identification \in BOOLEAN : EndLine(identification)
    BY <1>4 DEF TakeText
  <2>5. CASE UNCHANGED <<tpc, pre_identification_lines, banner_limit_exceeded>>
    <3>1. tpc' \in {"readline", "idle"}
      BY <1>2, <2>5
    <3> QED BY <1>0, <1>1, <2>1, <2>2, <2>3, <2>5, <3>1, Zenon DEF TextTaken
  <2>6. CASE \E identification \in BOOLEAN : EndLine(identification)
    <3> USE <2>6, LimitTypes, <1>2 DEF EndLine, TooManyLines
    <3>1. \/ /\ tpc' = "idle" /\ UNCHANGED banner_limit_exceeded
             /\ UNCHANGED pre_identification_lines
          \/ /\ tpc' = tpc /\ UNCHANGED banner_limit_exceeded
             /\ pre_identification_lines < MaxLines
             /\ pre_identification_lines' = pre_identification_lines + 1
          \/ /\ BannerLimit /\ UNCHANGED pre_identification_lines
             /\ pre_identification_lines >= MaxLines
      OBVIOUS
    <3>2. tpc' = "idle" \/ tpc' = tpc => tpc' \in {"readline", "idle"}
      OBVIOUS
    <3> HIDE <2>6, LimitTypes, <1>2 DEF EndLine, TooManyLines
    <3> QED BY <1>0, <1>1, <2>1, <2>2, <2>3, <3>1, <3>2, Zenon DEF TextTaken
  <2> QED BY <2>4, <2>5, <2>6
<1> QED BY <1>3, <1>4

\* Nothing has been received.
LEMMA TransportInitInv == TransportInit => TransportInv
<1> SUFFICES ASSUME TransportInit
             PROVE  TransportInv
  OBVIOUS
<1>1. /\ banner_limit_exceeded \in BOOLEAN /\ binary_packet_limit_exceeded \in BOOLEAN
      /\ closed \in BOOLEAN /\ transport \in BOOLEAN
  BY DEF TransportInit
<1> QED BY <1>1, LimitsAssumption
        DEF TransportInit, TransportInv, TransportTypeOK, TextInv, PacketInv, MainInv,
            LimitIsReported, NoLength

\* Every step keeps the types.
LEMMA TransportTypeStep == TransportInv /\ [TransportNext]_pvars => TransportTypeOK'
<1> SUFFICES ASSUME TransportInv, [TransportNext]_pvars
             PROVE  TransportTypeOK'
  OBVIOUS
<1> USE LimitTypes DEF TransportInv, TransportTypeOK, NoLength, Text, Packet, Flags,
        Main, Dies, BannerLimit, BinaryLimit
<1>1. CASE RecvText
  <2>1. TextReceived
    BY <1>1, RecvTextCases
  <2>2. banner_limit_exceeded' \in BOOLEAN
    BY <2>1 DEF TextReceived
  <2>3. remainder' \in Seq({"b", "n"})
    BY <2>1 DEF TextReceived
  <2>4. Len(remainder') \in Nat
    BY <2>3
  <2>5. received' \in Nat
    BY <2>1, <2>4 DEF TextReceived
  <2> QED BY <2>1, <2>2, <2>3, <2>5 DEF TextReceived
<1>2. CASE RecvTextFails
  BY <1>2 DEF RecvTextFails
<1>3. CASE TakeText
  <2>1. TextTaken
    BY <1>3, TakeTextCases
  <2>2. banner_limit_exceeded' \in BOOLEAN
    BY <2>1 DEF TextTaken
  <2>3. TakeLength \in Nat
    BY <2>1 DEF TextTaken
  <2>4. line' \in Nat /\ text_bytes' \in Nat
    BY <2>1, <2>3 DEF TextTaken
  <2>5. pre_identification_lines' \in Nat /\ remainder' \in Seq({"b", "n"})
    BY <2>1 DEF TextTaken
  <2> QED BY <2>1, <2>2, <2>4, <2>5 DEF TextTaken
<1>4. CASE BeginMessage
  BY <1>4 DEF BeginMessage
<1>5. CASE ReadHeader
  <2>1. clear_length' \in Nat \cup {NoLength} /\ taken' \in Nat
    <3>1. cipher.block \in Nat
      OBVIOUS
    <3> QED BY <1>5, <3>1 DEF ReadHeader
  <2>2. binary_packet_limit_exceeded' \in BOOLEAN /\ closed' \in BOOLEAN
    BY <1>5 DEF ReadHeader
  <2> QED BY <1>5, <2>1, <2>2 DEF ReadHeader
<1>6. CASE ReadBody
  <2>1. CASE RefusedBody(BodyRequest)
    BY <1>6, <2>1 DEF ReadBody
  <2>2. CASE ~RefusedBody(BodyRequest)
    <3>1. BodyRequest \in Int
      BY DEF BodyRequest
    <3>2. BodyRequest \in Nat
      BY <2>2, <3>1 DEF RefusedBody
    <3> QED BY <1>6, <2>2, <3>2 DEF ReadBody
  <2> QED BY <2>1, <2>2
<1>7. CASE ReadMac
  BY <1>7 DEF ReadMac
<1>8. CASE ReadFails
  BY <1>8 DEF ReadFails
<1>9. CASE Rekey
  BY <1>9 DEF Rekey
<1>10. CASE Connected
  BY <1>10 DEF Connected
<1>11. CASE ConnectRaises
  BY <1>11 DEF ConnectRaises, Limits
<1>12. CASE ConnectHandler
  BY <1>12 DEF ConnectHandler
<1>13. CASE UNCHANGED pvars
  BY <1>13 DEF pvars
<1> QED BY <1>1, <1>2, <1>3, <1>4, <1>5, <1>6, <1>7, <1>8, <1>9, <1>10, <1>11, <1>12,
           <1>13 DEF TransportNext, Thread

\* Only RecvText and TakeText touch the text.
LEMMA TransportTextStep == TransportInv /\ [TransportNext]_pvars => TextInv'
<1> SUFFICES ASSUME TransportInv, [TransportNext]_pvars
             PROVE  TextInv'
  OBVIOUS
<1> USE DEF TransportInv, TextInv, Text, Packet, Flags, Main, Dies, BannerLimit,
        BinaryLimit
<1>1. CASE RecvText
  <2>1. TextReceived
    BY <1>1, RecvTextCases
  <2>2. Len(remainder) \in Nat /\ Len(remainder') \in Nat
    BY <2>1 DEF TextReceived, TransportTypeOK
  <2> QED BY <2>1, <2>2, TakeLengthStays, LimitTypes DEF TextReceived, TransportTypeOK
<1>2. CASE RecvTextFails
  BY <1>2, TakeLengthStays DEF RecvTextFails
<1>3. CASE TakeText
  <2>1. TextTaken
    BY <1>3, TakeTextCases
  <2>2. Len(remainder) \in Nat /\ TakeLength \in Nat
    BY <2>1 DEF TextTaken, TransportTypeOK
  <2> USE <2>1, <2>2, LimitTypes DEF TextTaken, TransportTypeOK
  <2>3. received' = text_bytes' + Len(remainder') /\ received' <= MaxText
    <3>1. received' = received
      OBVIOUS
    <3>2. \/ text_bytes' = text_bytes /\ remainder' = remainder
          \/ text_bytes' = text_bytes + TakeLength
             /\ Len(remainder') = Len(remainder) - TakeLength
      OBVIOUS
    <3>3. /\ received = text_bytes + Len(remainder) /\ received <= MaxText
          /\ text_bytes \in Nat
      OBVIOUS
    <3> HIDE <2>1 DEF TransportInv, TextInv, TextTaken, TransportTypeOK
    <3> QED BY <3>1, <3>2, <3>3
  <2>4. line' <= MaxLine /\ pre_identification_lines' <= MaxLines
    OBVIOUS
  <2>5. banner_limit_exceeded' => tpc' = "dead"
    OBVIOUS
  <2>6. banner_limit_exceeded' =>
           \/ line' + TakeLength' >= MaxLine
           \/ text_bytes' + TakeLength' >= MaxText
           \/ pre_identification_lines' = MaxLines
    <3>1. ~banner_limit_exceeded
      OBVIOUS
    <3>2. CASE /\ UNCHANGED <<remainder, line, text_bytes>>
               /\ line + TakeLength > MaxLine \/ text_bytes + TakeLength > MaxText
      <4>1. TakeLength' = TakeLength
        BY <3>2, TakeLengthStays
      <4> QED BY <3>2, <4>1
    <3>3. CASE /\ UNCHANGED pre_identification_lines
               /\ pre_identification_lines >= MaxLines
      BY <3>3
    <3>4. CASE UNCHANGED banner_limit_exceeded
      BY <3>1, <3>4
    <3> HIDE <2>2, LimitTypes DEF TransportTypeOK, TransportInv, TextInv
    <3> QED BY <2>1, <3>2, <3>3, <3>4, Zenon DEF TextTaken
  <2> QED BY <2>3, <2>4, <2>5, <2>6
<1>4. CASE BeginMessage
  BY <1>4, TakeLengthStays DEF BeginMessage
<1>5. CASE ReadHeader
  BY <1>5, TakeLengthStays DEF ReadHeader
<1>6. CASE ReadBody
  BY <1>6, TakeLengthStays DEF ReadBody
<1>7. CASE ReadMac
  BY <1>7, TakeLengthStays DEF ReadMac
<1>8. CASE ReadFails
  BY <1>8, TakeLengthStays DEF ReadFails
<1>9. CASE Rekey
  BY <1>9, TakeLengthStays DEF Rekey
<1>10. CASE Connected
  BY <1>10, TakeLengthStays DEF Connected
<1>11. CASE ConnectRaises
  BY <1>11, TakeLengthStays DEF ConnectRaises
<1>12. CASE ConnectHandler
  BY <1>12, TakeLengthStays DEF ConnectHandler
<1>13. CASE UNCHANGED pvars
  BY <1>13, TakeLengthStays DEF pvars
<1> QED BY <1>1, <1>2, <1>3, <1>4, <1>5, <1>6, <1>7, <1>8, <1>9, <1>10, <1>11, <1>12,
           <1>13 DEF TransportNext, Thread

\* A packet is read in one, two or three parts, each after a check.
LEMMA TransportPacketStep == TransportInv /\ [TransportNext]_pvars => PacketInv'
<1> SUFFICES ASSUME TransportInv, [TransportNext]_pvars
             PROVE  PacketInv'
  OBVIOUS
<1> USE LimitTypes DEF TransportInv, TransportTypeOK, PacketInv, Text, Packet, Flags,
        Main, Dies, BannerLimit, BinaryLimit
<1>1. CASE RecvText
  BY <1>1 DEF RecvText
<1>2. CASE RecvTextFails
  BY <1>2 DEF RecvTextFails
<1>3. CASE TakeText
  <2>1. TextTaken
    BY <1>3, TakeTextCases DEF TransportTypeOK
  <2> QED BY <2>1 DEF TextTaken
<1>4. CASE BeginMessage
  BY <1>4 DEF BeginMessage
<1>5. CASE ReadHeader
  BY <1>5 DEF ReadHeader, ReviewedCipher, ClearLength
<1>6. CASE ReadBody
  <2>1. CASE RefusedBody(BodyRequest)
    BY <1>6, <2>1 DEF ReadBody
  <2>2. CASE ~RefusedBody(BodyRequest)
    <3>1. RequestedField(BodyRequest) <= MaxPacket
      BY <2>2, RequestIsTheField DEF RefusedBody
    <3>2. field <= MaxPacket
      BY <3>1, RequestIsTheField
    <3>3. CASE cipher.mode = "etm"
      <4>1. BodyRequest = field - (cipher.block - 4) + 0 /\ tpc' = "mac"
        BY <1>6, <2>2, <3>3 DEF ReadBody, BodyRequest
      <4> QED BY <1>6, <2>2, <3>2, <4>1, SMTT(30) DEF ReadBody
    <3>4. CASE cipher.mode # "etm"
      <4>1. BodyRequest = field - (cipher.block - 4) + cipher.mac /\ tpc' = "idle"
        BY <1>6, <2>2, <3>4 DEF ReadBody, BodyRequest
      <4> QED BY <1>6, <2>2, <3>2, <4>1, SMTT(30) DEF ReadBody
    <3> QED BY <3>3, <3>4
  <2> QED BY <2>1, <2>2
<1>7. CASE ReadMac
  BY <1>7 DEF ReadMac
<1>8. CASE ReadFails
  BY <1>8 DEF ReadFails
<1>9. CASE Rekey
  BY <1>9 DEF Rekey
<1>10. CASE Connected
  BY <1>10 DEF Connected, ReviewedCipher
<1>11. CASE ConnectRaises
  BY <1>11 DEF ConnectRaises, ReviewedCipher
<1>12. CASE ConnectHandler
  BY <1>12 DEF ConnectHandler, ReviewedCipher
<1>13. CASE UNCHANGED pvars
  BY <1>13 DEF pvars, ReviewedCipher
<1> QED BY <1>1, <1>2, <1>3, <1>4, <1>5, <1>6, <1>7, <1>8, <1>9, <1>10, <1>11, <1>12,
           <1>13 DEF TransportNext, Thread

\* The flags are never taken back, nor is the closing of the socket.
LEMMA TransportMainStep == TransportInv /\ [TransportNext]_pvars => MainInv'
<1> SUFFICES ASSUME TransportInv, [TransportNext]_pvars
             PROVE  MainInv'
  OBVIOUS
<1> USE DEF TransportInv, MainInv, LimitIsReported, Limits, Text, Packet, Flags, Main,
        Dies, BannerLimit, BinaryLimit
<1>1. CASE RecvText
  BY <1>1 DEF RecvText
<1>2. CASE RecvTextFails
  BY <1>2 DEF RecvTextFails
<1>3. CASE TakeText
  <2>1. TextTaken
    BY <1>3, TakeTextCases DEF TransportTypeOK
  <2> QED BY <2>1 DEF TextTaken
<1>4. CASE BeginMessage
  BY <1>4 DEF BeginMessage
<1>5. CASE ReadHeader
  BY <1>5 DEF ReadHeader
<1>6. CASE ReadBody
  BY <1>6 DEF ReadBody
<1>7. CASE ReadMac
  BY <1>7 DEF ReadMac
<1>8. CASE ReadFails
  BY <1>8 DEF ReadFails
<1>9. CASE Rekey
  BY <1>9 DEF Rekey
<1>10. CASE Connected
  BY <1>10 DEF Connected
<1>11. CASE ConnectRaises
  BY <1>11 DEF ConnectRaises
<1>12. CASE ConnectHandler
  BY <1>12 DEF ConnectHandler
<1>13. CASE UNCHANGED pvars
  BY <1>13 DEF pvars
<1> QED BY <1>1, <1>2, <1>3, <1>4, <1>5, <1>6, <1>7, <1>8, <1>9, <1>10, <1>11, <1>12,
           <1>13 DEF TransportNext, Thread

\* TransportInv holds in every state, for any limits and whatever the peer sends.
THEOREM TransportInvariant == PacketSpec => []TransportInv
<1>1. TransportInv /\ [TransportNext]_pvars => TransportInv'
  BY TransportTypeStep, TransportTextStep, TransportPacketStep, TransportMainStep
     DEF TransportInv
<1> QED BY <1>1, TransportInitInv, PTL DEF PacketSpec

\* What a peer can make the process read is bounded, before and after its
\* identification.
THEOREM TransportIsBoundedTheorem == PacketSpec => []TransportIsBounded
<1>1. TransportInv => TransportIsBounded
  BY DEF TransportInv, TextInv, PacketInv, TransportIsBounded
<1> QED BY <1>1, TransportInvariant, PTL

\* No legal packet is refused, and no text that could still become an acceptable
\* identification.
THEOREM RefusalIsJustifiedTheorem == PacketSpec => []RefusalIsJustified
<1>1. TransportInv => RefusalIsJustified
  BY LegalIsNotRefused DEF TransportInv, TextInv, PacketInv, RefusalIsJustified
<1> QED BY <1>1, TransportInvariant, PTL

\* connect() reports a peer over its limit as such, and leaves nothing open.
THEOREM LimitIsReportedTheorem == PacketSpec => []LimitIsReported
<1>1. TransportInv => LimitIsReported
  BY DEF TransportInv, MainInv
<1> QED BY <1>1, TransportInvariant, PTL

-----------------------------------------------------------------------------
(* ReadBudget: the count of an insert-line code, compared as a string *)

\* A set of numbers with 0, and with k + 1 for each of its k below m, has all up to m.
LEMMA CountUp ==
  ASSUME NEW T, NEW m \in Nat, 0 \in T, \A k \in 0..(m - 1) : k \in T => k + 1 \in T
  PROVE  \A k \in 0..m : k \in T
<1> DEFINE B == {k \in 0..m : k \notin T}
<1>1. SUFFICES ASSUME B # {} PROVE FALSE
  OBVIOUS
<1>2. PICK b \in B : \A y \in B : b <= y
  <2>1. B \subseteq Nat
    OBVIOUS
  <2> HIDE DEF B
  <2> QED BY <1>1, <2>1, LeastNumber
<1>3. b \in 1..m /\ b - 1 \in 0..(m - 1)
  BY <1>2
<1>4. b - 1 \notin B
  BY <1>2, <1>3
<1>5. b - 1 \in T
  BY <1>3, <1>4
<1>6. b - 1 + 1 \in T
  BY <1>3, <1>5
<1> QED BY <1>3, <1>6

\* The radix is a number of at least two.
LEMMA RadixType == Radix \in Nat /\ Radix >= 2
  BY BudgetAssumption

\* Its multiples are numbers, and those of different numbers are a radix apart.
LEMMA RadixTimes ==
  /\ \A a \in Nat : Radix * a \in Nat
  /\ \A a, b \in Nat : a < b => Radix * a + Radix <= Radix * b
  /\ \A a, b, x, y \in Nat : a < b /\ x < Radix => Radix * a + x < Radix * b + y
<1>1. ASSUME NEW a \in Nat PROVE Radix * a \in Nat
  BY RadixType
<1>2. ASSUME NEW a \in Nat, NEW b \in Nat, a < b
      PROVE  Radix * a + Radix <= Radix * b
  <2>1. b - a - 1 \in Nat /\ b = a + 1 + (b - a - 1)
    BY <1>2
  <2>2. PICK c \in Nat : b = a + 1 + c
    BY <2>1
  <2>3. Radix * b = Radix * a + Radix + Radix * c
    BY <2>2, RadixType
  <2>4. Radix * a \in Nat /\ Radix * b \in Nat /\ Radix * c \in Nat
    BY <1>1
  <2> QED BY <2>3, <2>4, RadixType
<1>3. ASSUME NEW a \in Nat, NEW b \in Nat, NEW x \in Nat, NEW y \in Nat, a < b, x < Radix
      PROVE  Radix * a + x < Radix * b + y
  <2>1. /\ Radix * a + Radix <= Radix * b
        /\ Radix * a \in Nat /\ Radix * b \in Nat
    BY <1>1, <1>2, <1>3
  <2> QED BY <1>3, <2>1, RadixType
<1> QED BY <1>1, <1>2, <1>3

DigitSet == 0..(Radix - 1)

\* A digit is a number below the radix.
LEMMA DigitType == \A x \in DigitSet : x \in Nat /\ x < Radix
  BY RadixType DEF DigitSet

\* f[k] is the value of the first k digits of d.
Prefixes(d, f) ==
    /\ f \in [0..Len(d) -> Nat]
    /\ f[0] = 0
    /\ \A k \in 1..Len(d) : f[k] = Radix * f[k - 1] + d[k]

\* Every digit string has its prefix values, up to any of its digits.
LEMMA PrefixesExist ==
  ASSUME NEW d \in Seq(DigitSet)
  PROVE  \E f : Prefixes(d, f)
<1> DEFINE T == {m \in 0..Len(d) : \E f \in [0..m -> Nat] :
                    f[0] = 0 /\ \A k \in 1..m : f[k] = Radix * f[k - 1] + d[k]}
<1>0. Len(d) \in Nat /\ \A k \in 1..Len(d) : d[k] \in Nat
  BY RadixType DEF DigitSet
<1>1. 0 \in T
  <2> DEFINE z == [k \in 0..0 |-> 0]
  <2>1. /\ z \in [0..0 -> Nat] /\ z[0] = 0
        /\ \A k \in 1..0 : z[k] = Radix * z[k - 1] + d[k]
    OBVIOUS
  <2> HIDE DEF z
  <2>2. 0 \in 0..Len(d)
    BY <1>0
  <2> QED BY <2>1, <2>2, Zenon
<1>2. ASSUME NEW k \in 0..(Len(d) - 1), k \in T
      PROVE  k + 1 \in T
  <2>1. PICK g \in [0..k -> Nat] : g[0] = 0 /\ \A i \in 1..k : g[i] = Radix * g[i - 1] + d[i]
    BY <1>2
  <2> DEFINE h == [i \in 0..(k + 1) |-> IF i = k + 1 THEN Radix * g[k] + d[k + 1] ELSE g[i]]
  <2>2. k \in Nat /\ k + 1 \in 1..Len(d) /\ d[k + 1] \in Nat /\ g[k] \in Nat
    BY <1>0
  <2>3. Radix * g[k] + d[k + 1] \in Nat
    <3>1. Radix * g[k] \in Nat
      BY <2>2, RadixTimes
    <3> QED BY <2>2, <3>1
  <2>4. h \in [0..(k + 1) -> Nat]
    BY <2>2, <2>3
  <2>5. h[0] = 0
    BY <2>1, <2>2
  <2>6. ASSUME NEW i \in 1..(k + 1) PROVE h[i] = Radix * h[i - 1] + d[i]
    <3>1. CASE i = k + 1
      BY <2>2, <3>1
    <3>2. CASE i # k + 1
      BY <2>1, <2>2, <3>2
    <3> QED BY <3>1, <3>2
  <2>7. k + 1 \in 0..Len(d)
    BY <2>2
  <2> HIDE DEF h
  <2> QED BY <2>4, <2>5, <2>6, <2>7
<1>3. Len(d) \in T
  <2> HIDE DEF T
  <2>1. \A k \in 0..Len(d) : k \in T
    BY <1>0, <1>1, <1>2, CountUp, Zenon
  <2> QED BY <2>1
<1> QED BY <1>3 DEF Prefixes

\* m more digits follow the first i digits of d and the first j digits of e.
Aligned(d, f, i, e, g, j, m) ==
    /\ d \in Seq(DigitSet) /\ e \in Seq(DigitSet)
    /\ Prefixes(d, f) /\ Prefixes(e, g)
    /\ i \in 0..Len(d) /\ j \in 0..Len(e) /\ m \in Nat
    /\ i + m <= Len(d) /\ j + m <= Len(e)

\* The prefix values of two digit strings that agree from some digits on stay equal.
LEMMA PrefixesAgree ==
  ASSUME NEW d, NEW f, NEW i, NEW e, NEW g, NEW j, NEW m, Aligned(d, f, i, e, g, j, m),
         f[i] = g[j], \A k \in 1..m : d[i + k] = e[j + k]
  PROVE  f[i + m] = g[j + m]
<1> USE DEF Aligned
<1> DEFINE T == {k \in 0..m : f[i + k] = g[j + k]}
<1>1. 0 \in T
  OBVIOUS
<1>2. ASSUME NEW k \in 0..(m - 1), k \in T
      PROVE  k + 1 \in T
  <2>1. i + k + 1 \in 1..Len(d) /\ j + k + 1 \in 1..Len(e) /\ k + 1 \in 1..m
    OBVIOUS
  <2>2. /\ f[i + k + 1] = Radix * f[i + k] + d[i + k + 1]
        /\ g[j + k + 1] = Radix * g[j + k] + e[j + k + 1]
    BY <2>1 DEF Prefixes
  <2>3. i + (k + 1) = i + k + 1 /\ j + (k + 1) = j + k + 1
    OBVIOUS
  <2>4. f[i + k] = g[j + k]
    BY <1>2
  <2>5. d[i + (k + 1)] = e[j + (k + 1)]
    BY <2>1
  <2>6. f[i + (k + 1)] = g[j + (k + 1)]
    BY <2>2, <2>3, <2>4, <2>5
  <2>7. k + 1 \in 0..m
    OBVIOUS
  <2> QED BY <2>6, <2>7
<1>3. m \in T
  <2> HIDE DEF T
  <2>1. \A k \in 0..m : k \in T
    BY <1>1, <1>2, CountUp, Zenon
  <2> QED BY <2>1
<1> QED BY <1>3

\* A prefix value that is behind another stays behind, whatever digits follow.
LEMMA PrefixesBehind ==
  ASSUME NEW d, NEW f, NEW i, NEW e, NEW g, NEW j, NEW m, Aligned(d, f, i, e, g, j, m),
         f[i] < g[j]
  PROVE  f[i + m] < g[j + m]
<1> USE DEF Aligned
<1> DEFINE T == {k \in 0..m : f[i + k] < g[j + k]}
<1>1. 0 \in T
  OBVIOUS
<1>2. ASSUME NEW k \in 0..(m - 1), k \in T
      PROVE  k + 1 \in T
  <2>1. /\ i + k + 1 \in 1..Len(d) /\ j + k + 1 \in 1..Len(e) /\ k + 1 \in 0..m
        /\ i + k \in 0..Len(d) /\ j + k \in 0..Len(e)
    OBVIOUS
  <2>2. /\ f[i + k + 1] = Radix * f[i + k] + d[i + k + 1]
        /\ g[j + k + 1] = Radix * g[j + k] + e[j + k + 1]
        /\ f[i + k] \in Nat /\ g[j + k] \in Nat
    <3>1. /\ f \in [0..Len(d) -> Nat] /\ g \in [0..Len(e) -> Nat]
          /\ \A x \in 1..Len(d) : f[x] = Radix * f[x - 1] + d[x]
          /\ \A x \in 1..Len(e) : g[x] = Radix * g[x - 1] + e[x]
      BY DEF Prefixes
    <3>2. i + k + 1 - 1 = i + k /\ j + k + 1 - 1 = j + k
      OBVIOUS
    <3>3. f[i + k] \in Nat /\ g[j + k] \in Nat
      BY <2>1, <3>1
    <3> QED BY <2>1, <3>1, <3>2, <3>3
  <2>3. f[i + k] < g[j + k]
    BY <1>2
  <2>4. /\ d[i + k + 1] \in Nat /\ d[i + k + 1] < Radix /\ e[j + k + 1] \in Nat
    <3>1. d[i + k + 1] \in DigitSet /\ e[j + k + 1] \in DigitSet
      BY <2>1
    <3> QED BY <3>1, DigitType
  <2>5. f[i + k + 1] < g[j + k + 1]
    <3>1. Radix * f[i + k] + d[i + k + 1] < Radix * g[j + k] + e[j + k + 1]
      BY <2>2, <2>3, <2>4, RadixTimes, Zenon
    <3> QED BY <2>2, <3>1
  <2>6. i + (k + 1) = i + k + 1 /\ j + (k + 1) = j + k + 1
    OBVIOUS
  <2> QED BY <2>1, <2>5, <2>6
<1>3. m \in T
  <2> HIDE DEF T
  <2>1. \A k \in 0..m : k \in T
    BY <1>1, <1>2, CountUp, Zenon
  <2> QED BY <2>1
<1> QED BY <1>3

\* Value(d) is the value of all the digits.
LEMMA ValueIsPrefix ==
  ASSUME NEW d \in Seq(DigitSet), NEW f, Prefixes(d, f)
  PROVE  Value(d) = f[Len(d)]
<1> DEFINE Body(v) == [k \in 0..Len(d) |-> IF k = 0 THEN 0 ELSE Radix * v[k - 1] + d[k]]
           v == CHOOSE v : v = Body(v)
<1>0. Len(d) \in Nat
  OBVIOUS
<1>1. f = Body(f)
  BY DEF Prefixes
<1>2. v = Body(v)
  <2> HIDE DEF Body
  <2> QED BY <1>1
<1>3. Value(d) = v[Len(d)]
  BY DEF Value
<1> HIDE DEF v
<1> DEFINE T == {k \in 0..Len(d) : v[k] = f[k]}
<1>4. 0 \in T
  BY <1>2 DEF Prefixes
<1>5. ASSUME NEW k \in 0..(Len(d) - 1), k \in T
      PROVE  k + 1 \in T
  <2>1. k + 1 \in 1..Len(d) /\ k + 1 - 1 = k /\ k + 1 \in 0..Len(d) /\ k + 1 # 0
    OBVIOUS
  <2>2. f[k + 1] = Radix * f[k] + d[k + 1]
    BY <2>1 DEF Prefixes
  <2>3. v[k + 1] = Radix * v[k] + d[k + 1]
    BY <1>2, <2>1
  <2> QED BY <1>5, <2>1, <2>2, <2>3
<1>6. Len(d) \in T
  <2> HIDE DEF T
  <2>1. \A k \in 0..Len(d) : k \in T
    BY <1>0, <1>4, <1>5, CountUp, Zenon
  <2> QED BY <2>1
<1> QED BY <1>3, <1>6

\* Division by the radix with remainder.
LEMMA RadixDivides ==
  ASSUME NEW k \in Nat, k >= Radix
  PROVE  \E q \in Nat, r \in DigitSet :
            /\ q = k \div Radix /\ r = k % Radix
            /\ q >= 1 /\ q < k /\ k = Radix * q + r
<1> DEFINE q == k \div Radix
           r == k % Radix
<1>0. q = k \div Radix /\ r = k % Radix
  OBVIOUS
<1>1. r \in 0..(Radix - 1) /\ q \in Int /\ k = Radix * q + r
  BY RadixType
<1> HIDE DEF q, r
<1>2. q >= 1
  <2>1. SUFFICES ASSUME q <= 0 PROVE FALSE
    BY <1>1
  <2>2. 0 - q \in Nat
    BY <1>1, <2>1
  <2>3. Radix * (0 - q) \in Nat
    BY <2>2, RadixTimes
  <2>4. Radix * (0 - q) = 0 - Radix * q
    BY <1>1, RadixType
  <2>5. Radix * q \in Int
    BY <1>1, RadixType
  <2> QED BY <1>1, <2>3, <2>4, <2>5, RadixType
<1>3. q < k
  <2>1. Radix * q >= 2 * q
    <3>1. Radix - 2 \in Nat /\ q \in Nat
      BY <1>1, <1>2, RadixType
    <3>2. (Radix - 2) * q \in Nat
      BY <3>1
    <3>3. (Radix - 2) * q = Radix * q - 2 * q
      BY <1>1, RadixType
    <3>4. Radix * q \in Int
      BY <1>1, RadixType
    <3> QED BY <1>1, <3>2, <3>3, <3>4
  <2>2. Radix * q \in Int
    BY <1>1, RadixType
  <2> QED BY <1>1, <1>2, <2>1, <2>2, RadixType
<1>4. q \in Nat /\ r \in DigitSet
  BY <1>1, <1>2 DEF DigitSet
<1> QED BY <1>0, <1>1, <1>2, <1>3, <1>4, Zenon

\* The digits of k, given those s of the smaller numbers.
DigitsFrom(s, k) == IF k < Radix THEN <<k>> ELSE Append(s[k \div Radix], k % Radix)

\* The function that Digits defines recursively exists.
LEMMA DigitsExist ==
  ASSUME NEW n \in Nat
  PROVE  \E s : s = [k \in 0..n |-> DigitsFrom(s, k)]
<1> DEFINE T == {m \in 0..n : \E s : s = [k \in 0..m |-> DigitsFrom(s, k)]}
<1>1. 0 \in T
  <2> DEFINE z == [k \in 0..0 |-> <<k>>]
  <2>1. z = [k \in 0..0 |-> DigitsFrom(z, k)]
    BY RadixType DEF DigitsFrom
  <2> HIDE DEF z
  <2>2. 0 \in 0..n
    OBVIOUS
  <2> QED BY <2>1, <2>2, Zenon
<1>2. ASSUME NEW m \in 0..(n - 1), m \in T
      PROVE  m + 1 \in T
  <2>1. PICK g : g = [k \in 0..m |-> DigitsFrom(g, k)]
    BY <1>2
  <2> DEFINE h == [k \in 0..(m + 1) |-> DigitsFrom(g, k)]
  <2>2. ASSUME NEW k \in 0..(m + 1)
        PROVE  DigitsFrom(g, k) = DigitsFrom(h, k)
    <3>1. CASE k < Radix
      BY <3>1 DEF DigitsFrom
    <3>2. CASE ~(k < Radix)
      <4>1. k \in Nat /\ k >= Radix
        BY <3>2, RadixType
      <4>2. k \div Radix \in Nat /\ k \div Radix < k
        BY <4>1, RadixDivides
      <4>3. k \div Radix \in 0..m /\ k \div Radix \in 0..(m + 1)
        BY <4>2
      <4>4. g[k \div Radix] = DigitsFrom(g, k \div Radix)
        BY <2>1, <4>3
      <4>5. h[k \div Radix] = DigitsFrom(g, k \div Radix)
        BY <4>3
      <4> HIDE DEF h
      <4> QED BY <3>2, <4>4, <4>5 DEF DigitsFrom
    <3> QED BY <3>1, <3>2
  <2>3. h = [k \in 0..(m + 1) |-> DigitsFrom(h, k)]
    BY <2>2, Zenon
  <2> HIDE DEF h
  <2>4. m + 1 \in 0..n
    OBVIOUS
  <2> QED BY <2>3, <2>4, Zenon
<1>3. n \in T
  <2> HIDE DEF T
  <2>1. \A k \in 0..n : k \in T
    BY <1>1, <1>2, CountUp, Zenon
  <2> QED BY <2>1
<1> QED BY <1>3

\* x is a digit string without leading zeros whose value is k.
Renders(x, k) ==
    /\ x \in Seq(DigitSet) /\ Len(x) >= 1
    /\ k > 0 \/ Len(x) > 1 => x[1] # 0
    /\ \E f : Prefixes(x, f) /\ f[Len(x)] = k

\* One more digit is one more step of the prefix values.
LEMMA RendersAppend ==
  ASSUME NEW q \in Nat, NEW x, Renders(x, q), q > 0, NEW r \in DigitSet
  PROVE  Renders(Append(x, r), Radix * q + r)
<1>1. PICK f : Prefixes(x, f) /\ f[Len(x)] = q
  BY DEF Renders
<1> DEFINE y == Append(x, r)
<1>2. /\ x \in Seq(DigitSet) /\ Len(x) \in Nat /\ Len(x) >= 1 /\ x[1] # 0
  BY DEF Renders
<1>3. /\ y \in Seq(DigitSet) /\ Len(y) = Len(x) + 1 /\ y[Len(y)] = r
      /\ \A k \in 1..Len(x) : y[k] = x[k]
  BY <1>2
<1> HIDE DEF y
<1>4. PICK g : Prefixes(y, g)
  BY <1>3, PrefixesExist
<1>5. f[0] = 0 /\ g[0] = 0
  BY <1>1, <1>4 DEF Prefixes
<1>6. f[Len(x)] = g[Len(x)]
  <2>1. Aligned(x, f, 0, y, g, 0, Len(x))
    BY <1>1, <1>2, <1>3, <1>4 DEF Aligned
  <2>2. f[0] = g[0] /\ \A k \in 1..Len(x) : x[0 + k] = y[0 + k]
    BY <1>2, <1>3, <1>5
  <2>3. f[0 + Len(x)] = g[0 + Len(x)]
    BY <2>1, <2>2, PrefixesAgree
  <2> QED BY <1>2, <2>3
<1>7. g[Len(y)] = Radix * q + r
  <2>1. Len(y) \in 1..Len(y) /\ Len(y) - 1 = Len(x)
    BY <1>2, <1>3
  <2>2. g[Len(y)] = Radix * g[Len(y) - 1] + y[Len(y)]
    BY <1>4, <2>1 DEF Prefixes
  <2> QED BY <1>1, <1>3, <1>6, <2>1, <2>2
<1>8. y[1] # 0 /\ Len(y) >= 1
  BY <1>2, <1>3
<1>9. Renders(y, Radix * q + r)
  BY <1>3, <1>4, <1>7, <1>8 DEF Renders
<1> QED BY <1>9 DEF y

\* Digits(n) has the value n.
LEMMA DigitsRender ==
  ASSUME NEW n \in Nat
  PROVE  Renders(Digits(n), n)
<1> DEFINE s == CHOOSE s : s = [k \in 0..n |-> DigitsFrom(s, k)]
<1>1. s = [k \in 0..n |-> DigitsFrom(s, k)]
  BY DigitsExist
<1>2. Digits(n) = s[n]
  BY Zenon DEF Digits, DigitsFrom
<1> HIDE DEF s
<1> DEFINE B == {k \in 0..n : ~Renders(s[k], k)}
<1>3. SUFFICES ASSUME B # {} PROVE FALSE
  <2>1. n \in 0..n
    OBVIOUS
  <2> QED BY <1>2, <2>1
<1>4. PICK b \in B : \A y \in B : b <= y
  <2>1. B \subseteq Nat
    OBVIOUS
  <2> HIDE DEF B
  <2> QED BY <1>3, <2>1, LeastNumber
<1>5. b \in Nat /\ b \in 0..n /\ ~Renders(s[b], b) /\ s[b] = DigitsFrom(s, b)
  BY <1>1, <1>4
<1>6. CASE b < Radix
  <2>1. s[b] = <<b>> /\ b \in DigitSet
    BY <1>5, <1>6, RadixType DEF DigitsFrom, DigitSet
  <2>2. /\ <<b>> \in Seq(DigitSet) /\ Len(<<b>>) = 1 /\ <<b>>[1] = b
    BY <2>1
  <2>3. PICK f : Prefixes(<<b>>, f)
    BY <2>2, PrefixesExist
  <2>4. f[0] = 0 /\ f[1] = Radix * f[1 - 1] + <<b>>[1]
    BY <2>2, <2>3 DEF Prefixes
  <2>5. f[1] = b
    <3>1. f[1] = Radix * 0 + b
      BY <2>2, <2>4
    <3>2. Radix * 0 = 0
      BY RadixType
    <3> QED BY <1>5, <3>1, <3>2
  <2>6. Renders(<<b>>, b)
    BY <1>5, <2>2, <2>3, <2>5 DEF Renders
  <2> QED BY <1>5, <2>1, <2>6
<1>7. CASE ~(b < Radix)
  <2>0. b >= Radix
    BY <1>5, <1>7, RadixType
  <2>1. PICK q \in Nat, r \in DigitSet :
           /\ q = b \div Radix /\ r = b % Radix
           /\ q >= 1 /\ q < b /\ b = Radix * q + r
    BY <1>5, <2>0, RadixDivides
  <2>2. s[b] = Append(s[q], r)
    BY <1>5, <1>7, <2>1 DEF DigitsFrom
  <2>3. q \in 0..n /\ q \notin B
    BY <1>4, <1>5, <2>1
  <2>4. Renders(s[q], q)
    BY <2>3
  <2>5. Renders(Append(s[q], r), Radix * q + r)
    BY <2>1, <2>4, RendersAppend
  <2> QED BY <1>5, <2>1, <2>2, <2>5
<1> QED BY <1>6, <1>7

\* The first k digits of d are zeros: so is their value.
LEMMA ZerosAreNothing ==
  ASSUME NEW d \in Seq(DigitSet), NEW f, Prefixes(d, f), NEW m \in 0..Len(d),
         \A k \in 1..m : d[k] = 0
  PROVE  f[m] = 0
<1> DEFINE T == {k \in 0..m : f[k] = 0}
<1>0. m \in Nat
  OBVIOUS
<1>1. 0 \in T
  BY DEF Prefixes
<1>2. ASSUME NEW k \in 0..(m - 1), k \in T
      PROVE  k + 1 \in T
  <2>1. k + 1 \in 1..Len(d) /\ k + 1 \in 1..m /\ k + 1 - 1 = k /\ k + 1 \in 0..m
    OBVIOUS
  <2>2. f[k + 1] = Radix * f[k + 1 - 1] + d[k + 1]
    BY <2>1 DEF Prefixes
  <2>3. f[k] = 0 /\ d[k + 1] = 0
    BY <1>2, <2>1
  <2>4. Radix * 0 + 0 = 0
    BY RadixType
  <2>5. f[k + 1] = 0
    BY <2>1, <2>2, <2>3, <2>4
  <2> QED BY <2>1, <2>5
<1>3. m \in T
  <2> HIDE DEF T
  <2>1. \A k \in 0..m : k \in T
    BY <1>0, <1>1, <1>2, CountUp, Zenon
  <2> QED BY <2>1
<1> QED BY <1>3

\* A digit string that does not start with a zero has a value from its first digit on.
LEMMA PrefixesArePositive ==
  ASSUME NEW e \in Seq(DigitSet), NEW g, Prefixes(e, g), Len(e) >= 1, e[1] # 0,
         NEW m \in 1..Len(e)
  PROVE  g[m] > 0
<1>0. Len(e) \in Nat /\ 1 \in 1..Len(e) /\ e[1] \in DigitSet
  OBVIOUS
<1> DEFINE T == {k \in 0..(m - 1) : g[k + 1] > 0}
<1>1. 0 \in T
  <2>1. g[0] = 0 /\ g[1] = Radix * g[1 - 1] + e[1]
    BY <1>0 DEF Prefixes
  <2>2. Radix * 0 = 0
    BY RadixType
  <2>3. e[1] \in Nat /\ e[1] > 0
    BY <1>0, DigitType
  <2>4. g[0 + 1] > 0
    BY <2>1, <2>2, <2>3
  <2> QED BY <2>4
<1>2. ASSUME NEW k \in 0..(m - 1 - 1), k \in T
      PROVE  k + 1 \in T
  <2>1. k + 2 \in 1..Len(e) /\ k + 1 \in 0..Len(e) /\ k + 1 \in 0..(m - 1)
    BY <1>0
  <2>2. g[k + 2] = Radix * g[k + 2 - 1] + e[k + 2] /\ g[k + 1] \in Nat
    <3>1. \A j \in 1..Len(e) : g[j] = Radix * g[j - 1] + e[j]
      BY Zenon DEF Prefixes
    <3>2. \A j \in 0..Len(e) : g[j] \in Nat
      BY Zenon DEF Prefixes
    <3>3. g[k + 2] = Radix * g[k + 2 - 1] + e[k + 2]
      <4> DEFINE n == k + 2
      <4>1. n \in 1..Len(e)
        BY <2>1
      <4> HIDE DEF n
      <4>2. g[n] = Radix * g[n - 1] + e[n]
        BY <3>1, <4>1, Zenon
      <4> QED BY <4>2 DEF n
    <3>4. g[k + 1] \in Nat
      BY <2>1, <3>2, Zenon
    <3> QED BY <3>3, <3>4
  <2>3. g[k + 1] > 0 /\ k + 2 - 1 = k + 1 /\ k + 1 + 1 = k + 2
    BY <1>2
  <2>4. e[k + 2] \in Nat
    BY <2>1, DigitType
  <2>5. Radix * 0 + 0 < Radix * g[k + 1] + e[k + 2]
    BY <2>2, <2>3, <2>4, RadixTimes, RadixType
  <2>6. Radix * 0 + 0 = 0
    BY RadixType
  <2>7. g[k + 1 + 1] > 0
    BY <2>2, <2>3, <2>5, <2>6
  <2> QED BY <2>1, <2>7
<1>3. m - 1 \in T
  <2> HIDE DEF T
  <2>1. m - 1 \in Nat
    OBVIOUS
  <2>2. \A k \in 0..(m - 1) : k \in T
    BY <1>1, <1>2, <2>1, CountUp, Zenon
  <2> QED BY <2>1, <2>2
<1>4. m - 1 + 1 = m
  OBVIOUS
<1> QED BY <1>3, <1>4

\* What lstrip("0") leaves: the digits from the first one on that is not zero.
LEMMA WithoutZerosIs ==
  ASSUME NEW d \in Seq(DigitSet), NEW i \in 1..Len(d), d[i] # 0
  PROVE  \E z \in 1..Len(d) :
            /\ d[z] # 0 /\ \A k \in 1..(z - 1) : d[k] = 0
            /\ WithoutZeros(d) = SubSeq(d, z, Len(d))
<1> DEFINE N == {k \in DOMAIN d : d[k] # 0}
           z == CHOOSE k \in N : \A j \in N : k <= j
<1>0. DOMAIN d = 1..Len(d) /\ Len(d) \in Nat
  OBVIOUS
<1>1. N \subseteq Nat /\ i \in N /\ N \subseteq 1..Len(d)
  BY <1>0
<1>2. z \in N /\ \A j \in N : z <= j
  <2> HIDE DEF N
  <2>1. \E k \in N : \A j \in N : k <= j
    BY <1>1, LeastNumber
  <2> QED BY <2>1, Zenon
<1>3. WithoutZeros(d) = SubSeq(d, z, Len(d))
  BY <1>1, Zenon DEF WithoutZeros
<1> HIDE DEF z
<1>4. z \in 1..Len(d) /\ d[z] # 0
  BY <1>1, <1>2
<1>5. ASSUME NEW k \in 1..(z - 1) PROVE d[k] = 0
  <2>1. k \in 1..Len(d) /\ ~(z <= k)
    BY <1>4
  <2> QED BY <1>0, <1>2, <2>1
<1> QED BY <1>3, <1>4, <1>5

\* Digits that are not more than those of e make a value that is not more.
LEMMA CompareDigits ==
  ASSUME NEW d \in Seq(DigitSet), NEW f, Prefixes(d, f), NEW e \in Seq(DigitSet), NEW g,
         Prefixes(e, g), NEW z \in Nat, NEW l \in Nat, l >= 1, z + l = Len(d), f[z] = 0,
         l <= Len(e), Len(e) > 1 => e[1] # 0,
         l = Len(e) =>
            ~\E k \in 1..l : d[z + k] > e[k] /\ \A j \in 1..(k - 1) : d[z + j] = e[j]
  PROVE  f[Len(d)] <= g[Len(e)]
<1>1. /\ f \in [0..Len(d) -> Nat] /\ g \in [0..Len(e) -> Nat] /\ g[0] = 0
      /\ Len(d) \in Nat /\ Len(e) \in Nat
  BY DEF Prefixes
<1>2. f[Len(d)] \in Nat /\ g[Len(e)] \in Nat
  <2>1. Len(d) \in 0..Len(d) /\ Len(e) \in 0..Len(e)
    BY <1>1
  <2> QED BY <1>1, <2>1, Zenon
<1>3. CASE l < Len(e)
  <2> DEFINE m == Len(e) - l
  <2>1. m \in 1..Len(e) /\ m + l = Len(e) /\ Len(e) > 1
    BY <1>1, <1>3
  <2> HIDE DEF m
  <2>2. g[m] > 0
    BY <1>1, <2>1, PrefixesArePositive
  <2>3. Aligned(d, f, z, e, g, m, l)
    BY <1>1, <2>1 DEF Aligned
  <2>4. f[z + l] < g[m + l]
    BY <2>2, <2>3, PrefixesBehind
  <2>5. f[Len(d)] < g[Len(e)]
    BY <2>1, <2>4, Zenon
  <2> HIDE <1>1
  <2> QED BY <1>2, <2>5
<1>4. CASE l = Len(e) /\ \A k \in 1..l : d[z + k] = e[k]
  <2>1. Aligned(d, f, z, e, g, 0, l)
    BY <1>1, <1>4 DEF Aligned
  <2>2. \A k \in 1..l : d[z + k] = e[0 + k]
    BY <1>4
  <2>3. f[z] = g[0] /\ 0 + l = l
    BY <1>1
  <2>4. f[z + l] = g[0 + l]
    BY <2>1, <2>2, <2>3, PrefixesAgree
  <2>5. f[Len(d)] = g[Len(e)]
    BY <1>4, <2>3, <2>4, Zenon
  <2> QED BY <1>2, <2>5
<1>5. CASE l = Len(e) /\ \E k \in 1..l : d[z + k] # e[k]
  <2> DEFINE N == {k \in 1..l : d[z + k] # e[k]}
  <2>1. PICK k \in N : \A y \in N : k <= y
    <3>1. N \subseteq Nat
      OBVIOUS
    <3>2. N # {}
      BY <1>5, Zenon
    <3> HIDE DEF N
    <3> QED BY <3>1, <3>2, LeastNumber
  <2>2. k \in 1..l /\ d[z + k] # e[k] /\ \A j \in 1..(k - 1) : d[z + j] = e[j]
    <3>1. ASSUME NEW j \in 1..(k - 1) PROVE d[z + j] = e[j]
      <4>1. j \in 1..l /\ ~(k <= j)
        BY <2>1
      <4> QED BY <2>1, <4>1
    <3> QED BY <2>1, <3>1
  <2> HIDE DEF N
  <2> DEFINE i == k - 1
  <2>3. i \in Nat /\ k = i + 1 /\ z + k \in 1..Len(d) /\ k \in 1..Len(e) /\ i \in 0..Len(e)
        /\ z + i \in 0..Len(d) /\ z + k - 1 = z + i /\ k - 1 = i /\ k \in Nat
    BY <1>1, <1>5, <2>2
  <2> HIDE DEF i
  <2>4. d[z + k] \in DigitSet /\ e[k] \in DigitSet
    BY <2>3
  <2>5. d[z + k] < e[k]
    <3>1. ~(d[z + k] > e[k])
      BY <1>5, <2>2
    <3>2. d[z + k] \in Nat /\ e[k] \in Nat
      BY <2>4, DigitType
    <3> QED BY <2>2, <3>1, <3>2
  <2>6. f[z + i] = g[i]
    <3>1. Aligned(d, f, z, e, g, 0, i)
      BY <1>1, <1>5, <2>3 DEF Aligned
    <3>2. \A j \in 1..i : d[z + j] = e[0 + j]
      BY <2>2, <2>3
    <3>3. f[z] = g[0] /\ 0 + i = i
      BY <1>1, <2>3
    <3>4. f[z + i] = g[0 + i]
      BY <3>1, <3>2, <3>3, PrefixesAgree
    <3> QED BY <3>3, <3>4
  <2>7. f[z + k] < g[k]
    <3>1. f[z + k] = Radix * f[z + k - 1] + d[z + k]
      BY <2>3 DEF Prefixes
    <3>2. g[k] = Radix * g[k - 1] + e[k] /\ k - 1 = i
      BY <2>3 DEF Prefixes
    <3>3. Radix * g[i] \in Nat
      BY <1>1, <2>3, RadixTimes
    <3>4. d[z + k] \in Nat /\ e[k] \in Nat
      BY <2>4, DigitType
    <3>5. f[z + k] = Radix * g[i] + d[z + k] /\ g[k] = Radix * g[i] + e[k]
      BY <2>3, <2>6, <3>1, <3>2, Zenon
    <3> QED BY <2>5, <3>3, <3>4, <3>5
  <2> DEFINE m == l - k
  <2>8. m \in Nat /\ k + m = l /\ z + k + m = Len(d)
    BY <2>2, <2>3, SMTT(30)
  <2> HIDE DEF m
  <2>9. Aligned(d, f, z + k, e, g, k, m)
    BY <1>1, <1>5, <2>3, <2>8 DEF Aligned
  <2>10. f[z + k + m] < g[k + m]
    BY <2>7, <2>9, PrefixesBehind
  <2>11. f[Len(d)] < g[Len(e)]
    BY <1>5, <2>8, <2>10, Zenon
  <2> QED BY <1>2, <2>11
<1> QED BY <1>1, <1>3, <1>4, <1>5

\* The check that _validate_ansi_insert_lines makes on the digits is one on the number:
\* a count that it lets through is not more than the maximum.
LEMMA CountCheck ==
  ASSUME NEW d \in Counts, NEW n \in Nat
  PROVE  Value(d) \in Nat /\ (~CountExceeds(d, n) => Value(d) <= n)
<1>1. d \in Seq(DigitSet) /\ Len(d) \in Nat
  BY BudgetAssumption DEF DigitSet
<1>2. PICK f : Prefixes(d, f)
  BY <1>1, PrefixesExist
<1>3. Value(d) = f[Len(d)]
  BY <1>1, <1>2, ValueIsPrefix
<1>4. f[Len(d)] \in Nat
  BY <1>1, <1>2 DEF Prefixes
<1>5. SUFFICES ASSUME ~CountExceeds(d, n) PROVE f[Len(d)] <= n
  BY <1>3, <1>4
<1> DEFINE e == Digits(n)
           w == WithoutZeros(d)
<1>6. ~(Len(w) > Len(e)) /\ ~(Len(w) = Len(e) /\ StringGreater(w, e))
  BY <1>5 DEF CountExceeds
<1>7. e \in Seq(DigitSet) /\ Len(e) >= 1 /\ (Len(e) > 1 => e[1] # 0)
  BY DigitsRender DEF Renders
<1>8. PICK g : Prefixes(e, g) /\ g[Len(e)] = n
  BY DigitsRender DEF Renders
<1> HIDE DEF e
<1>9. CASE \A i \in 1..Len(d) : d[i] = 0
  <2>1. Len(d) \in 0..Len(d)
    BY <1>1
  <2>2. f[Len(d)] = 0
    BY <1>1, <1>2, <1>9, <2>1, ZerosAreNothing
  <2> QED BY <2>2
<1>10. CASE \E i \in 1..Len(d) : d[i] # 0
  <2>1. PICK y \in 1..Len(d) :
           /\ d[y] # 0 /\ \A k \in 1..(y - 1) : d[k] = 0
           /\ w = SubSeq(d, y, Len(d))
    BY <1>1, <1>10, WithoutZerosIs
  <2> HIDE DEF w
  <2> DEFINE z == y - 1
             l == Len(d) - z
  <2>2. /\ z \in 0..Len(d) /\ z \in Nat /\ l \in Nat /\ l >= 1 /\ z + l = Len(d) /\ y = z + 1
    BY <1>1, <2>1
  <2>3. \A k \in 1..z : d[k] = 0
    BY <2>1
  <2> HIDE DEF z, l
  <2>4. f[z] = 0
    BY <1>1, <1>2, <2>2, <2>3, ZerosAreNothing
  <2>5. w \in Seq(DigitSet) /\ Len(w) = l /\ \A k \in 1..l : w[k] = d[z + k]
    <3>1. w \in Seq(DigitSet)
      BY <1>1, <2>1
    <3>2. Len(w) = l
      BY <1>1, <2>1, <2>2
    <3>3. ASSUME NEW k \in 1..l PROVE w[k] = d[z + k]
      <4>1. y + k - 1 = z + k /\ k \in 1..(Len(d) - y + 1)
        BY <1>1, <2>2
      <4>2. w[k] = d[y + k - 1]
        BY <1>1, <2>1, <4>1
      <4> QED BY <4>1, <4>2
    <3> QED BY <3>1, <3>2, <3>3
  <2>6. l <= Len(e)
    BY <1>6, <1>7, <2>2, <2>5
  <2>7. ASSUME l = Len(e), NEW k \in 1..l, d[z + k] > e[k],
               \A j \in 1..(k - 1) : d[z + j] = e[j]
        PROVE  FALSE
    <3>1. DOMAIN w = 1..l
      BY <2>5
    <3>2. \A j \in 1..(k - 1) : j \in 1..l
      BY <2>2
    <3>3. w[k] > e[k] /\ \A j \in 1..(k - 1) : w[j] = e[j]
      BY <2>5, <2>7, <3>2
    <3>4. StringGreater(w, e)
      BY <3>1, <3>3 DEF StringGreater
    <3> QED BY <1>6, <2>5, <2>7, <3>4
  <2>8. f[Len(d)] <= g[Len(e)]
    BY <1>1, <1>2, <1>7, <1>8, <2>2, <2>4, <2>6, <2>7, CompareDigits
  <2> QED BY <1>8, <2>8
<1> QED BY <1>9, <1>10
-----------------------------------------------------------------------------
(* ReadBudget: the session *)

CounterSet == [limit: Nat, used: Nat, plimit: Nat, pused: Nat]
Locations == {"idle", "body", "recv", "strip", "write", "written", "unwind", "closed"}
Transports == {"remote_conn", "remote_conn_pre"}

\* Every variable has its type.
SessionTypeOK ==
    /\ pc \in Locations
    /\ prog \in {"setup", "exec", "enter", "config", "exit", "bye"}
    /\ mode \in {"exec", "config"}
    /\ exc \in BOOLEAN /\ active \in BOOLEAN /\ poisoned \in BOOLEAN
    /\ overflow \in BOOLEAN /\ wrote \in BOOLEAN
    /\ ops \in Nat /\ got \in Nat /\ text \in Nat /\ retained \in Nat
    /\ budget \in Nat /\ delivered \in Nat /\ built \in Nat
    /\ chan \in CounterSet /\ saved \in CounterSet

\* A scope is active exactly while one of its calls is made, and the session's own
\* limits are back whenever none is.
ScopeInv ==
    /\ pc \in {"body", "unwind"} => active
    /\ pc \in {"idle", "closed"} => ~active
    /\ active => prog \in {"exec", "enter", "config", "exit"}
    /\ ~active /\ pc \notin {"idle", "closed"} => prog \in {"setup", "bye"}
    /\ saved.limit = SetupLimit /\ saved.plimit = SetupLimit
    /\ active => chan.limit = budget /\ chan.plimit = budget
    /\ ~active => chan.limit = SetupLimit /\ chan.plimit = SetupLimit

\* The counters are within their limits; the read that goes over is the last.
CountInv ==
    /\ ~poisoned => chan.used <= chan.limit /\ chan.pused <= chan.plimit
    /\ active => /\ delivered = chan.pused /\ delivered <= budget
                 /\ built <= budget /\ chan.used <= budget + 1
    /\ pc \in {"recv", "strip"} => got <= chan.used

\* A session that is not over has both transports or is poisoned, so that the flag
\* of the transport thread is seen.
HealthInv ==
    /\ ~poisoned /\ pc # "closed" => open = Transports
    /\ late = FALSE /\ lateIO = FALSE

\* The switch is left in config mode only on the way out of it, or on a session
\* that sends no further command.
ModeInv ==
    /\ mode = "config" =>
          \/ prog \in {"enter", "config", "bye"}
          \/ prog = "exit" /\ ~(active /\ wrote)
          \/ prog = "exec" /\ ~active /\ (exc \/ poisoned)
    /\ pc \in {"idle", "closed"} => prog # "enter"
    /\ pc = "written" => wrote

SessionInv == SessionTypeOK /\ ScopeInv /\ CountInv /\ HealthInv /\ ModeInv

\* The limits are numbers.
LEMMA BudgetTypes ==
  /\ SetupLimit \in Nat /\ OpLimits \subseteq Nat /\ MaxChunk \in Nat /\ MaxOps \in Nat
  BY BudgetAssumption

\* The counters are numbers, and charging n changes what was used.
LEMMA ChargedTypes ==
  ASSUME NEW c \in CounterSet, NEW n \in Nat
  PROVE  /\ c.limit \in Nat /\ c.used \in Nat /\ c.plimit \in Nat /\ c.pused \in Nat
         /\ [c EXCEPT !.used = @ + n] \in CounterSet
         /\ [c EXCEPT !.used = @ + n].used = c.used + n
         /\ [c EXCEPT !.used = @ + n].limit = c.limit
         /\ [c EXCEPT !.used = @ + n].plimit = c.plimit
         /\ [c EXCEPT !.used = @ + n].pused = c.pused
         /\ [c EXCEPT !.pused = @ + n] \in CounterSet
         /\ [c EXCEPT !.pused = @ + n].pused = c.pused + n
         /\ [c EXCEPT !.pused = @ + n].limit = c.limit
         /\ [c EXCEPT !.pused = @ + n].plimit = c.plimit
         /\ [c EXCEPT !.pused = @ + n].used = c.used
<1>1. c.limit \in Nat /\ c.used \in Nat /\ c.plimit \in Nat /\ c.pused \in Nat
  BY DEF CounterSet
<1>2. c = [limit |-> c.limit, used |-> c.used, plimit |-> c.plimit, pused |-> c.pused]
  BY DEF CounterSet
<1>3. [c EXCEPT !.used = @ + n] =
         [limit |-> c.limit, used |-> c.used + n, plimit |-> c.plimit, pused |-> c.pused]
  BY <1>1, <1>2
<1>4. [c EXCEPT !.pused = @ + n] =
         [limit |-> c.limit, used |-> c.used, plimit |-> c.plimit, pused |-> c.pused + n]
  BY <1>1, <1>2
<1> QED BY <1>1, <1>3, <1>4 DEF CounterSet

\* So does restoring the outer ones.
LEMMA RestoredTypes ==
  ASSUME SessionTypeOK, NEW r \in 0..(text + retained)
  PROVE  /\ Restored(r) \in CounterSet
         /\ Restored(r).limit = saved.limit /\ Restored(r).plimit = saved.plimit
         /\ Restored(r).used \in Nat /\ Restored(r).pused \in Nat
         /\ saved.limit \in Nat /\ saved.plimit \in Nat
<1>1. saved \in CounterSet /\ r \in Nat
  BY DEF SessionTypeOK
<1>2. /\ saved.limit \in Nat /\ saved.used \in Nat /\ saved.plimit \in Nat
      /\ saved.pused \in Nat
      /\ saved = [limit |-> saved.limit, used |-> saved.used, plimit |-> saved.plimit,
                  pused |-> saved.pused]
  BY <1>1 DEF CounterSet
<1> DEFINE first == [saved EXCEPT !.used = @ + r]
<1>3. /\ first \in CounterSet /\ first.limit = saved.limit /\ first.plimit = saved.plimit
      /\ first.used = saved.used + r /\ first.pused = saved.pused
  BY <1>1, ChargedTypes
<1>4. Restored(r) = [first EXCEPT !.pused = @ + r]
  BY <1>1, <1>2 DEF Restored, CounterSet
<1> HIDE DEF first
<1>5. /\ Restored(r) \in CounterSet /\ Restored(r).limit = first.limit
      /\ Restored(r).plimit = first.plimit
  <2>1. first \in CounterSet /\ r \in Nat
    BY <1>1, <1>3
  <2>2. /\ [first EXCEPT !.pused = @ + r] \in CounterSet
        /\ [first EXCEPT !.pused = @ + r].limit = first.limit
        /\ [first EXCEPT !.pused = @ + r].plimit = first.plimit
    BY <2>1, ChargedTypes
  <2> QED BY <1>4, <2>2
<1>6. Restored(r).used \in Nat /\ Restored(r).pused \in Nat
  BY <1>5 DEF CounterSet
<1> QED BY <1>2, <1>3, <1>5, <1>6

\* What Recv does to a healthy connection: the bytes are charged, and are the last
\* ones if they are more than the budget.
BytesReceived ==
    \E n \in Nat :
        /\ chan' = [chan EXCEPT !.used = @ + n] /\ chan.used + n <= chan.limit + 1
        /\ \/ PoisonAndRaise /\ UNCHANGED got
           \/ /\ chan.used + n <= chan.limit /\ got' = got + n
              /\ UNCHANGED <<pc, exc, Conn>>

\* Recv finds that the connection is not healthy, or does that.
LEMMA RecvCases ==
  ASSUME SessionTypeOK, CountInv, Recv
  PROVE  /\ pc = "recv"
         /\ \/ Unhealthy /\ UNCHANGED <<chan, got>>
            \/ ~poisoned /\ BytesReceived
         /\ UNCHANGED <<prog, ops, mode, saved, active, wrote, budget, delivered, built,
                        overflow, text, retained>>
<1>1. /\ pc = "recv"
      /\ UNCHANGED <<prog, ops, mode, saved, active, wrote, budget, delivered, built,
                     overflow, text, retained>>
  BY DEF Recv
<1>2. chan \in CounterSet /\ (~poisoned => chan.used <= chan.limit)
  BY DEF SessionTypeOK, CountInv
<1>3. chan.used \in Nat /\ chan.limit \in Nat
  BY <1>2 DEF CounterSet
<1>4. CASE Unhealthy /\ UNCHANGED <<chan, got>>
  BY <1>1, <1>4
<1>5. ASSUME Healthy, NEW n \in 1..RecvSize,
             chan' = [chan EXCEPT !.used = @ + n],
             IF chan'.used > chan.limit
             THEN PoisonAndRaise /\ UNCHANGED got
             ELSE got' = got + n /\ UNCHANGED <<pc, exc, Conn>>
      PROVE  ~poisoned /\ BytesReceived
  <2>1. ~poisoned
    BY <1>5 DEF Healthy
  <2>2. n \in Nat /\ chan.used + n <= chan.limit + 1
    BY <1>2, <1>3, <2>1, BudgetTypes DEF RecvSize, Smaller
  <2>3. chan'.used = chan.used + n
    BY <1>2, <1>5, <2>2, ChargedTypes
  <2>4. CASE chan'.used > chan.limit
    BY <1>5, <2>1, <2>2, <2>4, Zenon DEF BytesReceived
  <2>5. CASE ~(chan'.used > chan.limit)
    <3>1. chan.used + n <= chan.limit
      BY <1>3, <2>2, <2>3, <2>5
    <3> QED BY <1>5, <2>1, <2>2, <2>5, <3>1, Zenon DEF BytesReceived
  <2> QED BY <2>4, <2>5
<1>6. \/ Unhealthy /\ UNCHANGED <<chan, got>>
      \/ /\ Healthy
         /\ \E n \in 1..RecvSize :
               /\ chan' = [chan EXCEPT !.used = @ + n]
               /\ IF chan'.used > chan.limit
                  THEN PoisonAndRaise /\ UNCHANGED got
                  ELSE got' = got + n /\ UNCHANGED <<pc, exc, Conn>>
  BY Zenon DEF Recv
<1> QED BY <1>1, <1>4, <1>5, <1>6, Zenon

\* What MakeText(n) does: n characters are charged and handed on, or are too many.
TextMade(n) ==
    /\ built' \in {n, built} /\ built' >= built
    /\ \/ PoisonAndRaise /\ UNCHANGED <<chan, delivered, text, retained>>
       \/ /\ chan.pused + n <= chan.plimit
          /\ chan' = [chan EXCEPT !.pused = @ + n]
          /\ delivered' = delivered + n /\ text' = text + retained + n /\ retained' = 0
          /\ pc' = Caller_pc
          /\ UNCHANGED <<exc, Conn>>

\* MakeText(n) does that.
LEMMA MakeTextCases ==
  ASSUME SessionTypeOK, NEW n \in Nat, MakeText(n)
  PROVE  TextMade(n)
<1>1. built' \in {n, built} /\ built' >= built
  BY DEF SessionTypeOK, MakeText
<1>2. chan.pused \in Nat /\ chan.plimit \in Nat
  BY DEF SessionTypeOK, CounterSet
<1>3. chan.pused + n > chan.plimit \/ chan.pused + n <= chan.plimit
  BY <1>2
<1>4. chan.pused + n <= chan.plimit => ~(chan.pused + n > chan.plimit)
  BY <1>2
<1> QED BY <1>1, <1>3, <1>4, Zenon DEF MakeText, TextMade

\* What StripInsertLines comes to: the connection is poisoned, or a text that fits
\* into what is left of the budget is made.
InsertedLines ==
    /\ pc = "strip" /\ Healthy
    /\ \/ PoisonAndRaise /\ UNCHANGED <<chan, delivered, built, text, retained>>
       \/ \E n \in Nat : n <= chan.plimit - chan.pused /\ TextMade(n)
    /\ UNCHANGED <<prog, ops, mode, saved, active, wrote, budget, overflow, got, late, lateIO>>

\* m times the quotient of a division by m is not more than the dividend.
LEMMA QuotientFits ==
  ASSUME NEW a \in Nat, NEW m \in Nat \ {0}, NEW v \in Nat, v <= a \div m
  PROVE  m * v \in Nat /\ m * v <= a
  OBVIOUS

\* StripInsertLines does that.
LEMMA StripInsertLinesCases ==
  ASSUME SessionTypeOK, CountInv, StripInsertLines
  PROVE  InsertedLines
<1>1. pc = "strip" /\ Healthy
  BY DEF StripInsertLines
<1>2. UNCHANGED <<prog, ops, mode, saved, active, wrote, budget, overflow, got, late, lateIO>>
  BY DEF StripInsertLines
<1> DEFINE remaining == chan.plimit - chan.pused
<1>3. remaining \in Nat /\ got \in Nat
  BY <1>1 DEF SessionTypeOK, CountInv, CounterSet, Healthy
<1>4. PICK m \in 1..got, digits \in Counts : \E base \in 0..(got - m) :
         IF base > remaining \/ CountExceeds(digits, (remaining - base) \div m)
         THEN PoisonAndRaise /\ UNCHANGED <<chan, delivered, built, text, retained>>
         ELSE MakeText(base + m * Value(digits))
  BY Zenon DEF StripInsertLines
<1>5. PICK base \in 0..(got - m) :
         IF base > remaining \/ CountExceeds(digits, (remaining - base) \div m)
         THEN PoisonAndRaise /\ UNCHANGED <<chan, delivered, built, text, retained>>
         ELSE MakeText(base + m * Value(digits))
  BY <1>4, Zenon
<1>6. CASE base > remaining \/ CountExceeds(digits, (remaining - base) \div m)
  BY <1>1, <1>2, <1>5, <1>6, Zenon DEF InsertedLines
<1>7. CASE ~(base > remaining \/ CountExceeds(digits, (remaining - base) \div m))
  <2>1. base \in Nat /\ m \in Nat \ {0} /\ base <= remaining /\ remaining - base \in Nat
    BY <1>3, <1>7
  <2>2. (remaining - base) \div m \in Nat
    BY <2>1
  <2>3. Value(digits) \in Nat /\ Value(digits) <= (remaining - base) \div m
    BY <1>7, <2>2, CountCheck
  <2>4. m * Value(digits) \in Nat /\ m * Value(digits) <= remaining - base
    BY <2>1, <2>3, QuotientFits
  <2>5. base + m * Value(digits) \in Nat /\ base + m * Value(digits) <= remaining
    <3> DEFINE w == m * Value(digits)
    <3>1. w \in Nat /\ w <= remaining - base
      BY <2>4
    <3> HIDE DEF w
    <3>2. base + w \in Nat /\ base + w <= remaining
      BY <1>3, <2>1, <3>1
    <3> QED BY <3>2 DEF w
  <2>6. MakeText(base + m * Value(digits))
    BY <1>5, <1>7
  <2>7. TextMade(base + m * Value(digits))
    BY <2>5, <2>6, MakeTextCases
  <2> QED BY <1>1, <1>2, <2>5, <2>7, Zenon DEF InsertedLines
<1> QED BY <1>6, <1>7

\* What StripPlain does.
PlainText ==
    /\ pc = "strip"
    /\ \/ Unhealthy /\ UNCHANGED <<chan, delivered, built, text, retained>>
       \/ ~poisoned /\ \E n \in Nat : n <= got /\ TextMade(n)
    /\ UNCHANGED <<prog, ops, mode, saved, active, wrote, budget, overflow, got>>

\* StripPlain does that.
LEMMA StripPlainCases ==
  ASSUME SessionTypeOK, StripPlain
  PROVE  PlainText
<1>1. /\ pc = "strip" /\ got \in Nat
      /\ UNCHANGED <<prog, ops, mode, saved, active, wrote, budget, overflow, got>>
  BY DEF StripPlain, SessionTypeOK
<1>2. ASSUME NEW n \in 0..got, MakeText(n)
      PROVE  n \in Nat /\ n <= got /\ TextMade(n)
  BY <1>1, <1>2, MakeTextCases
<1>3. Healthy => ~poisoned
  BY DEF Healthy
<1> QED BY <1>1, <1>2, <1>3, Zenon DEF StripPlain, PlainText

\* Making a text keeps the types, the limits and the counters.
LEMMA TextMadeInv ==
  ASSUME SessionInv, pc = "strip", ~poisoned,
         NEW n \in Nat, active => n <= budget, TextMade(n),
         UNCHANGED <<prog, ops, mode, saved, active, wrote, budget, overflow, got>>
  PROVE  SessionTypeOK' /\ ScopeInv' /\ CountInv'
<1> USE DEF SessionInv
<1>1. /\ chan \in CounterSet /\ saved \in CounterSet /\ got \in Nat /\ text \in Nat
      /\ retained \in Nat /\ delivered \in Nat /\ built \in Nat /\ budget \in Nat
      /\ exc \in BOOLEAN /\ active \in BOOLEAN /\ poisoned \in BOOLEAN
  BY DEF SessionTypeOK
<1>2. built' \in Nat /\ (active => built' <= budget)
  <2>1. built' = n \/ built' = built
    BY DEF TextMade
  <2>2. active => built <= budget
    BY DEF CountInv
  <2> QED BY <1>1, <2>1, <2>2
<1>3. CASE PoisonAndRaise /\ UNCHANGED <<chan, delivered, text, retained>>
  <2>1. /\ pc' = (IF active THEN "unwind" ELSE "idle") /\ poisoned' = TRUE
        /\ exc' \in BOOLEAN
    BY <1>1, <1>3 DEF PoisonAndRaise, Dispose, Raise
  <2>2. SessionTypeOK'
    BY <1>1, <1>2, <1>3, <2>1 DEF SessionTypeOK, Locations
  <2>3. ScopeInv'
    BY <1>1, <1>3, <2>1 DEF ScopeInv
  <2>4. CountInv'
    BY <1>1, <1>2, <1>3, <2>1 DEF CountInv
  <2> QED BY <2>2, <2>3, <2>4
<1>4. CASE /\ chan.pused + n <= chan.plimit
           /\ chan' = [chan EXCEPT !.pused = @ + n]
           /\ delivered' = delivered + n /\ text' = text + retained + n /\ retained' = 0
           /\ pc' = Caller_pc
           /\ UNCHANGED <<exc, Conn>>
  <2>1. pc' = (IF active THEN "body" ELSE "idle") /\ poisoned' = poisoned /\ exc' = exc
    BY <1>4 DEF Caller_pc, Conn
  <2>2. /\ chan' \in CounterSet /\ chan'.pused = chan.pused + n /\ chan'.used = chan.used
        /\ chan'.limit = chan.limit /\ chan'.plimit = chan.plimit
        /\ chan.limit \in Nat /\ chan.used \in Nat /\ chan.plimit \in Nat
        /\ chan.pused \in Nat
    BY <1>1, <1>4, ChargedTypes
  <2>3. delivered' \in Nat /\ text' \in Nat /\ retained' \in Nat
    BY <1>1, <1>4
  <2>4. SessionTypeOK'
    BY <1>1, <1>2, <2>1, <2>2, <2>3 DEF SessionTypeOK, Locations
  <2>5. ScopeInv'
    BY <1>1, <2>1, <2>2 DEF ScopeInv
  <2>6. CountInv'
    BY <1>1, <1>2, <1>4, <2>1, <2>2 DEF CountInv, ScopeInv
  <2> QED BY <2>4, <2>5, <2>6
<1> QED BY <1>3, <1>4, Zenon DEF TextMade

\* An unhealthy connection is left as it is or poisoned, which keeps the types, the
\* limits and the counters too.
LEMMA UnhealthyInv ==
  ASSUME SessionInv, pc \in {"recv", "strip"}, Unhealthy,
         UNCHANGED <<prog, ops, mode, Scope, overflow, got, text, retained>>
  PROVE  SessionTypeOK' /\ ScopeInv' /\ CountInv'
<1> USE DEF SessionInv, Scope
<1>1. /\ pc' = (IF active THEN "unwind" ELSE "idle") /\ exc' \in BOOLEAN
      /\ poisoned' \in BOOLEAN /\ (poisoned => poisoned')
  BY DEF Unhealthy, Dispose, Raise, Conn, SessionTypeOK
<1>2. SessionTypeOK'
  BY <1>1 DEF SessionTypeOK, Locations
<1>3. ScopeInv'
  BY <1>1 DEF ScopeInv, SessionTypeOK
<1>4. CountInv'
  BY <1>1 DEF CountInv, SessionTypeOK
<1> QED BY <1>2, <1>3, <1>4

\* Receiving bytes does.
LEMMA BytesReceivedInv ==
  ASSUME SessionInv, pc = "recv", ~poisoned, BytesReceived,
         UNCHANGED <<prog, ops, mode, saved, active, wrote, budget, delivered, built,
                     overflow, text, retained>>
  PROVE  SessionTypeOK' /\ ScopeInv' /\ CountInv'
<1> USE DEF SessionInv
<1>1. PICK n \in Nat :
        /\ chan' = [chan EXCEPT !.used = @ + n] /\ chan.used + n <= chan.limit + 1
        /\ \/ PoisonAndRaise /\ UNCHANGED got
           \/ /\ chan.used + n <= chan.limit /\ got' = got + n
              /\ UNCHANGED <<pc, exc, Conn>>
  BY DEF BytesReceived
<1>2. /\ chan \in CounterSet /\ got \in Nat /\ budget \in Nat
      /\ exc \in BOOLEAN /\ active \in BOOLEAN
  BY DEF SessionTypeOK
<1>3. /\ chan' \in CounterSet /\ chan'.used = chan.used + n /\ chan'.pused = chan.pused
      /\ chan'.limit = chan.limit /\ chan'.plimit = chan.plimit
      /\ chan.limit \in Nat /\ chan.used \in Nat /\ chan.plimit \in Nat
      /\ chan.pused \in Nat
  BY <1>1, <1>2, ChargedTypes
<1>4. CASE PoisonAndRaise /\ UNCHANGED got
  <2>1. /\ pc' = (IF active THEN "unwind" ELSE "idle") /\ poisoned' = TRUE
        /\ exc' \in BOOLEAN
    BY <1>2, <1>4 DEF PoisonAndRaise, Dispose, Raise
  <2>2. SessionTypeOK'
    BY <1>3, <1>4, <2>1 DEF SessionTypeOK, Locations
  <2>3. ScopeInv'
    BY <1>2, <1>3, <2>1 DEF ScopeInv
  <2>4. CountInv'
    BY <1>1, <1>2, <1>3, <2>1 DEF CountInv, ScopeInv
  <2> QED BY <2>2, <2>3, <2>4
<1>5. CASE chan.used + n <= chan.limit /\ got' = got + n /\ UNCHANGED <<pc, exc, Conn>>
  <2>1. pc' = pc /\ exc' = exc /\ poisoned' = poisoned /\ got' \in Nat
    BY <1>2, <1>5 DEF Conn
  <2>2. SessionTypeOK'
    BY <1>3, <2>1 DEF SessionTypeOK, Locations
  <2>3. ScopeInv'
    BY <1>2, <1>3, <2>1 DEF ScopeInv
  <2>4. CountInv'
    BY <1>1, <1>2, <1>3, <1>5, <2>1 DEF CountInv, ScopeInv
  <2> QED BY <2>2, <2>3, <2>4
<1> QED BY <1>1, <1>4, <1>5

\* Recv, StripPlain and StripInsertLines keep them.
LEMMA ReadingInv ==
  ASSUME SessionInv, Recv \/ StripPlain \/ StripInsertLines
  PROVE  SessionTypeOK' /\ ScopeInv' /\ CountInv'
<1> USE DEF SessionInv
<1>1. CASE Recv
  <2>1. /\ pc = "recv"
        /\ \/ Unhealthy /\ UNCHANGED <<chan, got>>
           \/ ~poisoned /\ BytesReceived
        /\ UNCHANGED <<prog, ops, mode, saved, active, wrote, budget, delivered, built,
                       overflow, text, retained>>
    BY <1>1, RecvCases
  <2>2. CASE Unhealthy /\ UNCHANGED <<chan, got>>
    BY <2>1, <2>2, UnhealthyInv DEF Scope
  <2>3. CASE ~poisoned /\ BytesReceived
    BY <2>1, <2>3, BytesReceivedInv
  <2> QED BY <2>1, <2>2, <2>3
<1>2. CASE StripPlain
  <2>1. PlainText
    BY <1>2, StripPlainCases
  <2>2. CASE Unhealthy /\ UNCHANGED <<chan, delivered, built, text, retained>>
    BY <2>1, <2>2, UnhealthyInv DEF PlainText, Scope
  <2>3. ASSUME ~poisoned, NEW n \in Nat, n <= got, TextMade(n)
        PROVE  SessionTypeOK' /\ ScopeInv' /\ CountInv'
    <3>1. /\ pc = "strip"
          /\ UNCHANGED <<prog, ops, mode, saved, active, wrote, budget, overflow, got>>
      BY <2>1 DEF PlainText
    <3>2. active => n <= budget
      BY <2>3, <3>1 DEF ScopeInv, CountInv, SessionTypeOK, CounterSet
    <3> QED BY <2>3, <3>1, <3>2, TextMadeInv
  <2> QED BY <2>1, <2>2, <2>3 DEF PlainText
<1>3. CASE StripInsertLines
  <2>1. InsertedLines
    BY <1>3, StripInsertLinesCases
  <2>2. ~poisoned
    BY <2>1 DEF InsertedLines, Healthy
  <2>3. /\ pc = "strip"
        /\ UNCHANGED <<prog, ops, mode, saved, active, wrote, budget, overflow, got>>
    BY <2>1 DEF InsertedLines
  <2>4. CASE PoisonAndRaise /\ UNCHANGED <<chan, delivered, built, text, retained>>
    <3>1. /\ pc' = (IF active THEN "unwind" ELSE "idle") /\ poisoned' = TRUE
          /\ exc' \in BOOLEAN
      BY <2>4 DEF PoisonAndRaise, Dispose, Raise, SessionTypeOK
    <3>2. SessionTypeOK'
      BY <2>3, <2>4, <3>1 DEF SessionTypeOK, Locations
    <3>3. ScopeInv'
      BY <2>3, <2>4, <3>1 DEF ScopeInv, SessionTypeOK
    <3>4. CountInv'
      BY <2>3, <2>4, <3>1 DEF CountInv, SessionTypeOK
    <3> QED BY <3>2, <3>3, <3>4
  <2>5. ASSUME NEW n \in Nat, n <= chan.plimit - chan.pused, TextMade(n)
        PROVE  SessionTypeOK' /\ ScopeInv' /\ CountInv'
    <3>1. active => n <= budget
      BY <2>5 DEF ScopeInv, SessionTypeOK, CounterSet
    <3> QED BY <2>2, <2>3, <2>5, <3>1, TextMadeInv
  <2> QED BY <2>1, <2>4, <2>5 DEF InsertedLines
<1> QED BY <1>1, <1>2, <1>3

\* Every step keeps the types.
LEMMA SessionTypeStep == SessionInv /\ [SessionNext]_bvars => SessionTypeOK'
<1> SUFFICES ASSUME SessionInv, [SessionNext]_bvars
             PROVE  SessionTypeOK'
  OBVIOUS
<1> USE BudgetTypes DEF SessionInv, SessionTypeOK, Locations, Caller_pc, Dispose,
        Raise, PoisonAndRaise, Unhealthy, Conn, Scope, Caller
<1>1. CASE BeginRead
  <2>1. pc' \in Locations
    BY <1>1 DEF BeginRead, BeginCall, Locations
  <2>2. exc' \in BOOLEAN /\ poisoned' \in BOOLEAN
    BY <1>1 DEF BeginRead, BeginCall
  <2>3. got \in Nat /\ (got' = got \/ got' = 0)
    BY <1>1, Zenon DEF BeginRead, BeginCall
  <2>4. got' \in Nat
    BY <2>3
  <2>5. UNCHANGED <<prog, mode, active, overflow, wrote, ops, text, retained, budget,
                    delivered, built, chan, saved>>
    BY <1>1 DEF BeginRead, BeginCall
  <2> QED BY <2>1, <2>2, <2>4, <2>5
<1>2. CASE BeginWrite
  <2>1. pc' \in Locations
    BY <1>2 DEF BeginWrite, BeginCall, Locations
  <2>2. exc' \in BOOLEAN /\ poisoned' \in BOOLEAN
    BY <1>2 DEF BeginWrite, BeginCall
  <2>3. got \in Nat /\ (got' = got \/ got' = 0)
    BY <1>2, Zenon DEF BeginWrite, BeginCall
  <2>4. got' \in Nat
    BY <2>3
  <2>5. UNCHANGED <<prog, mode, active, overflow, wrote, ops, text, retained, budget,
                    delivered, built, chan, saved>>
    BY <1>2 DEF BeginWrite, BeginCall
  <2> QED BY <2>1, <2>2, <2>4, <2>5
<1>3. CASE Recv
  BY <1>3, ReadingInv
<1>4. CASE NoMoreData
  BY <1>4 DEF NoMoreData
<1>5. CASE StripPlain
  BY <1>5, ReadingInv
<1>6. CASE StripInsertLines
  BY <1>6, ReadingInv
<1>7. CASE Write
  BY <1>7 DEF Write
<1>8. CASE Written
  BY <1>8 DEF Written
<1>9. CASE CallFails
  BY <1>9 DEF CallFails
<1>10. ASSUME NEW p \in {"exec", "enter", "config", "exit"}, NEW l \in OpLimits,
             Operation(p, l)
      PROVE  SessionTypeOK'
  <2>1. pc' \in Locations
    BY <1>10 DEF Operation, OpenScope, Locations
  <2>2. exc' \in BOOLEAN /\ poisoned' \in BOOLEAN /\ active' \in BOOLEAN /\ wrote' \in BOOLEAN
    BY <1>10 DEF Operation, OpenScope
  <2>3. ops' \in Nat /\ text' \in Nat /\ budget' \in Nat /\ delivered' \in Nat /\ built' \in Nat
    BY <1>10 DEF Operation, OpenScope
  <2>4. chan' \in CounterSet
    BY <1>10 DEF Operation, OpenScope, Counters, CounterSet
  <2>5. saved' \in CounterSet
    BY <1>10 DEF Operation, OpenScope
  <2>6. prog' \in {"exec", "enter", "config", "exit"}
    BY <1>10 DEF Operation, OpenScope
  <2>7. UNCHANGED <<mode, overflow, got, retained>>
    BY <1>10 DEF Operation, OpenScope
  <2> QED BY <2>1, <2>2, <2>3, <2>4, <2>5, <2>6, <2>7
<1>11. CASE CloseScope
  <2>1. pc' \in Locations
    BY <1>11 DEF CloseScope, Locations
  <2>2. exc' \in BOOLEAN /\ poisoned' \in BOOLEAN /\ active' \in BOOLEAN
    BY <1>11 DEF CloseScope
  <2>3. retained' \in Nat /\ text' \in Nat
    BY <1>11 DEF CloseScope
  <2>4. chan' \in CounterSet
    <3>1. \E r \in 0..(text + retained) : chan' = Restored(r)
      BY <1>11 DEF CloseScope
    <3> QED BY <3>1, RestoredTypes
  <2>5. prog' \in {"exec", "config"}
    BY <1>11 DEF CloseScope, NextProg
  <2>6. UNCHANGED <<mode, overflow, wrote, ops, got, budget, delivered, built, saved>>
    BY <1>11 DEF CloseScope
  <2> QED BY <2>1, <2>2, <2>3, <2>4, <2>5, <2>6
<1>12. CASE SetupDone
  BY <1>12 DEF SetupDone
<1>13. CASE LeaveConfig
  BY <1>13 DEF LeaveConfig
<1>14. CASE Disconnect
  BY <1>14 DEF Disconnect
<1>15. CASE Close
  BY <1>15 DEF Close
<1>16. CASE TransportOverflow
  BY <1>16 DEF TransportOverflow
<1>17. CASE UNCHANGED bvars
  BY <1>17 DEF bvars
<1> QED BY <1>1, <1>2, <1>3, <1>4, <1>5, <1>6, <1>7, <1>8, <1>9, <1>10, <1>11, <1>12,
           <1>13, <1>14, <1>15, <1>16, <1>17 DEF SessionNext

\* Only Operation and CloseScope change the limits.
LEMMA SessionScopeStep == SessionInv /\ [SessionNext]_bvars => ScopeInv'
<1> SUFFICES ASSUME SessionInv, [SessionNext]_bvars
             PROVE  ScopeInv'
  OBVIOUS
<1> USE DEF SessionInv, SessionTypeOK, ScopeInv, Caller_pc, MayCall, Unscoped,
        Dispose, Raise, PoisonAndRaise, Unhealthy, Conn, Scope, Caller
<1>1. CASE BeginRead
  BY <1>1 DEF BeginRead, BeginCall
<1>2. CASE BeginWrite
  BY <1>2 DEF BeginWrite, BeginCall
<1>3. CASE Recv
  BY <1>3, ReadingInv
<1>4. CASE NoMoreData
  BY <1>4 DEF NoMoreData
<1>5. CASE StripPlain
  BY <1>5, ReadingInv
<1>6. CASE StripInsertLines
  BY <1>6, ReadingInv
<1>7. CASE Write
  BY <1>7 DEF Write
<1>8. CASE Written
  BY <1>8 DEF Written
<1>9. CASE CallFails
  BY <1>9 DEF CallFails
<1>10. ASSUME NEW p \in {"exec", "enter", "config", "exit"}, NEW l \in OpLimits,
             Operation(p, l)
      PROVE  ScopeInv'
  BY <1>10 DEF Operation, OpenScope, Counters, SessionTypeOK, CounterSet
<1>11. CASE CloseScope
  BY <1>11 DEF CloseScope, Restored, NextProg, SessionTypeOK, CounterSet
<1>12. CASE SetupDone
  BY <1>12 DEF SetupDone
<1>13. CASE LeaveConfig
  BY <1>13 DEF LeaveConfig
<1>14. CASE Disconnect
  BY <1>14 DEF Disconnect
<1>15. CASE Close
  BY <1>15 DEF Close
<1>16. CASE TransportOverflow
  BY <1>16 DEF TransportOverflow
<1>17. CASE UNCHANGED bvars
  BY <1>17 DEF bvars
<1> QED BY <1>1, <1>2, <1>3, <1>4, <1>5, <1>6, <1>7, <1>8, <1>9, <1>10, <1>11, <1>12,
           <1>13, <1>14, <1>15, <1>16, <1>17 DEF SessionNext

\* Every byte and every character is charged before it is handed on.
LEMMA SessionCountStep == SessionInv /\ [SessionNext]_bvars => CountInv'
<1> SUFFICES ASSUME SessionInv, [SessionNext]_bvars
             PROVE  CountInv'
  OBVIOUS
<1> USE BudgetTypes DEF SessionInv, SessionTypeOK, ScopeInv, CountInv, Caller_pc,
        Healthy, Dispose, Raise, PoisonAndRaise, Unhealthy, Conn, Scope, Caller
<1>1. CASE BeginRead
  <2>1. \/ pc' = "recv" /\ got' = 0
        \/ pc' \in {"unwind", "idle"}
    BY <1>1 DEF BeginRead, BeginCall
  <2>2. UNCHANGED Scope /\ (poisoned => poisoned')
    BY <1>1 DEF BeginRead, BeginCall
  <2>3. chan.used \in Nat
    BY DEF CounterSet
  <2> QED BY <2>1, <2>2, <2>3
<1>2. CASE BeginWrite
  BY <1>2 DEF BeginWrite, BeginCall
<1>3. CASE Recv
  BY <1>3, ReadingInv
<1>4. CASE NoMoreData
  BY <1>4 DEF NoMoreData
<1>5. CASE StripPlain
  BY <1>5, ReadingInv
<1>6. CASE StripInsertLines
  BY <1>6, ReadingInv
<1>7. CASE Write
  BY <1>7 DEF Write
<1>8. CASE Written
  BY <1>8 DEF Written
<1>9. CASE CallFails
  BY <1>9 DEF CallFails
<1>10. ASSUME NEW p \in {"exec", "enter", "config", "exit"}, NEW l \in OpLimits,
             Operation(p, l)
      PROVE  CountInv'
  BY <1>10 DEF Operation, OpenScope, Counters
<1>11. CASE CloseScope
  <2>1. PICK r \in 0..(text + retained) :
           /\ chan' = Restored(r)
           /\ ~poisoned' => /\ ~(Restored(r).used > saved.limit)
                            /\ ~(Restored(r).pused > saved.plimit)
    BY <1>11, Zenon DEF CloseScope
  <2>2. /\ chan'.limit = saved.limit /\ chan'.plimit = saved.plimit
        /\ chan'.used \in Nat /\ chan'.pused \in Nat
        /\ saved.limit \in Nat /\ saved.plimit \in Nat
    BY <2>1, RestoredTypes
  <2>3. ~poisoned' => chan'.used <= chan'.limit /\ chan'.pused <= chan'.plimit
    BY <2>1, <2>2
  <2>4. ~active' /\ pc' = "idle"
    BY <1>11 DEF CloseScope
  <2> QED BY <2>3, <2>4
<1>12. CASE SetupDone
  BY <1>12 DEF SetupDone
<1>13. CASE LeaveConfig
  BY <1>13 DEF LeaveConfig
<1>14. CASE Disconnect
  BY <1>14 DEF Disconnect
<1>15. CASE Close
  BY <1>15 DEF Close
<1>16. CASE TransportOverflow
  BY <1>16 DEF TransportOverflow
<1>17. CASE UNCHANGED bvars
  BY <1>17 DEF bvars
<1> QED BY <1>1, <1>2, <1>3, <1>4, <1>5, <1>6, <1>7, <1>8, <1>9, <1>10, <1>11, <1>12,
           <1>13, <1>14, <1>15, <1>16, <1>17 DEF SessionNext

\* A transport is only closed with the connection poisoned, or at the end.
LEMMA SessionHealthStep == SessionInv /\ [SessionNext]_bvars => HealthInv'
<1> SUFFICES ASSUME SessionInv, [SessionNext]_bvars
             PROVE  HealthInv'
  OBVIOUS
<1> USE DEF SessionInv, HealthInv, Transports, Exceeded, Caller_pc, MayCall, Unscoped,
        Dispose, Raise, PoisonAndRaise, Unhealthy, Conn, Scope, Caller, Healthy,
        SeesOverflow
<1>1. CASE BeginRead
  BY <1>1 DEF BeginRead, BeginCall
<1>2. CASE BeginWrite
  BY <1>2 DEF BeginWrite, BeginCall
<1>3. CASE Recv
  BY <1>3 DEF Recv
<1>4. CASE NoMoreData
  BY <1>4 DEF NoMoreData
<1>5. CASE StripPlain
  BY <1>5 DEF StripPlain, MakeText
<1>6. CASE StripInsertLines
  BY <1>6 DEF StripInsertLines, MakeText
<1>7. CASE Write
  BY <1>7 DEF Write
<1>8. CASE Written
  BY <1>8 DEF Written
<1>9. CASE CallFails
  BY <1>9 DEF CallFails
<1>10. ASSUME NEW p \in {"exec", "enter", "config", "exit"}, NEW l \in OpLimits,
             Operation(p, l)
      PROVE  HealthInv'
  BY <1>10 DEF Operation, OpenScope, Counters
<1>11. CASE CloseScope
  BY <1>11 DEF CloseScope, Restored, NextProg
<1>12. CASE SetupDone
  BY <1>12 DEF SetupDone
<1>13. CASE LeaveConfig
  BY <1>13 DEF LeaveConfig
<1>14. CASE Disconnect
  BY <1>14 DEF Disconnect
<1>15. CASE Close
  BY <1>15 DEF Close
<1>16. CASE TransportOverflow
  BY <1>16 DEF TransportOverflow
<1>17. CASE UNCHANGED bvars
  BY <1>17 DEF bvars
<1> QED BY <1>1, <1>2, <1>3, <1>4, <1>5, <1>6, <1>7, <1>8, <1>9, <1>10, <1>11, <1>12,
           <1>13, <1>14, <1>15, <1>16, <1>17 DEF SessionNext

\* Only the commands that enter and leave config mode change the mode.
LEMMA SessionModeStep == SessionInv /\ [SessionNext]_bvars => ModeInv'
<1> SUFFICES ASSUME SessionInv, [SessionNext]_bvars
             PROVE  ModeInv'
  OBVIOUS
<1> USE DEF SessionInv, ScopeInv, ModeInv, Caller_pc, MayCall, Unscoped, Healthy,
        Dispose, Raise, PoisonAndRaise, Unhealthy, Conn, Scope, Caller
<1>1. CASE BeginRead
  BY <1>1 DEF BeginRead, BeginCall
<1>2. CASE BeginWrite
  BY <1>2 DEF BeginWrite, BeginCall
<1>3. CASE Recv
  BY <1>3 DEF Recv
<1>4. CASE NoMoreData
  BY <1>4 DEF NoMoreData
<1>5. CASE StripPlain
  BY <1>5 DEF StripPlain, MakeText
<1>6. CASE StripInsertLines
  <2>1. InsertedLines
    BY <1>6, StripInsertLinesCases
  <2> QED BY <2>1 DEF InsertedLines, TextMade
<1>7. CASE Write
  <2>1. CASE Unhealthy /\ UNCHANGED <<mode, wrote, lateIO>>
    BY <1>7, <2>1 DEF Write
  <2>2. CASE ~(Unhealthy /\ UNCHANGED <<mode, wrote, lateIO>>)
    <3>1. pc = "write" /\ pc' = "written" /\ wrote' /\ UNCHANGED <<prog, active, exc, Conn>>
      BY <1>7, <2>2 DEF Write
    <3>2. CASE active
      BY <1>7, <2>2, <3>1, <3>2 DEF Write
    <3>3. CASE ~active
      BY <1>7, <2>2, <3>1, <3>3 DEF Write
    <3> QED BY <3>2, <3>3
  <2> QED BY <2>1, <2>2
<1>8. CASE Written
  BY <1>8 DEF Written
<1>9. CASE CallFails
  BY <1>9 DEF CallFails
<1>10. ASSUME NEW p \in {"exec", "enter", "config", "exit"}, NEW l \in OpLimits,
             Operation(p, l)
      PROVE  ModeInv'
  BY <1>10 DEF Operation, OpenScope, Counters
<1>11. CASE CloseScope
  BY <1>11 DEF CloseScope, Restored, NextProg
<1>12. CASE SetupDone
  BY <1>12 DEF SetupDone
<1>13. CASE LeaveConfig
  BY <1>13 DEF LeaveConfig
<1>14. CASE Disconnect
  BY <1>14 DEF Disconnect
<1>15. CASE Close
  BY <1>15 DEF Close
<1>16. CASE TransportOverflow
  BY <1>16 DEF TransportOverflow
<1>17. CASE UNCHANGED bvars
  BY <1>17 DEF bvars
<1> QED BY <1>1, <1>2, <1>3, <1>4, <1>5, <1>6, <1>7, <1>8, <1>9, <1>10, <1>11, <1>12,
           <1>13, <1>14, <1>15, <1>16, <1>17 DEF SessionNext

\* The session starts under the setup budget.
LEMMA SessionInitInv == SessionInit => SessionInv
<1> SUFFICES ASSUME SessionInit
             PROVE  SessionInv
  OBVIOUS
<1> USE BudgetTypes DEF SessionInit, Counters
<1>1. SessionTypeOK
  BY DEF SessionTypeOK, Locations, CounterSet
<1>2. ScopeInv /\ CountInv
  BY DEF ScopeInv, CountInv
<1>3. HealthInv /\ ModeInv
  BY DEF HealthInv, ModeInv, Transports
<1> QED BY <1>1, <1>2, <1>3 DEF SessionInv

\* SessionInv holds in every state, for any budgets and whatever the switch sends.
THEOREM SessionInvariant == BudgetSpec => []SessionInv
<1>1. SessionInv /\ [SessionNext]_bvars => SessionInv'
  BY SessionTypeStep, SessionScopeStep, SessionCountStep, SessionHealthStep,
     SessionModeStep DEF SessionInv
<1> QED BY <1>1, SessionInitInv, PTL DEF BudgetSpec

\* No command is given, and no string is made of, more than the budget; between
\* commands the session is under its own budget again.
THEOREM BudgetIsKeptTheorem == BudgetSpec => []BudgetIsKept
<1>1. SessionInv => BudgetIsKept
  BY DEF SessionInv, ScopeInv, CountInv, BudgetIsKept
<1> QED BY <1>1, SessionInvariant, PTL

\* Nothing moves on the connection once a limit was exceeded.
THEOREM NothingAfterLimitTheorem == BudgetSpec => []NothingAfterLimit
<1>1. SessionInv => NothingAfterLimit
  BY DEF SessionInv, HealthInv, NothingAfterLimit
<1> QED BY <1>1, SessionInvariant, PTL

\* A command of exec mode is only sent in exec mode.
THEOREM ExecCommandsInExecModeTheorem == BudgetSpec => ExecCommandsInExecMode
<1>1. SessionInv =>
        (pc = "write" /\ pc' = "written" /\ prog = "exec" => mode = "exec")
  BY DEF SessionInv, SessionTypeOK, ScopeInv, ModeInv
<1>2. SessionInv /\ [SessionNext]_bvars =>
        [pc = "write" /\ pc' = "written" /\ prog = "exec" => mode = "exec"]_bvars
  BY <1>1
<1> QED BY <1>2, SessionInvariant, PTL DEF BudgetSpec, ExecCommandsInExecMode
=============================================================================
