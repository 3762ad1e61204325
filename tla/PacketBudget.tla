---------------------------- MODULE PacketBudget ----------------------------
(***************************************************************************)
(* The SSH transport as bounded_paramiko.py bounds it.  Paramiko's         *)
(* transport thread first reads lines of text until the identification of  *)
(* the peer (readline), then one packet after another (read_message); the  *)
(* main thread waits in connect().  Both count what the peer sends before  *)
(* they read it, and report a peer that goes over a limit.                 *)
(*                                                                         *)
(* Paramiko is external: its read_message reads a header of one block,     *)
(* learns packet_length from it, and asks read_all for the rest.           *)
(***************************************************************************)
EXTENDS Integers, Sequences

CONSTANTS
    MaxLine,        \* MAX_SSH_BANNER_LINE_BYTES
    MaxLines,       \* MAX_SSH_PRE_IDENTIFICATION_LINES
    MaxText,        \* MAX_SSH_PREAUTH_TEXT_BYTES
    TextChunk,      \* _TEXT_READ_CHUNK_BYTES
    MaxPacket,      \* MAX_SSH_PACKET_LENGTH
    MaxMac,         \* the largest MAC, 64 bytes
    Ciphers,        \* inbound ciphers: mode, block size, MAC size
    Fields,         \* packet lengths the peer may send
    MaxPackets      \* bound on the packets of a session

ASSUME LimitsAssumption ==
    /\ {MaxLine, MaxText, TextChunk, MaxPacket} \subseteq Nat \ {0}
    /\ {MaxLines, MaxMac, MaxPackets} \subseteq Nat
    /\ MaxPacket >= 12 /\ MaxMac <= 64   \* a first block of 16 bytes is never over the limit
    /\ Ciphers \subseteq [mode: {"classic", "etm", "aead"}, block: Nat, mac: Nat]
    /\ Fields \subseteq Nat

VARIABLES
    tpc,        \* transport thread: "readline", "idle", "header", "body", "mac", "dead"
    remainder,  \* bytes received and not consumed: "n" is a newline
    line, text_bytes, pre_identification_lines,
    cipher, field, clear_length,
    banner_limit_exceeded, binary_packet_limit_exceeded,
    closed,     \* the packetizer and its socket
    packets,
    mpc,        \* main thread: "connect", "except", "connected", "raised"
    result,     \* of connect(): "none", "banner", "binary", "other"
    transport,  \* the client still refers to the transport
    received,   \* history: bytes of text taken from the socket
    taken,      \* history: bytes taken for the packet in progress
    cause       \* history: the limits exceeded when connect() failed

Text == <<remainder, line, text_bytes, pre_identification_lines, received>>
Packet == <<cipher, field, clear_length, packets, taken>>
Flags == <<banner_limit_exceeded, binary_packet_limit_exceeded>>
Main == <<mpc, result, transport, cause>>
pvars == <<tpc, Text, Packet, Flags, closed, Main>>

NoLength == -1
Lesser(a, b) == IF a < b THEN a ELSE b

TransportInit ==
    /\ tpc = "readline" /\ remainder = <<>> /\ line = 0 /\ text_bytes = 0
    /\ pre_identification_lines = 0
    /\ cipher = [mode |-> "classic", block |-> 8, mac |-> 0]   \* no cipher yet
    /\ field = 0 /\ clear_length = NoLength /\ packets = 0
    /\ banner_limit_exceeded = FALSE /\ binary_packet_limit_exceeded = FALSE
    /\ closed = FALSE
    /\ mpc = "connect" /\ result = "none" /\ transport = TRUE
    /\ received = 0 /\ taken = 0 /\ cause = {}
-----------------------------------------------------------------------------
(* readline *)

Dies == tpc' = "dead"

\* _limit
BannerLimit ==
    /\ banner_limit_exceeded' = TRUE
    /\ Dies

LineRoom == MaxLine - line
TextRoom == MaxText - text_bytes

RecvRoom == Lesser(LineRoom, TextRoom)
TextRecvSize == Lesser(TextChunk, RecvRoom)

Chunks(n) == UNION {[1..k -> {"b", "n"}] : k \in 1..n}

\* No byte is left over: the socket is read for what the line may still hold.
RecvText ==
    /\ tpc = "readline" /\ remainder = <<>>
    /\ IF RecvRoom = 0
       THEN BannerLimit /\ UNCHANGED <<remainder, received>>
       ELSE \E c \in Chunks(TextRecvSize) :
               /\ ~closed
               /\ remainder' = c
               /\ received' = received + Len(c)
               /\ UNCHANGED <<tpc, banner_limit_exceeded>>
    /\ UNCHANGED <<line, text_bytes, pre_identification_lines, Packet,
                   binary_packet_limit_exceeded, closed, Main>>

\* The end of file, the timeout, or a packetizer closed by the main thread.
RecvTextFails ==
    /\ tpc = "readline" /\ remainder = <<>>
    /\ Dies
    /\ UNCHANGED <<Text, Packet, Flags, closed, Main>>

Newlines == {k \in DOMAIN remainder : remainder[k] = "n"}

\* Bytes up to the first newline, or all of them.
TakeLength ==
    IF Newlines = {} THEN Len(remainder)
    ELSE CHOOSE k \in Newlines : \A j \in Newlines : k <= j

TooManyLines == pre_identification_lines >= MaxLines

\* The end of a line that is, or is not, the identification of the peer.
EndLine(identification) ==
    IF identification
    THEN tpc' = "idle" /\ UNCHANGED <<pre_identification_lines, banner_limit_exceeded>>
    ELSE IF TooManyLines
    THEN BannerLimit /\ UNCHANGED pre_identification_lines
    ELSE /\ pre_identification_lines' = pre_identification_lines + 1
         /\ UNCHANGED <<tpc, banner_limit_exceeded>>

TakeText ==
    /\ tpc = "readline" /\ remainder # <<>>
    /\ IF TakeLength > LineRoom \/ TakeLength > TextRoom
       THEN /\ BannerLimit
            /\ UNCHANGED <<remainder, line, text_bytes, pre_identification_lines>>
       ELSE /\ text_bytes' = text_bytes + TakeLength
            /\ remainder' = SubSeq(remainder, TakeLength + 1, Len(remainder))
            /\ IF Newlines = {}
               THEN /\ line' = line + TakeLength
                    /\ UNCHANGED <<tpc, pre_identification_lines, banner_limit_exceeded>>
               ELSE /\ line' = 0
                    /\ \E identification \in BOOLEAN : EndLine(identification)
    /\ UNCHANGED <<received, Packet, binary_packet_limit_exceeded, closed, Main>>
-----------------------------------------------------------------------------
(* read_message and read_all *)

\* _binary_limit: the flag, then the socket.  The exception ends the thread.
BinaryLimit ==
    /\ binary_packet_limit_exceeded' = TRUE
    /\ closed' = TRUE
    /\ Dies

\* Every read fails on a closed socket.
BeginMessage ==
    /\ tpc = "idle" /\ ~closed
    /\ packets < MaxPackets
    /\ tpc' = "header" /\ packets' = packets + 1
    /\ field' \in Fields
    /\ taken' = 0 /\ clear_length' = NoLength
    /\ UNCHANGED <<Text, cipher, Flags, closed, Main>>

\* The packetizer's own parameters are what the review expected.
ReviewedCipher ==
    /\ cipher.block \in {8, 16}
    /\ cipher.mac <= MaxMac
    /\ cipher.mode = "etm" => cipher.mac # 0
    /\ cipher.mode = "aead" => cipher.mac = 16

ClearLength == cipher.mode \in {"etm", "aead"}

ReadHeader ==
    /\ tpc = "header" /\ ~closed
    /\ IF ~ReviewedCipher
       THEN BinaryLimit /\ UNCHANGED <<clear_length, taken>>
       ELSE /\ taken' = taken + cipher.block
            /\ clear_length' = IF ClearLength THEN field ELSE NoLength
            /\ IF ClearLength /\ field > MaxPacket
               THEN BinaryLimit
               ELSE tpc' = "body" /\ UNCHANGED <<binary_packet_limit_exceeded, closed>>
    /\ UNCHANGED <<Text, cipher, field, packets, banner_limit_exceeded, Main>>

\* What Paramiko asks for after the header, from the packet_length it read.
BodyRequest ==
    field - (cipher.block - 4) + (IF cipher.mode = "etm" THEN 0 ELSE cipher.mac)

\* Defect: the MAC is forgotten, so that a packet may be that much longer.
RequestedFieldNoMac(n) == n + cipher.block - 4 - MaxMac

\* The packet_length that a request stands for.
RequestedField(n) ==
    n + cipher.block - 4 - (IF cipher.mode = "etm" THEN 0 ELSE cipher.mac)

\* Defect: a bound on the request instead of the field.
RefusedBodyByRequest(n) == n < 5 \/ n > MaxPacket

RefusedBody(n) ==
    \/ n < 0 \/ n > MaxPacket + 64
    \/ RequestedField(n) < 5
    \/ RequestedField(n) > MaxPacket
    \/ clear_length # NoLength /\ RequestedField(n) # clear_length

ReadBody ==
    /\ tpc = "body" /\ ~closed
    /\ IF RefusedBody(BodyRequest)
       THEN BinaryLimit /\ UNCHANGED taken
       ELSE /\ taken' = taken + BodyRequest
            /\ tpc' = IF cipher.mode = "etm" THEN "mac" ELSE "idle"
            /\ UNCHANGED <<binary_packet_limit_exceeded, closed>>
    /\ UNCHANGED <<Text, cipher, field, clear_length, packets, banner_limit_exceeded, Main>>

ReadMac ==
    /\ tpc = "mac" /\ ~closed
    /\ taken' = taken + cipher.mac
    /\ tpc' = "idle"
    /\ UNCHANGED <<Text, cipher, field, clear_length, packets, Flags, closed, Main>>

\* A read is abandoned: the end of file, or a packetizer that was closed.
ReadFails ==
    /\ tpc \in {"idle", "header", "body", "mac"}
    /\ Dies
    /\ UNCHANGED <<Text, Packet, Flags, closed, Main>>

\* Before a header arrives Paramiko may leave read_message to rekey; the next
\* packets come under another cipher.
Rekey ==
    /\ tpc \in {"idle", "header"}
    /\ cipher' \in Ciphers
    /\ tpc' = "idle" /\ taken' = 0
    /\ UNCHANGED <<Text, field, clear_length, packets, Flags, closed, Main>>
-----------------------------------------------------------------------------
(* BoundedSSHClient.connect *)

Connected ==
    /\ mpc = "connect" /\ tpc \in {"idle", "header", "body", "mac"}
    /\ mpc' = "connected"
    /\ UNCHANGED <<tpc, Text, Packet, Flags, closed, result, transport, cause>>

Limits ==
    (IF banner_limit_exceeded THEN {"banner"} ELSE {})
        \cup (IF binary_packet_limit_exceeded THEN {"binary"} ELSE {})

\* Paramiko's connect raises: the transport died, or it took too long, or the
\* host key or the credentials were refused.
ConnectRaises ==
    /\ mpc = "connect"
    /\ mpc' = "except" /\ cause' = Limits
    /\ UNCHANGED <<tpc, Text, Packet, Flags, closed, result, transport>>

\* Defect: only the identification is looked at.
ConnectHandlerBannerOnly ==
    /\ mpc = "except"
    /\ mpc' = "raised"
    /\ IF ~banner_limit_exceeded
       THEN result' = "other" /\ UNCHANGED <<closed, transport>>
       ELSE /\ closed' = TRUE /\ transport' = FALSE
            /\ result' = "banner"
    /\ UNCHANGED <<tpc, Text, Packet, Flags, cause>>

ConnectHandler ==
    /\ mpc = "except"
    /\ mpc' = "raised"
    /\ IF Limits = {}
       THEN result' = "other" /\ UNCHANGED <<closed, transport>>
       ELSE /\ closed' = TRUE /\ transport' = FALSE
            /\ result' = IF binary_packet_limit_exceeded THEN "binary" ELSE "banner"
    /\ UNCHANGED <<tpc, Text, Packet, Flags, cause>>

Thread ==
    \/ RecvText \/ RecvTextFails \/ TakeText
    \/ BeginMessage \/ ReadHeader \/ ReadBody \/ ReadMac \/ ReadFails \/ Rekey

TransportNext == Thread \/ Connected \/ ConnectRaises \/ ConnectHandler

PacketSpec == TransportInit /\ [][TransportNext]_pvars
-----------------------------------------------------------------------------
\* Before its identification a peer makes the process read no more text than the
\* total allows, in lines no longer and no more than the limits; what it sent
\* ahead of a newline counts.  Then a packet never costs more than its four
\* length bytes, the largest allowed packet and its MAC, in any of the three
\* formats, whatever length the peer claims and however often it rekeys.
TransportIsBounded ==
    /\ received <= MaxText
    /\ line <= MaxLine
    /\ pre_identification_lines <= MaxLines
    /\ taken <= 4 + MaxPacket + cipher.mac

\* A packet that the protocol allows and that is not over the limit: whole
\* blocks, the length field counted unless it is sent in the clear.
Legal(f) ==
    /\ f >= 5 /\ f <= MaxPacket
    /\ (IF ClearLength THEN f ELSE f + 4) % cipher.block = 0

\* Nobody is refused wrongly.  No legal packet is, although the code only sees
\* the request that Paramiko derives from the length.  And a peer is refused for
\* its text only if that cannot be the beginning of an acceptable identification:
\* a line or the total is full without a newline that fits, or the lines before
\* the identification are used up.
RefusalIsJustified ==
    /\ tpc = "body" /\ Legal(field) => ~RefusedBody(BodyRequest)
    /\ banner_limit_exceeded =>
           \/ line + TakeLength >= MaxLine
           \/ text_bytes + TakeLength >= MaxText
           \/ pre_identification_lines = MaxLines

\* connect() tells a peer over its limit from an ordinary failure, although the
\* thread that found it may still be unwinding, and then leaves neither the
\* socket open nor the transport in use.
LimitIsReported ==
    mpc = "raised" =>
        /\ cause # {} => result \in {"banner", "binary"}
        /\ result # "other" => result \in Limits /\ closed /\ ~transport
=============================================================================
