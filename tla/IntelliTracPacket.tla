--------------------------- MODULE IntelliTracPacket ---------------------------
(***************************************************************************)
(* The messages of IntelliTrac devices: what one turn of ConsumeStream      *)
(* makes of the bytes on a connection, in the binary and in the ASCII       *)
(* format of the login, and the frame of a command.                         *)
(***************************************************************************)
EXTENDS Bytes

MsgEncodingBinaryPos == 0
MsgEncodingATCommand == 1
MsgEncodingText      == 2

MsgTypeRequest  == 0
MsgTypeResponse == 1
MsgTypeAsync    == 2
MsgTypeAck      == 3

\* An acknowledgement of success.
Ack(transaction, encoding) == << transaction \o <<encoding, MsgTypeAck, 0, 0>> >>

\* The first byte of three is the sign.
Int24(b, at) ==
    Int32(<<IF b[at + 1] < 128 THEN 0 ELSE 255>> \o Slice(b, at, 3), 0)

\* Numbers keep the units of the wire, but the odometer.
handlePositionalData(data) ==
    [timestamp |-> Slice(data, 3, 3) \o Slice(data, 0, 3),
     latitude |-> Int32(data, 6), longitude |-> Int32(data, 10),
     altitude |-> Int24(data, 14), speed |-> Uint16(data, 17),
     course |-> Uint16(data, 19), odometer |-> Uint32(data, 21) \div 1000,
     satellites |-> Uint8(data, 26), ignition |-> Bit(Uint16(data, 27), 0) = 1]

\* A modem id, a message id, a size, data.  A heartbeat, and data too short for
\* a position, are acknowledged like a position.
handleBinaryPosition(b, transaction) ==
    LET messageID == Uint16(b, 12)
        dataLen   == Uint16(b, 14)
        data      == Slice(b, 16, dataLen)
        ack       == Ack(transaction, MsgEncodingBinaryPos)
    IN  IF Len(b) < 16 \/ Len(b) < 16 + dataLen THEN Waits
        ELSE IF messageID = 171 \/ dataLen < 46
        THEN Message(16 + dataLen, <<>>, <<>>, ack)
        ELSE Message(16 + dataLen, <<handlePositionalData(data)>>, <<>>, ack)

\* A size, a modem id, the text, twelve bytes: logged and acknowledged.
handleTextMessage(b, transaction) ==
    LET dataLen == Uint16(b, 4)
    IN  IF Len(b) < 6 \/ Len(b) < 26 + dataLen THEN Waits
        ELSE Message(26 + dataLen, <<>>, <<>>, Ack(transaction, MsgEncodingText))

\* A size, the response.
handleATResponse(b) ==
    LET dataLen == Uint16(b, 4)
    IN  IF Len(b) < 6 \/ Len(b) < 6 + dataLen THEN Waits
        ELSE Message(6 + dataLen, <<>>, <<Slice(b, 6, dataLen)>>, <<>>)

\* A transaction id, an encoding and a type.
consumeBinaryStream(b) ==
    LET kind == Slice(b, 2, 2)
        transaction == Slice(b, 0, 2)
    IN  IF Len(b) < 4 THEN Waits
        ELSE CASE kind = <<MsgEncodingBinaryPos, MsgTypeAsync>> ->
                    handleBinaryPosition(b, transaction)
               [] kind = <<MsgEncodingText, MsgTypeAsync>> ->
                    handleTextMessage(b, transaction)
               [] kind = <<MsgEncodingATCommand, MsgTypeResponse>> -> handleATResponse(b)
               [] OTHER -> Ends

-----------------------------------------------------------------------------

NewLine == 10
Comma   == 44

\* Fifteen parts are a position; what they say is not read.
IsPosition(commas) == commas + 1 >= 15

\* How many there are in a line.
Commas(line) == Len(SelectSeq(line, LAMBDA x : x = Comma))

\* A line is acknowledged, if at all, as transaction zero.
consumeASCIIStream(b) ==
    LET ends == {i \in DOMAIN b : b[i] = NewLine}
        end  == CHOOSE i \in ends : \A j \in ends : i <= j
    IN  IF ends = {} THEN Waits
        ELSE IF IsPosition(Commas(Slice(b, 0, end)))
        THEN Message(end, <<[position |-> "unread"]>>, <<>>,
                     Ack(<<0, 0>>, MsgEncodingBinaryPos))
        ELSE Message(end, <<>>, <<>>, <<>>)

sendBinaryCommand(command, transaction) ==
    transaction \o <<MsgEncodingATCommand, MsgTypeRequest>>
        \o Put(Len(command), 2) \o command

sendASCIICommand(command) == command \o <<13, NewLine>>

==============================================================================
