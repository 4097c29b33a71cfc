---------------------------- MODULE ExternalProtocol ----------------------------
(***************************************************************************)
(* The bytes between client and gateway: external.py and                   *)
(* external_serializer.py.                                                 *)
(*                                                                         *)
(* A fruit is a sequence of characters, a character the sequence of its    *)
(* UTF-8 bytes.  A number takes Uint32Size bytes (four in the code, fewer  *)
(* in a run, where the numbers that do not fit are then small).            *)
(***************************************************************************)
EXTENDS Integers, SequencesExt

CONSTANTS Uint32Size, Characters, Amounts

VARIABLE message   \* the case looked at: a top, of which one record may be sent alone

ASSUME Uint32Assumption == Uint32Size \in Nat \ {0} /\ Amounts \subseteq Int

FRUIT_RECORD == 1
FRUIT_TOP == 2
ACK == 3
END_OF_RECODS == 4

\* What an exception is, on either side.
Failure == [failed |-> TRUE]
Success(value, rest) == [failed |-> FALSE, value |-> value, rest |-> rest]

-----------------------------------------------------------------------------
(* Sending.  A number that does not fit is an OverflowError, raised before *)
(* anything is sent: there is no message.                                  *)

FitsUint32(n) == n \in 0 .. 256^Uint32Size - 1

SerializeUint32(n) == [i \in 1 .. Uint32Size |-> (n \div 256^(Uint32Size - i)) % 256]

SerializeString(fruit) == FlattenSeq(fruit)

\* Mutant: the length of what is sent.
LengthInBytes(fruit, amount) ==
    SerializeUint32(Len(SerializeString(fruit))) \o SerializeString(fruit)
        \o SerializeUint32(amount)

\* len(fruit) counts characters.
SerializeFruitRecord(fruit, amount) ==
    SerializeUint32(Len(fruit)) \o SerializeString(fruit) \o SerializeUint32(amount)

\* _send_fruit_record: the message, if there is one.
SendFruitRecord(record) ==
    {SerializeUint32(FRUIT_RECORD) \o SerializeFruitRecord(r[1], r[2]) :
        r \in {q \in {record} : FitsUint32(q[2])}}

\* _send_fruit_top
SendFruitTop(top) ==
    {SerializeUint32(FRUIT_TOP) \o SerializeUint32(Len(t))
        \o FlattenSeq([i \in DOMAIN t |-> SerializeFruitRecord(t[i][1], t[i][2])]) :
            t \in {u \in {top} : \A i \in DOMAIN u : FitsUint32(u[i][2])}}

-----------------------------------------------------------------------------
(* Receiving, from a stream that ends when the peer closes it.             *)

\* _recv_sized: IncompleteReadError at the end of the stream.
RecvSized(stream, size) ==
    IF Len(stream) < size THEN Failure
    ELSE Success(SubSeq(stream, 1, size), SubSeq(stream, size + 1, Len(stream)))

RecvUint32(stream) ==
    LET field == RecvSized(stream, Uint32Size)
    IN IF field.failed THEN Failure
       ELSE Success(FoldLeft(LAMBDA n, b : 256 * n + b, 0, field.value), field.rest)

\* b.decode("utf-8").  Of all strings, only those of up to two of the characters
\* can be what was sent; any other counts as a failure here.
RecvString(stream, size) ==
    LET field == RecvSized(stream, size)
        fruits == {f \in BoundedSeq(Characters, 2) : ~field.failed /\ SerializeString(f) = field.value}
    IN IF fruits = {} THEN Failure ELSE Success(CHOOSE f \in fruits : TRUE, field.rest)

RecvFruitRecord(stream) ==
    LET size == RecvUint32(stream)
        fruit == IF size.failed THEN Failure ELSE RecvString(size.rest, size.value)
        amount == IF fruit.failed THEN Failure ELSE RecvUint32(fruit.rest)
    IN IF amount.failed THEN Failure
       ELSE Success(<< fruit.value, amount.value >>, amount.rest)

\* Mutant: the records are put in front of each other.
RecvInFront(received) ==
    LET record == IF received.failed THEN Failure ELSE RecvFruitRecord(received.rest)
    IN IF record.failed THEN Failure
       ELSE Success(<< record.value >> \o received.value, record.rest)

\* One more record onto what the loop has received.
RecvOneMore(received) ==
    LET record == IF received.failed THEN Failure ELSE RecvFruitRecord(received.rest)
    IN IF record.failed THEN Failure
       ELSE Success(Append(received.value, record.value), record.rest)

RecvFruitTop(stream) ==
    LET size == RecvUint32(stream)
    IN IF size.failed THEN Failure
       ELSE FoldLeft(LAMBDA received, i : RecvOneMore(received),
                     Success(<<>>, size.rest), [i \in 1 .. size.value |-> i])

\* recv_msg: a KeyError on a type that is none.
RecvMsg(stream) ==
    LET type == RecvUint32(stream)
        body == IF type.failed \/ ~(type.value \in 1 .. 4) THEN Failure
                ELSE IF type.value = FRUIT_RECORD THEN RecvFruitRecord(type.rest)
                ELSE IF type.value = FRUIT_TOP THEN RecvFruitTop(type.rest)
                ELSE Success(<<>>, type.rest)
    IN IF body.failed THEN Failure
       ELSE Success(<< type.value, body.value >>, body.rest)

-----------------------------------------------------------------------------
Records == (BoundedSeq(Characters, 2) \ {<<>>}) \X Amounts

\* What the protocol can carry: one-byte characters, numbers of the width.
Carried(record) ==
    /\ \A i \in DOMAIN record[1] : Len(record[1][i]) = 1
    /\ 0 <= record[2] /\ record[2] < 256^Uint32Size

\* The message that follows: it must be found where it starts.
Following == SerializeUint32(ACK)

Arrives(bytes, type, value) ==
    RecvMsg(bytes \o Following) = Success(<< type, value >>, Following)

\* A record is received as it was sent, and the next message after it, exactly
\* when the fruit is written with one-byte characters and the amount fits: any
\* other fruit is cut and leaves the receiver out of step, any other amount of
\* the CSV file stops the client (external.py _serialize_fruit_record).
RecordsCarried ==
    \A i \in DOMAIN message :
        Carried(message[i]) <=>
            \E bytes \in SendFruitRecord(message[i]) :
                Arrives(bytes, FRUIT_RECORD, message[i])

\* The same of a top, where the totals of the fruits must fit: one record that
\* is not carried, at any place, and the client does not get the top.
TopsCarried ==
    (\A i \in DOMAIN message : Carried(message[i])) <=>
        \E bytes \in SendFruitTop(message) : Arrives(bytes, FRUIT_TOP, message)
================================================================================
