----------------------------- MODULE ItchDecoder -----------------------------
(***************************************************************************)
(* decodeMessage(): from the payload of a record to a message.             *)
(*                                                                         *)
(* Struct gives the fields of each message type in the order the structs   *)
(* of messages.hpp declare them, which is their order on the wire, with    *)
(* the bytes each takes there.  The Read operators have the offset and the *)
(* width decodeMessage() reads each field with; an integer is read big end *)
(* first, a char or an array of chars is copied.  The two are written down *)
(* separately in the code, and nothing but care keeps them together.       *)
(*                                                                         *)
(* A sender puts a message on the wire and the decoder reads it.  Byte     *)
(* values are 0..Radix-1, and a message has one byte that is not zero:     *)
(* both directions treat every byte on its own, so what happens to each    *)
(* byte of each message shows what happens to all of them.                 *)
(***************************************************************************)
EXTENDS Integers, SequencesExt

CONSTANTS Radix,     \* number of values of a byte, 256
          NoMessage

ASSUME DecoderAssumption == Radix \in Nat \ {0, 1}

Num(name, width) == <<[name |-> name, kind |-> "int", width |-> width]>>
Chars(name, width) == <<[name |-> name, kind |-> "chars", width |-> width]>>

Header == Num("stockLocate", 2) \o Num("trackingNumber", 2) \o Num("timestamp", 6)
OrderHeader == Header \o Num("orderReferenceNumber", 8)

AddOrderMessage ==
    OrderHeader \o Chars("buySellIndicator", 1) \o Num("shares", 4) \o Chars("stock", 8)
                \o Num("price", 4)

OrderExecutedMessage == OrderHeader \o Num("executedShares", 4) \o Num("matchNumber", 8)

StockDirectoryMessage ==
    Header \o Chars("stock", 8) \o Chars("marketCategory", 1) \o Chars("financialStatus", 1)
           \o Num("roundLotSize", 4) \o Chars("roundLotsOnly", 1)
           \o Chars("issueClassification", 1) \o Chars("issueSubType", 2)
           \o Chars("authenticity", 1) \o Chars("shortSaleThreshold", 1) \o Chars("ipoFlag", 1)
           \o Chars("luldRefPriceTier", 1) \o Chars("etpFlag", 1)
           \o Num("etpLeverageFactor", 4) \o Chars("inverseIndicator", 1)

OrderReplaceMessage ==
    Header \o Num("originalOrderReferenceNumber", 8) \o Num("newOrderReferenceNumber", 8)
           \o Num("shares", 4) \o Num("price", 4)

\* The message types and their fields.
Struct ==
    [S |-> Header \o Chars("eventCode", 1),
     R |-> StockDirectoryMessage,
     A |-> AddOrderMessage,
     F |-> AddOrderMessage \o Chars("attribution", 4),
     E |-> OrderExecutedMessage,
     C |-> OrderExecutedMessage \o Chars("printable", 1) \o Num("executionPrice", 4),
     X |-> OrderHeader \o Num("cancelledShares", 4),
     D |-> OrderHeader,
     U |-> OrderReplaceMessage,
     T |-> Num("seconds", 4)]

Types == DOMAIN Struct

-----------------------------------------------------------------------------
\* p[offset], ..., p[offset + width - 1], as they are or as an unsigned integer.
CopyChars(p, offset, width) == SubSeq(p, offset + 1, offset + width)
ReadBE(p, offset, width) ==
    FoldLeft(LAMBDA v, byte : v * Radix + byte, 0, CopyChars(p, offset, width))

\* The payload size decodeMessage() insists on.
PayloadSize == [S |-> 11, R |-> 38, A |-> 35, F |-> 39, E |-> 30, C |-> 35, X |-> 22, D |-> 18,
                U |-> 34, T |-> 4]

ReadHeader(p) == [stockLocate    |-> ReadBE(p, 0, 2),
                  trackingNumber |-> ReadBE(p, 2, 2),
                  timestamp      |-> ReadBE(p, 4, 6)]

ReadOrderHeader(p) == ReadHeader(p) @@ [orderReferenceNumber |-> ReadBE(p, 10, 8)]

\* Mutant: the shares are read where the stock is.
ReadAddOrder_Shifted(p) ==
    ReadOrderHeader(p) @@ [buySellIndicator |-> CopyChars(p, 18, 1),
                           shares           |-> ReadBE(p, 20, 4),
                           stock            |-> CopyChars(p, 23, 8),
                           price            |-> ReadBE(p, 31, 4)]

ReadAddOrder(p) ==
    ReadOrderHeader(p) @@ [buySellIndicator |-> CopyChars(p, 18, 1),
                           shares           |-> ReadBE(p, 19, 4),
                           stock            |-> CopyChars(p, 23, 8),
                           price            |-> ReadBE(p, 31, 4)]

ReadOrderExecuted(p) ==
    ReadOrderHeader(p) @@ [executedShares |-> ReadBE(p, 18, 4), matchNumber |-> ReadBE(p, 22, 8)]

ReadStockDirectory(p) ==
    ReadHeader(p) @@ [stock               |-> CopyChars(p, 10, 8),
                      marketCategory      |-> CopyChars(p, 18, 1),
                      financialStatus     |-> CopyChars(p, 19, 1),
                      roundLotSize        |-> ReadBE(p, 20, 4),
                      roundLotsOnly       |-> CopyChars(p, 24, 1),
                      issueClassification |-> CopyChars(p, 25, 1),
                      issueSubType        |-> CopyChars(p, 26, 2),
                      authenticity        |-> CopyChars(p, 28, 1),
                      shortSaleThreshold  |-> CopyChars(p, 29, 1),
                      ipoFlag             |-> CopyChars(p, 30, 1),
                      luldRefPriceTier    |-> CopyChars(p, 31, 1),
                      etpFlag             |-> CopyChars(p, 32, 1),
                      etpLeverageFactor   |-> ReadBE(p, 33, 4),
                      inverseIndicator    |-> CopyChars(p, 37, 1)]

ReadOrderReplace(p) ==
    ReadHeader(p) @@ [originalOrderReferenceNumber |-> ReadBE(p, 10, 8),
                      newOrderReferenceNumber      |-> ReadBE(p, 18, 8),
                      shares                       |-> ReadBE(p, 26, 4),
                      price                        |-> ReadBE(p, 30, 4)]

\* decodeMessage(); NoMessage where it returns false.  'F' and 'C' decode the message
\* they extend from the beginning of their payload.
DecodeMessage(type, p) ==
    IF type \notin Types THEN NoMessage
    ELSE IF Len(p) # PayloadSize[type] THEN NoMessage
    ELSE CASE type = "S" -> ReadHeader(p) @@ [eventCode |-> CopyChars(p, 10, 1)]
           [] type = "R" -> ReadStockDirectory(p)
           [] type = "A" -> ReadAddOrder(p)
           [] type = "F" -> ReadAddOrder(SubSeq(p, 1, 35)) @@ [attribution |-> CopyChars(p, 35, 4)]
           [] type = "E" -> ReadOrderExecuted(p)
           [] type = "C" -> ReadOrderExecuted(SubSeq(p, 1, 30))
                              @@ [printable      |-> CopyChars(p, 30, 1),
                                  executionPrice |-> ReadBE(p, 31, 4)]
           [] type = "X" -> ReadOrderHeader(p) @@ [cancelledShares |-> ReadBE(p, 18, 4)]
           [] type = "D" -> ReadOrderHeader(p)
           [] type = "U" -> ReadOrderReplace(p)
           [] type = "T" -> [seconds |-> ReadBE(p, 0, 4)]

-----------------------------------------------------------------------------
VARIABLES
    sent,     \* the type and the fields of the message on the wire
    payload,  \* its bytes
    out       \* what decodeMessage() made of it

decoderVars == <<sent, payload, out>>

DecoderInit == sent = NoMessage /\ payload = <<>> /\ out = NoMessage

\* A field whose byte at this place is this value and whose other bytes are zero.
FieldWith(field, place, value) ==
    LET bytes == [i \in 1..field.width |-> IF i = place THEN value ELSE 0]
    IN  IF field.kind = "chars" THEN bytes
        ELSE FoldLeft(LAMBDA v, byte : v * Radix + byte, 0, bytes)

FieldBytes(field, value) ==
    IF field.kind = "chars" THEN value
    ELSE [i \in 1..field.width |-> (value \div Radix^(field.width - i)) % Radix]

\* A message of this type, all zero but for one byte of one field.
MessageWith(type, k, place, value) ==
    LET fields == Struct[type]
    IN  [name \in {fields[i].name : i \in 1..Len(fields)} |->
            LET i == CHOOSE j \in 1..Len(fields) : fields[j].name = name
            IN  FieldWith(fields[i], IF i = k THEN place ELSE 0, value)]

\* The wire format: the fields, one after the other.
Encode(type, message) ==
    FlattenSeq([i \in 1..Len(Struct[type]) |->
                   FieldBytes(Struct[type][i], message[Struct[type][i].name])])

Send(type, k, place, value) ==
    /\ sent = NoMessage
    /\ sent' = [type |-> type, message |-> MessageWith(type, k, place, value)]
    /\ payload' = Encode(type, sent'.message)
    /\ UNCHANGED out

\* A record that has lost its last byte, or carries one too many.
SendDamaged(type, bytes) ==
    /\ sent = NoMessage
    /\ sent' = [type |-> type, message |-> NoMessage]
    /\ payload' = bytes
    /\ UNCHANGED out

Decode ==
    /\ sent # NoMessage /\ payload # <<>>
    /\ out' = DecodeMessage(sent.type, payload)
    /\ payload' = <<>>
    /\ UNCHANGED sent

Consume ==
    /\ sent # NoMessage /\ payload = <<>>
    /\ sent' = NoMessage /\ out' = NoMessage
    /\ UNCHANGED payload

DecoderNext ==
    \/ \E type \in Types : \E k \in 1..Len(Struct[type]) : \E place \in 1..Struct[type][k].width :
          Send(type, k, place, Radix - 1)
    \/ \E type \in Types : \E extra \in {-1, 1} :
          SendDamaged(type, [i \in 1..PayloadSize[type] + extra |-> 0])
    \/ Decode
    \/ Consume

DecoderSpec == DecoderInit /\ [][DecoderNext]_decoderVars

-----------------------------------------------------------------------------
\* What arrives is what was sent, field by field, for every byte of every message
\* type: each field is read where the wire has it, with its width and byte order, and
\* no byte is read twice or not at all.  A payload of another size is refused.
DecodesWhatWasSent == sent # NoMessage /\ payload = <<>> => out = sent.message
=============================================================================
