------------------------------ MODULE Framing -------------------------------
(***************************************************************************)
(* The headers in front of every message, as the three programs write and  *)
(* read them, and the bytes that characters take on the wire.              *)
(*                                                                         *)
(* A character is a number: those below Base are the digits, others are    *)
(* letters, and Width says how many bytes UTF-8 gives one.  A byte is its  *)
(* character and its place in it.                                          *)
(*                                                                         *)
(* An operator X_Y is X with the fault Y put in; no specification uses it. *)
(***************************************************************************)
EXTENDS Integers, Sequences, SequencesExt

CONSTANTS
    Base,       \* the base of the numbers in a header: 10 in the code
    Letter,     \* the characters that are not digits
    WideLetter  \* those of them that take two bytes

ASSUME LetterAssumption ==
    /\ Base \in Nat \ {0, 1}
    /\ Letter \subseteq Nat /\ \A c \in Letter : c >= Base
    /\ WideLetter \subseteq Letter

Digit == 0..Base - 1
Character == Digit \cup Letter

HEADER_LENGTH == 6
Width(c) == IF c \in WideLetter THEN 2 ELSE 1

Hundred == Base * Base

TwoDigits(k) == <<(k \div Base) % Base, k % Base>>
NumberOf(digits) ==
    LET value[i \in 0..Len(digits)] == IF i = 0 THEN 0 ELSE Base * value[i - 1] + digits[i]
    IN  value[Len(digits)]
IsNumber(text) == \A i \in DOMAIN text : text[i] \in Digit

(* protocol_wrapper.Header, Header::get_string_rep and makeHeader agree on   *)
(* types of two digits and lengths of four, in front of which they put zeros.*)
Header(type, length) == TwoDigits(type) \o TwoDigits(length \div Hundred) \o TwoDigits(length)
keep_alive == [i \in 1..HEADER_LENGTH |-> 0]

(* What protocol_wrapper.Header reads: message[:2] and message[4:], so the   *)
(* first two of the four digits of the length are skipped.                   *)
TypeRead(text)   == NumberOf(SubSeq(text, 1, 2))
LengthRead_FirstDigits(text) == NumberOf(SubSeq(text, 3, 4))
LengthRead(text) == NumberOf(SubSeq(text, 5, HEADER_LENGTH))

(* What parse_from_string reads in the server. *)
msg_len(text) == NumberOf(SubSeq(text, 3, HEADER_LENGTH))

-----------------------------------------------------------------------------
(* Text to bytes and back: str.encode and bytes.decode. *)
encode(text) ==
    FlattenSeq([i \in DOMAIN text |-> [k \in 1..Width(text[i]) |-> <<text[i], k>>]])

Byte == Character \X {1, 2}

(* Bytes that begin and end at the bounds of characters. *)
Decodable(bytes) ==
    bytes = <<>> \/ (bytes[1][2] = 1 /\ bytes[Len(bytes)][2] = Width(bytes[Len(bytes)][1]))
decode(bytes) ==
    LET text[i \in 0..Len(bytes)] ==
            IF i = 0 THEN <<>>
            ELSE IF bytes[i][2] = 1 THEN Append(text[i - 1], bytes[i][1]) ELSE text[i - 1]
    IN  text[Len(bytes)]

(* A reader of whole frames: part is what it has of the frame under way, and *)
(* lengths count bytes.  What follows a header that is no number is not      *)
(* read: parse_from_string throws.                                           *)
ReaderState == [found : Seq([type : Int, body : Seq(Byte)]), part : Seq(Byte), reads : BOOLEAN]
ReadByte[step \in ReaderState \X Byte] ==
    LET reader == step[1]
        part   == Append(reader.part, step[2])
        header == [i \in 1..HEADER_LENGTH |-> part[i][1]]
        body   == SubSeq(part, HEADER_LENGTH + 1, Len(part))
    IN  IF ~reader.reads THEN reader
        ELSE IF Len(part) < HEADER_LENGTH THEN [reader EXCEPT !.part = part]
        ELSE IF ~IsNumber(header)
             THEN [found |-> Append(reader.found, [type |-> -1, body |-> <<>>]),
                   part |-> part, reads |-> FALSE]
        ELSE IF Len(body) < msg_len(header) THEN [reader EXCEPT !.part = part]
        ELSE [found |-> IF body = <<>> THEN reader.found
                        ELSE Append(reader.found, [type |-> TypeRead(header), body |-> body]),
              part |-> <<>>, reads |-> TRUE]

NothingRead == [found |-> <<>>, part |-> <<>>, reads |-> TRUE]
Reader(bytes) ==
    LET after[i \in 0..Len(bytes)] ==
            IF i = 0 THEN NothingRead ELSE ReadByte[<<after[i - 1], bytes[i]>>]
    IN  after[Len(bytes)]

(* The messages with a body that it finds.                                   *)
Frames(bytes) == Reader(bytes).found
=============================================================================
