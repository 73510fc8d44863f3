---------------------------- MODULE PacketCodec ----------------------------
(* How packets become bytes and bytes packets: PacketStream and            *)
(* UnpackStream of build/mpl/pub/ptl_packet.cc on the side of the server,  *)
(* the classes of packet_processing.py on the side of the client.          *)
(*                                                                         *)
(* A byte is a record that says which byte of which value it is, so a      *)
(* value is read back only from all of its bytes, in their order. Values   *)
(* are opaque, except lengths and operate codes.                           *)
EXTENDS Integers, Sequences, SequencesExt, TLC

CONSTANTS
  MaxShort,          \* the greatest int16: 32767 in the code
  ZipLen(_),         \* the length of a compressed body (CompressionStream)
  Full               \* the strings without a zero byte at the end of their field

HEART_PACKET == 100
USER_REGISTER == 1001
USER_LOGIN == 1002
WORD_SEGMENTER == 2001
WORD_RESULT == 2002
WORD_RESULT_END == 2003
ARTICLE_DIGEST_UNIT == 3001
ARTICLE_DIGEST_END == 3002
ARTICLE_RESULT_DIGEST == 3003
ZIP_AND_NOENCRYPT == 1

Codes == {HEART_PACKET, USER_REGISTER, USER_LOGIN, WORD_SEGMENTER, WORD_RESULT,
          WORD_RESULT_END, ARTICLE_DIGEST_UNIT, ARTICLE_DIGEST_END, ARTICLE_RESULT_DIGEST}

\* reserved, the last field, is not counted
HeadWithoutReserved == 22

PACKET_HEAD_LENGTH == 26
WORDUNIT_SIZE == 36

(* What an int16 makes of a length.                                        *)
Int16(n) == ((n + MaxShort + 1) % (2 * MaxShort + 2)) - MaxShort - 1

-----------------------------------------------------------------------------
(* A value in so many bytes, and the value found in some bytes of a        *)
(* stream: Garbage unless they are all the bytes of one value. All values  *)
(* are integers, but for a compressed body; an empty text has no byte.     *)
Garbage == -1000
Empty == 0

ToBytes(value, size) == [k \in 1 .. size |-> [value |-> value, byte |-> k, of |-> size]]

Read(stream, at, size) ==
  LET bytes == SubSeq(stream, at + 1, at + size)
  IN  IF size = 0 THEN Empty
      ELSE IF /\ at + size <= Len(stream)
              /\ \A k \in 1 .. size : bytes[k].byte = k /\ bytes[k].of = size
              /\ \A k \in 1 .. size : bytes[k].value = bytes[1].value
      THEN bytes[1].value ELSE Garbage

(* The fields behind the head, each a value and its size: strings of fixed *)
(* size, numbers, and one text of any length.                              *)
Fields(fields) == FlattenSeq([k \in 1 .. Len(fields) |->
                                ToBytes(fields[k].value, fields[k].size)])
FieldsSize(fields) == Len(Fields(fields))

HeadStream(p, data_length) ==
  ToBytes(p.type, 1) \o ToBytes(p.signature, 2) \o ToBytes(p.operate_code, 2)
  \o ToBytes(data_length, 2) \o ToBytes(p.timestamp, 4) \o ToBytes(p.session_id, 8)
  \o ToBytes(p.reserved, 4)

-----------------------------------------------------------------------------
(* PacketStream: the length of the data. A word result is given eight more *)
(* bytes than it has fields.                                               *)
DataLength(p) ==
  Int16(CASE p.operate_code \in {USER_REGISTER, USER_LOGIN} -> 32 + 16
          [] p.operate_code = WORD_RESULT ->
               (Len(p.body) \div 2) * WORDUNIT_SIZE + 8
          [] p.operate_code \in {HEART_PACKET, WORD_RESULT_END} -> 0
          [] OTHER -> FieldsSize(p.body))

(* PacketStream: the body, in a buffer of the length of the packet, is     *)
(* compressed if the head says so; in front come the length that results   *)
(* and the flag. A packet of another code has no stream.                   *)
PacketLength(p) == Int16(DataLength(p) + PACKET_HEAD_LENGTH)

PacketStream(p) ==
  LET size == PacketLength(p) - 3
      fields == HeadStream(p, DataLength(p)) \o Fields(p.body)
      plain == fields \o ToBytes(Garbage, size - Len(fields))
      body == IF p.is_zip_encrypt = ZIP_AND_NOENCRYPT
              THEN ToBytes(plain, ZipLen(size)) ELSE plain
  IN  IF p.operate_code \in Codes
      THEN ToBytes(Len(body) + 3, 2) \o ToBytes(p.is_zip_encrypt, 1) \o body
      ELSE <<>>

(* Packets with room for their fields in the buffer; the length of a longer*)
(* one wraps around and the buffer is overrun.                             *)
Fits(p) == PacketLength(p) >= PACKET_HEAD_LENGTH + FieldsSize(p.body)

(* The packet of an unknown code: none.                                    *)
NoPacket == [operate_code |-> 0]

(* What ReadData counts besides the bytes it is asked for; the framework,  *)
(* and so the number, is not in the repository. The code takes it for one. *)
Extra == {0, 1}

(* UnpackStream: what is read for each code; the size of a text and the    *)
(* number of words follow from the length of the data.                     *)
ReadSizes(code, data_length) ==
  CASE code \in {USER_REGISTER, USER_LOGIN} -> <<32, 16>>
    [] code = WORD_SEGMENTER -> <<8, 32, data_length - 40>>
    [] code \in {ARTICLE_DIGEST_UNIT, ARTICLE_RESULT_DIGEST} -> <<4, data_length - 4>>
    [] code = ARTICLE_DIGEST_END -> <<4>>
    [] code = WORD_RESULT -> [k \in 1 .. 2 * (data_length \div WORDUNIT_SIZE) |->
                                IF k % 2 = 1 THEN 32 ELSE 4]
    [] code \in {HEART_PACKET, WORD_RESULT_END} -> <<>>

FixedString(code, k) ==
  \/ code \in {USER_REGISTER, USER_LOGIN}
  \/ code = WORD_SEGMENTER /\ k = 2
  \/ code = WORD_RESULT /\ k % 2 = 1

(* A string of a field of fixed size is ended by a zero where it is over,  *)
(* as far as the count goes, or behind the field. A string that is as long *)
(* as the field may lose its last byte.                                    *)
WithoutLast(value) == -value

Terminated(value, size, extra) ==
  LET len == Min({size + extra - 1, size})
  IN  IF len < size /\ value \in Full THEN WithoutLast(value) ELSE value

UnpackStream(stream, extra) ==
  LET zip == Read(stream, 2, 1)
      rest == SubSeq(stream, 4, Len(stream))
      body == IF zip = ZIP_AND_NOENCRYPT THEN Read(rest, 0, Len(rest)) ELSE rest
      code == Read(body, 3, 2)
      sizes == ReadSizes(code, Int16(Read(body, 5, 2)))
      at[k \in 1 .. Len(sizes) + 1] ==
        IF k = 1 THEN PACKET_HEAD_LENGTH - 3 ELSE at[k - 1] + sizes[k - 1]
      found(k) == Read(body, at[k], sizes[k])
  IN  IF code \notin Codes THEN NoPacket
      ELSE [is_zip_encrypt |-> zip,
            type |-> Read(body, 0, 1), signature |-> Read(body, 1, 2),
            operate_code |-> code, timestamp |-> Read(body, 7, 4),
            session_id |-> Read(body, 11, 8), reserved |-> Read(body, 19, 4),
            body |-> [k \in 1 .. Len(sizes) |->
                        [value |-> IF FixedString(code, k)
                                   THEN Terminated(found(k), sizes[k], extra) ELSE found(k),
                         size |-> sizes[k]]]]

-----------------------------------------------------------------------------
(* packet_processing.py: the head and the body of a request of the client. *)
RequestStream(p) ==
  ToBytes(PACKET_HEAD_LENGTH + FieldsSize(p.body), 2) \o ToBytes(p.is_zip_encrypt, 1)
  \o HeadStream(p, FieldsSize(p.body)) \o Fields(p.body)

(* unpackhead: the head of an answer, at fixed places.                     *)
UnpackHead(stream) ==
  [packet_length |-> Read(stream, 0, 2), operate_code |-> Read(stream, 6, 2),
   data_length |-> Read(stream, 8, 2)]
=============================================================================
