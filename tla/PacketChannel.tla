--------------------------- MODULE PacketChannel ---------------------------
(* Requests and answers between the client of build/mpl/test/python and    *)
(* the server. The bytes of the answers reach the client in pieces cut     *)
(* anywhere; NetData.net_wok (resolve.py) puts them together again and     *)
(* KIDBaseSchedulerClient.dataReceived (network.py) handles what it        *)
(* returns.                                                                *)
EXTENDS PacketCodec

CONSTANTS
  Requests,          \* the packets of the client
  Texts,             \* the words the segmenter may find in a text, one record each
  Digests,           \* the digests, or the text sent for none
  BaseNum,           \* the words of a batch: 40 in the code
  Now,               \* the time put into a head
  MaxPackets,        \* a bound on the requests
  Cuts               \* the places of a packet at which a piece may end

VARIABLES
  sent, asked,       \* requests as sent and as the server unpacked them
  answers,           \* the answers, in the order of sending
  received,          \* how many of their bytes reached the client
  unprocessed,       \* the bytes net_wok keeps
  delivered,         \* the packets net_wok returned
  digests,           \* the identifiers on_result_digest found in them
  due,               \* history: the answers net_wok should have returned
  lost               \* the connection broke: an exception in dataReceived

vars == <<sent, asked, answers, received, unprocessed, delivered, digests, due, lost>>

Init ==
  /\ sent = <<>> /\ asked = <<>> /\ answers = <<>>
  /\ received = 0 /\ unprocessed = <<>>
  /\ delivered = <<>> /\ digests = <<>>
  /\ due = <<>> /\ lost = FALSE

-----------------------------------------------------------------------------
MakeHead(code, type, zip, session, reserved, body) ==
  [is_zip_encrypt |-> zip, type |-> type, signature |-> 0, operate_code |-> code,
   timestamp |-> Now, session_id |-> session, reserved |-> reserved, body |-> body]

(* OnSegmentWord: the words in batches; the last one may be smaller, and   *)
(* for a text without words there is none.                                 *)
WordResults(q, words) ==
  LET batch(k) == SubSeq(words, (k - 1) * BaseNum + 1, Min({k * BaseNum, Len(words)}))
  IN  [k \in 1 .. (Len(words) + BaseNum - 1) \div BaseNum |->
         MakeHead(WORD_RESULT, 0, 0, 0, q.reserved, FlattenSeq(batch(k)))]

(* OnSegmentEnd: the head goes back; send_headmsg is given reserved and    *)
(* session_id in the other order.                                          *)
EndResult(q) ==
  <<MakeHead(WORD_RESULT_END, q.type, q.is_zip_encrypt, q.reserved, q.session_id, <<>>)>>

(* SendDigest: the digest of the article, as far as it fits into a packet. *)
DigestResult(q, digest) ==
  <<MakeHead(ARTICLE_RESULT_DIGEST, 0, 0, 0, 0, <<q.body[1], digest>>)>>

(* OnSegmenterMessage and OnDigestMessage: what a request is answered; of  *)
(* an unknown code there is no packet, and no answer.                      *)
Replies(q) ==
  CASE q.operate_code = WORD_SEGMENTER -> {WordResults(q, words) : words \in Texts}
    [] q.operate_code = WORD_RESULT_END -> {EndResult(q)}
    [] q.operate_code = ARTICLE_DIGEST_END -> {DigestResult(q, digest) : digest \in Digests}
    [] OTHER -> {<<>>}

(* A request reaches the server whole (core.so cuts the stream), is        *)
(* unpacked and answered.                                                  *)
Request(p) ==
  /\ ~lost /\ Len(sent) < MaxPackets /\ Fits(p)
  /\ sent' = Append(sent, p)
  /\ \E extra \in Extra :
       LET q == UnpackStream(RequestStream(p), extra)
       IN  /\ asked' = Append(asked, q)
           /\ \E rs \in Replies(q) :
                /\ \A k \in DOMAIN rs : Fits(rs[k])
                /\ answers' = answers \o rs
  /\ UNCHANGED <<received, unprocessed, delivered, digests, due, lost>>

-----------------------------------------------------------------------------
\* the loop ends with the first whole packet
CutFirst(alldata) ==
  IF Len(alldata) < 2 THEN [result |-> "unbound", offset |-> 0, packet |-> <<>>]
  ELSE LET end == Read(alldata, 0, 2)
       IN  IF Len(alldata) < end THEN [result |-> "partial", offset |-> 0, packet |-> <<>>]
           ELSE [result |-> "packet", offset |-> end, packet |-> SubSeq(alldata, 1, end)]

\* the rest is thrown away with a whole packet
CutForgets(alldata) ==
  LET cut == CutFirst(alldata)
  IN  [cut EXCEPT !.offset = IF cut.result = "packet" THEN Len(alldata) ELSE @]

\* the rest starts with the packet returned
CutKeeps(alldata) == [CutFirst(alldata) EXCEPT !.offset = 0]

(* net_wok: packets are cut off as long as one is complete. The packet     *)
(* returned is the last one cut off, or none if the length of another one  *)
(* follows; with less than two bytes in all, packet is never bound.        *)
CutOff(alldata) ==
  LET cut[o \in 0 .. Len(alldata)] ==
        LET end == o + Read(alldata, o, 2)
        IN  IF Len(alldata) < o + 2
            THEN [result |-> "unbound", offset |-> o, packet |-> <<>>]
            ELSE IF Len(alldata) < end
            THEN [result |-> "partial", offset |-> o, packet |-> <<>>]
            ELSE IF cut[end].result = "unbound"
            THEN [result |-> "packet", offset |-> end,
                  packet |-> SubSeq(alldata, o + 1, end)]
            ELSE cut[end]
  IN  cut[0]

(* dataReceived: the packet is dropped unless its lengths agree and it has *)
(* data; a digest is handed on.                                            *)
IsDigest(packet) ==
  LET head == UnpackHead(packet)
  IN  /\ head.packet_length - PACKET_HEAD_LENGTH = head.data_length
      /\ head.packet_length > PACKET_HEAD_LENGTH
      /\ head.operate_code = ARTICLE_RESULT_DIGEST

(* on_result_digest is given the piece, not the packet, and reads from     *)
(* byte 16 on; it raises when the piece is too short for the length it     *)
(* finds, which may be anything when the piece does not start a packet.    *)
DigestFound(data) == Read(data, 16, 4)
Raises(data) ==
  LET length == Read(data, 8, 2)
  IN  IF length = Garbage THEN {TRUE, Len(data) < 20}
      ELSE {Len(data) < 20 + length}

(* The answer a piece ending after n bytes completes: it ends there or one *)
(* byte earlier.                                                           *)
EndOf(k) == FoldLeft(LAMBDA n, q : n + Len(PacketStream(q)), 0, SubSeq(answers, 1, k))
Completed(n) == {k \in DOMAIN answers : EndOf(k) > received /\ EndOf(k) \in {n - 1, n}}

Stream == FlattenSeq([k \in DOMAIN answers |-> PacketStream(answers[k])])
PieceEnds == {EndOf(k) + c : k \in 0 .. Len(answers), c \in Cuts}

Receive(n) ==
  /\ ~lost /\ n \in received + 1 .. Len(Stream)
  /\ received' = n
  /\ LET data == SubSeq(Stream, received + 1, n)
         alldata == unprocessed \o data
         cut == CutOff(alldata)
     IN  /\ unprocessed' = SubSeq(alldata, cut.offset + 1, Len(alldata))
         /\ delivered' = IF cut.result = "packet" THEN Append(delivered, cut.packet)
                         ELSE delivered
         /\ IF cut.result = "packet" /\ IsDigest(cut.packet)
            THEN /\ digests' = Append(digests, DigestFound(data))
                 /\ lost' \in Raises(data)
            ELSE /\ lost' = (cut.result = "unbound")
                 /\ UNCHANGED digests
  /\ due' = due \o SetToSeq({answers[k] : k \in Completed(n)})
  /\ UNCHANGED <<sent, asked, answers>>

Next ==
  \/ \E p \in Requests : Request(p)
  \/ \E n \in PieceEnds : Receive(n)

Spec == Init /\ [][Next]_vars

-----------------------------------------------------------------------------
(* The type invariant: of the packets on both sides and of what the client *)
(* has (ptl_packet.cc, resolve.py).                                        *)
TypeOK ==
  /\ Len(sent) <= MaxPackets /\ Len(asked) = Len(sent)
  /\ \A k \in DOMAIN sent : sent[k] \in Requests /\ asked[k].operate_code \in Codes \cup {0}
  /\ \A k \in DOMAIN answers : answers[k].operate_code \in Codes /\ Fits(answers[k])
  /\ received \in 0 .. Len(Stream)
  /\ Len(delivered) <= Len(answers) /\ Len(digests) <= Len(delivered)
  /\ lost \in BOOLEAN

(* What a packet may have lost on its way: the last byte of a string that  *)
(* fills its field.                                                        *)
Same(p, q) ==
  /\ Len(q.body) = Len(p.body) /\ q = [p EXCEPT !.body = q.body]
  /\ \A k \in DOMAIN p.body :
       \/ q.body[k] = p.body[k]
       \/ /\ FixedString(p.operate_code, k) /\ p.body[k].value \in Full
          /\ q.body[k] = [p.body[k] EXCEPT !.value = WithoutLast(@)]

(* UnpackStream (ptl_packet.cc:160) finds in the bytes of a packet of      *)
(* every kind that fits what was put in, whether the client packed it or   *)
(* PacketStream, compressed or not, up to the greatest length. A string    *)
(* that fills its field loses its last byte at most, and nothing if        *)
(* ReadData counts one byte more than there are.                           *)
PacketsRead ==
  /\ \A k \in DOMAIN sent :
       IF sent[k].operate_code \in Codes THEN Same(sent[k], asked[k])
       ELSE asked[k] = NoPacket
  /\ \A p \in {r \in Range(sent) \cup Range(answers) : r.operate_code \in Codes},
        zip \in {0, ZIP_AND_NOENCRYPT}, extra \in Extra :
       LET r == [p EXCEPT !.is_zip_encrypt = zip]
           q == UnpackStream(PacketStream(r), extra)
       IN  Same(r, q) /\ (extra = 1 => q = r)

(* net_wok (resolve.py:23) never loses its place in the stream: what it    *)
(* keeps is all that was received behind the last whole answer, however    *)
(* the bytes were cut.                                                     *)
InStep ==
  LET whole == {EndOf(k) : k \in 0 .. Len(answers)} \cap 0 .. received
      last == CHOOSE n \in whole : \A o \in whole : o <= n
  IN  unprocessed = SubSeq(Stream, last + 1, received)

(* The client gets an answer, byte for byte, just when a piece ends with   *)
(* it or one byte behind it (resolve.py:23-48): others are dropped.        *)
DeliveredExact == delivered = [k \in DOMAIN due |-> PacketStream(due[k])]

(* The client keeps in step with the stream and gets the answers that are  *)
(* due, however the bytes come in.                                         *)
AnswersExact == InStep /\ DeliveredExact

(* network.py:90 hands digests on, and packet_processing.py:118 says where *)
(* their body starts: the identifier is that of the digest.                *)
DigestsRead ==
  \A k \in DOMAIN digests : \E r \in Range(answers) :
    r.operate_code = ARTICLE_RESULT_DIGEST /\ digests[k] = r.body[1].value
=============================================================================
