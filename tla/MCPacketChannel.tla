-------------------------- MODULE MCPacketChannel --------------------------
(* The requests of every kind and of an unknown one; the longest are of    *)
(* exactly MaxShort bytes or one more. Users, tokens and words come as     *)
(* short strings and as strings that fill their field.                     *)
EXTENDS PacketChannel

Packet(code, body) ==
  [is_zip_encrypt |-> 0, type |-> 1, signature |-> 2, operate_code |-> code,
   timestamp |-> 3, session_id |-> 4, reserved |-> 5, body |-> body]
Field(value, size) == [value |-> value, size |-> size]
Word(value) == <<Field(value, 32), Field(7, 4)>>

MCFull == {21, 22, 23, 24}

MCRequests ==
  {Packet(WORD_SEGMENTER, <<Field(10, 8), Field(token, 32), Field(12, 8)>>) : token \in {11, 21}}
  \cup {Packet(WORD_SEGMENTER, <<Field(10, 8), Field(11, 32), Field(Empty, 0)>>),
        Packet(WORD_RESULT_END, <<>>),
        Packet(USER_LOGIN, <<Field(22, 32), Field(14, 16)>>),
        Packet(USER_REGISTER, <<Field(13, 32), Field(23, 16)>>),
        Packet(ARTICLE_DIGEST_UNIT, <<Field(15, 4), Field(16, 80)>>),
        Packet(ARTICLE_DIGEST_UNIT, <<Field(15, 4), Field(16, 81)>>),
        Packet(ARTICLE_DIGEST_END, <<Field(15, 4)>>),
        Packet(HEART_PACKET, <<>>),
        Packet(4000, <<>>)}

MCTexts == {<<>>, <<Word(17)>>, <<Word(17), Word(24), Word(18)>>}
MCDigests == {Field(19, 3)}

MCZipLen(n) == (n + 1) \div 2
MCCuts == {0, 1, 2, 12, 24}
=============================================================================
