------------------------------- MODULE BleFrames -------------------------------
(***************************************************************************)
(* The wire format of ble.py: frames, their tag-length-value payloads and  *)
(* the motor's own frame, over sequences of bytes.  The width of two       *)
(* length fields depends on the gate's software version.                   *)
(*                                                                         *)
(* The cipher is external: an addition stands for AES-CBC, with the same   *)
(* padding to a Block, so that only the right key gives the text back.     *)
(***************************************************************************)
EXTENDS Integers, SequencesExt

CMD_COMMON_REPLY == 257
CMD_SEND_TRANSPORT == 1282
CMD_LOCAL_AUTH_PUBKEY == 8199
CMD_LOCAL_AUTH_CHECK == 8200

\* n.to_bytes(width, "little"), for the widths of the format: one and two.
Little(n, width) == IF width = 1 THEN <<n % 256>> ELSE <<n % 256, (n \div 256) % 256>>

\* int.from_bytes(bytes, "little")
FromLittle(bytes) ==
    LET value[i \in 1..Len(bytes) + 1] ==
            IF i > Len(bytes) THEN 0 ELSE bytes[i] + 256 * value[i + 1]
    IN  value[1]

Checksum(bytes) ==
    LET sum[i \in 0..Len(bytes)] == IF i = 0 THEN 0 ELSE (sum[i - 1] + bytes[i]) % 256
    IN  sum[Len(bytes)]

------------------------------------------------------------------------------
(* The cipher                                                               *)

NoKey == -1
Block == 4

Encrypt(key, plain) ==
    LET pad == Block - (Len(plain) % Block)
        padded == plain \o [i \in 1..pad |-> pad]
    IN  [i \in DOMAIN padded |-> (padded[i] + key) % 256]

\* The text, or nothing if it was not encrypted with this key.
Decrypt(key, cipher) ==
    LET padded == [i \in DOMAIN cipher |-> (cipher[i] - key) % 256]
        pad == IF cipher = <<>> THEN 0 ELSE Last(padded)
    IN  IF /\ Len(cipher) % Block = 0 /\ pad \in 1..Block
           /\ \A i \in Len(cipher) - pad + 1..Len(cipher) : padded[i] = pad
        THEN SubSeq(padded, 1, Len(cipher) - pad) ELSE <<>>

------------------------------------------------------------------------------
(* Tag, length, value                                                       *)

TlvWidth(soft) == IF soft = 4 THEN 2 ELSE 1

\* _make_tlv
MakeTlv(kind, value, soft) == <<kind>> \o Little(Len(value), TlvWidth(soft)) \o value

NoFields == <<>>
Truncated == [kind \in {-1} |-> <<>>]

\* The fields with one more, unless there is one of this kind already.
WithField(fields, kind, value) ==
    [k \in DOMAIN fields \cup {kind} |-> IF k \in DOMAIN fields THEN fields[k] ELSE value]

\* _parse_tlvs: the fields by their tag, a later one before an earlier one of the same tag,
\* without the empty ones.
ParseTlvs(data, soft) ==
    LET width == TlvWidth(soft)
        from[cursor \in 0..Len(data)] ==
            IF cursor = Len(data) THEN NoFields
            ELSE IF cursor + 1 + width > Len(data) THEN Truncated
            ELSE LET start == cursor + 1 + width
                     length == FromLittle(SubSeq(data, cursor + 2, start))
                     rest == from[start + length]
                 IN  IF start + length > Len(data) THEN Truncated
                     ELSE IF rest = Truncated \/ length = 0 THEN rest
                     ELSE WithField(rest, data[cursor + 1],
                                    SubSeq(data, start + 1, start + length))
    IN  from[0]

Field(fields, kind) == IF kind \in DOMAIN fields THEN fields[kind] ELSE <<>>

\* _little_int
LittleInt(value, default) == IF value = <<>> THEN default ELSE FromLittle(value)

------------------------------------------------------------------------------
(* Frames                                                                   *)

LengthWidth(soft) == IF soft > 2 THEN 2 ELSE 1

Header == <<170, 85>>

\* _build_frame for one width of the length field only (a mutation).
BuildShortFrame(command, payload, sequence, soft, key) ==
    LET plain == Little(command, 2) \o payload
        body == <<0, IF key = NoKey THEN 0 ELSE 1, sequence % 256>>
                    \o (IF key = NoKey THEN plain ELSE Encrypt(key, plain))
        partial == Header \o <<Len(body) + 1>> \o body
    IN  Append(partial, Checksum(SubSeq(partial, 4, Len(partial))))

\* _build_frame
BuildFrame(command, payload, sequence, soft, key) ==
    LET plain == Little(command, 2) \o payload
        body == <<0, IF key = NoKey THEN 0 ELSE 1, sequence % 256>>
                    \o (IF key = NoKey THEN plain ELSE Encrypt(key, plain))
        partial == Header \o Little(Len(body) + 1, LengthWidth(soft)) \o body
    IN  Append(partial, Checksum(SubSeq(partial, 4, Len(partial))))

Unreadable == [command |-> -1, payload |-> <<>>]

\* The text of a frame from its control bytes on.
Opened(control, key) ==
    LET text == SubSeq(control, 4, Len(control))
    IN  IF control[2] % 2 = 0 THEN text
        ELSE IF key = NoKey THEN <<>> ELSE Decrypt(key, text)

Parsed(text) ==
    IF Len(text) < 2 THEN Unreadable
    ELSE [command |-> FromLittle(SubSeq(text, 1, 2)), payload |-> SubSeq(text, 3, Len(text))]

\* _parse_frame without the checksum (a mutation).
ParseFrameUnsummed(data, soft, key) ==
    LET width == LengthWidth(soft) IN
    IF \/ Len(data) < 9 \/ SubSeq(data, 1, 2) # Header
       \/ Len(data) # FromLittle(SubSeq(data, 3, 2 + width)) + 2 + width
       \/ data[3 + width] >= 128
    THEN Unreadable
    ELSE Parsed(Opened(SubSeq(data, 3 + width, Len(data) - 1), key))

\* _parse_frame; a fragmented frame, which async_request turns down, is unreadable as well.
ParseFrame(data, soft, key) ==
    LET width == LengthWidth(soft) IN
    IF \/ Len(data) < 9 \/ SubSeq(data, 1, 2) # Header
       \/ Len(data) # FromLittle(SubSeq(data, 3, 2 + width)) + 2 + width
       \/ Last(data) # Checksum(SubSeq(data, 4, Len(data) - 1))
       \/ data[3 + width] >= 128
    THEN Unreadable
    ELSE Parsed(Opened(SubSeq(data, 3 + width, Len(data) - 1), key))

------------------------------------------------------------------------------
(* The motor                                                                *)

ActionValue == [open |-> 100, pause |-> 255, close |-> 0]

\* _build_motor_frame
BuildMotorFrame(action) ==
    LET payload == <<26, 39, 1, 0, 0, ActionValue[action]>>
        frame == <<170, 16, 2, 0>> \o Little(Len(payload) + 2, 2) \o Little(0, 2) \o payload
    IN  frame \o <<Checksum(SubSeq(frame, 3, Len(frame))), 0>>

\* _validate_motor_response
ValidMotorResponse(data) ==
    /\ Len(data) >= 14 /\ SubSeq(data, 1, 2) = <<170, 16>>
    /\ SubSeq(data, 9, 11) = <<26, 39, 2>>
    /\ SubSeq(data, 12, 14) = <<0, 0, 0>>
==============================================================================
