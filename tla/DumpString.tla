----------------------------- MODULE DumpString -----------------------------
(***************************************************************************)
(* The label encoding of the wallet dump file (src/wallet/rpcdump.cpp):    *)
(* dumpwallet writes an address-book label as the token                    *)
(* "label=" \o EncodeDumpString(name), and importwallet, which splits each *)
(* line at spaces, reads it back with DecodeDumpString.  A string is a     *)
(* sequence of bytes 0..255.                                               *)
(***************************************************************************)
EXTENDS Integers, Sequences, SequencesExt, Bitwise

PERCENT == 37   \* '%'
ZERO    == 48   \* '0'

\* HexStr of one byte: two lowercase hex digits
HexDigit(n) == IF n < 10 THEN ZERO + n ELSE 87 + n
HexByte(b) == <<HexDigit(b \div 16), HexDigit(b % 16)>>

\* (variant: the space is written as itself)
EncodeByteSpaceKept(c) == IF c < 32 \/ c >= 128 \/ c = PERCENT
                            THEN <<PERCENT>> \o HexByte(c)
                            ELSE <<c>>

\* EncodeDumpString, one byte: control bytes, the space, bytes >= 128 and
\* '%' are written as '%' and their hex; every other byte as itself
EncodeByte(c) == IF c <= 32 \/ c >= 128 \/ c = PERCENT
                   THEN <<PERCENT>> \o HexByte(c)
                   ELSE <<c>>

EncodeDumpString(str) == FlattenSeq([i \in DOMAIN str |-> EncodeByte(str[i])])

\* str[pos] is a (signed) char; >> of a negative value is arithmetic
SignedChar(c) == IF c >= 128 THEN c - 256 ELSE c

\* the nibble DecodeDumpString computes from one hex digit:
\* (ch >> 6) * 9 + ((ch - '0') & 15)
Nibble(c) == (SignedChar(c) \div 64) * 9 + ((SignedChar(c) - ZERO) % 16)

\* the decoding loop from 0-based position pos: '%' followed by two more
\* bytes (pos + 2 < length) is one byte, (hi << 4) | lo cut to an unsigned
\* char (the low 8 bits of an or are the or of the low 8 bits); any other
\* byte, a '%' near the end included, is copied
RECURSIVE DecodeFrom(_, _)
DecodeFrom(str, pos) ==
    IF pos >= Len(str) THEN <<>>
    ELSE IF str[pos + 1] = PERCENT /\ pos + 2 < Len(str)
      THEN <<((Nibble(str[pos + 2]) * 16) % 256) | (Nibble(str[pos + 3]) % 256)>>
             \o DecodeFrom(str, pos + 3)
      ELSE <<str[pos + 1]>> \o DecodeFrom(str, pos + 1)

DecodeDumpString(str) == DecodeFrom(str, 0)

\* the bytes std::getline (newline) and boost::split (space) end a token at
Separators == {10, 32}

\* the part of the text after "label=" that importwallet's token holds: up
\* to the first separator (what follows it is read as further tokens or
\* lines, not as the label)
LabelToken(text) ==
    LET cut == SelectInSeq(text, LAMBDA b : b \in Separators)
    IN  IF cut = 0 THEN text ELSE SubSeq(text, 1, cut - 1)

=============================================================================
