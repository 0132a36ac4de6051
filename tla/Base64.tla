------------------------------- MODULE Base64 -------------------------------
(***************************************************************************)
(* ov::Base64 (base/ovcrypto/base_64.cpp): Encode and Decode through an    *)
(* OpenSSL base64 BIO with BIO_FLAGS_BASE64_NO_NL.                         *)
(*                                                                         *)
(* Data is a sequence of bytes (0..255).  A text is a sequence of symbols: *)
(* the index (0..63) of a character in the base64 alphabet, or Pad for     *)
(* '='.  The BIO encodes three bytes as four symbols and pads the last     *)
(* quantum; that is what EncodeQuantum and DecodeQuantum do.  A BIO_write  *)
(* or BIO_read on a memory BIO never asks for a retry, so the retry loops  *)
(* (lines 34-60, 113-136) end at their first call.                         *)
(***************************************************************************)
EXTENDS Naturals, Sequences, SequencesExt

Pad == 64

\* Decode's result: the Data, or nullptr.
Result(ok, data) == [ok |-> ok, data |-> data]
NullData == Result(FALSE, <<>>)

-----------------------------------------------------------------------------

\* One quantum of one to three bytes: their 24 bits, zero-filled, cut into
\* four 6-bit symbols of which those covering a byte are kept; the rest is
\* padding.
EncodeQuantum(g) ==
    LET n == Len(g)
        v == g[1] * 2^16 + (IF n >= 2 THEN g[2] * 2^8 ELSE 0) + (IF n = 3 THEN g[3] ELSE 0)
    IN [k \in 1..4 |-> IF k <= n + 1 THEN (v \div 64^(4 - k)) % 64 ELSE Pad]

\* The BIO_write and BIO_flush of lines 36 and 66: every quantum in turn.
RECURSIVE EncodeQuanta(_)
EncodeQuanta(d) ==
    IF d = <<>> THEN <<>>
    ELSE LET n == IF Len(d) < 3 THEN Len(d) ELSE 3
         IN EncodeQuantum(SubSeq(d, 1, n)) \o EncodeQuanta(SubSeq(d, n + 1, Len(d)))

\* Encode (lines 18-87): "" for empty data, else the text the memory BIO
\* holds after the flush.
Encode(d) == IF d = <<>> THEN <<>> ELSE EncodeQuanta(d)

\* One quantum of four symbols: the bytes its non-padding symbols cover.
DecodeQuantum(q) ==
    LET n == Len(SelectSeq(q, LAMBDA c : c # Pad))
        v == (IF q[1] = Pad THEN 0 ELSE q[1]) * 64^3 + (IF q[2] = Pad THEN 0 ELSE q[2]) * 64^2
             + (IF q[3] = Pad THEN 0 ELSE q[3]) * 64 + (IF q[4] = Pad THEN 0 ELSE q[4])
    IN [i \in 1..(n - 1) |-> (v \div 2^(8 * (3 - i))) % 256]

\* The BIO_read of line 115 into a buffer of Len(text) + 1 bytes, which
\* holds every decoded byte: the texts decoded here are whole quanta.
RECURSIVE DecodeQuanta(_)
DecodeQuanta(t) ==
    IF Len(t) < 4 THEN <<>>
    ELSE DecodeQuantum(SubSeq(t, 1, 4)) \o DecodeQuanta(SubSeq(t, 5, Len(t)))

\* Decode (lines 89-150): nullptr for an empty text, and nullptr when the
\* read yields no byte (result <= 0, line 140).
Decode(t) ==
    IF t = <<>> THEN NullData
    ELSE LET d == DecodeQuanta(t)
         IN IF d = <<>> THEN NullData ELSE Result(TRUE, d)
=============================================================================
