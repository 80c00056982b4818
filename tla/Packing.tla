------------------------------ MODULE Packing ------------------------------
(***************************************************************************)
(* The transport format of encrypted data, and the little functions on     *)
(* byte arrays: pack.encode, pack.decode and util of                       *)
(* EmmaStreamingSolution/src/www/js/lib/simplecrypto.js.                   *)
(*                                                                         *)
(* A buffer is a sequence of bytes.  The bytes of an item are abstract:    *)
(* an item is [label, data], data any sequence.  ByteBase is 256 in the    *)
(* code; a small base makes small numbers cross byte boundaries.           *)
(***************************************************************************)
EXTENDS Integers, Sequences, SequencesExt

CONSTANT ByteBase
ASSUME ByteBaseAssumption == ByteBase \in Nat \ {0, 1}

----------------------------------------------------------------------------
\* util.uint32toBuffer writes the low byte first, the DataView of pack the
\* high byte first.  Numbers from 2^31 on, which << makes negative, do not
\* occur: the library writes lengths and iteration counts only.
Weight == <<1, ByteBase, ByteBase * ByteBase, ByteBase * ByteBase * ByteBase>>
uint32toBuffer(n) == [i \in 1..4 |-> (n \div Weight[i]) % ByteBase]
bufferToUint32(b) ==
    b[1] + b[2] * Weight[2] + b[3] * Weight[3] + b[4] * Weight[4]

setUint32(n) == Reverse(uint32toBuffer(n))
\* Mutant: the size is read low byte first.
MutGetUint32Little(b) == bufferToUint32(b)
getUint32(b) == bufferToUint32(Reverse(b))

----------------------------------------------------------------------------
VERSION == 1
LABEL_TO_INDEX ==
    [aesEncrypted |-> 0, hmac |-> 1, rsaEncrypted |-> 10,
     signatureOfData |-> 20, signatureOfEncrypted |-> 21,
     pbkdf2_iter |-> 30, pbkdf2_salt |-> 31, mimeType |-> 40]
INDEX_TO_LABEL == AntiFunction(LABEL_TO_INDEX)

\* An item is one byte of label, four of size and its data.
Block(item) ==
    <<LABEL_TO_INDEX[item.label]>> \o setUint32(Len(item.data)) \o item.data

\* The buffer of a sequence of items, one after another.  encode throws for a
\* label that is none of the format's or a value that is no ArrayBuffer; an
\* item has neither.
encode(items) ==
    LET packed[i \in 0..Len(items)] ==
            IF i = 0 THEN <<VERSION>> ELSE packed[i - 1] \o Block(items[i])
    IN  packed[Len(items)]

Throws == [ok |-> FALSE, items |-> << >>]
\* The header and the item behind the first o bytes.
SizeAt(buffer, o) == getUint32(SubSeq(buffer, o + 2, o + 5))
ItemAt(buffer, o) ==
    [label |-> INDEX_TO_LABEL[buffer[o + 1]],
     data  |-> SubSeq(buffer, o + 6, o + 5 + SizeAt(buffer, o))]

\* The items of a buffer.  The version is read and not looked at.  A header
\* or an item that reaches beyond the buffer throws, the item in either of two
\* places: the size test, which is too lax by ten, or the typed array.
decode(buffer) ==
    LET n == Len(buffer)
        from[o \in 0..n] ==
            IF o = n THEN [ok |-> TRUE, items |-> << >>]
            ELSE IF o + 5 > n THEN Throws
            ELSE LET size == SizeAt(buffer, o)
                 IN  IF size > n - o + 5 \/ size \notin 0..(n - o - 5)
                     THEN Throws
                     ELSE LET rest == from[o + 5 + size]
                          IN  [ok |-> rest.ok,
                               items |-> <<ItemAt(buffer, o)>> \o rest.items]
    IN  IF n = 0 THEN Throws ELSE from[1]
=============================================================================
