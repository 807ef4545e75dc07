----------------------------- MODULE B85Decode -----------------------------
(***************************************************************************)
(* src/python/get-pip.py, lines 40-77: the b85decode of the script itself, *)
(* for a Python whose base64 has none. It turns groups of Group characters *)
(* into words of Word bytes (5 and 4 there; 85 characters, 256 bytes) and  *)
(* names the place of the first error.                                     *)
(*                                                                         *)
(* A character is its number in the alphabet, or Bad.                      *)
(***************************************************************************)
EXTENDS Integers, Sequences, FiniteSetsExt

CONSTANTS
    Alpha, Byte,    \* how many characters and how many bytes there are
    Group, Word,    \* characters and bytes of a group
    Bad,            \* a character that is not in the alphabet
    Contents,       \* what is encoded
    Texts           \* what is decoded

Power(base, n) ==
    LET power[k \in Nat] == IF k = 0 THEN 1 ELSE base * power[k - 1] IN power[n]

(* A group holds a word, and a character no more than a byte.              *)
ASSUME B85Assumption ==
    /\ {Alpha, Byte, Group, Word} \subseteq Nat \ {0}
    /\ Word <= Group /\ Alpha <= Byte /\ Power(Alpha, Group) >= Power(Byte, Word)
    /\ Bad \notin Nat

Digits == 0..Alpha - 1
Bytes  == 0..Byte - 1

ASSUME InputsAssumption == Contents \subseteq Seq(Bytes) /\ Texts \subseteq Seq(Digits \cup {Bad})

(* acc after each turn of the inner loop, and after the last.              *)
Values(digits, base) ==
    LET acc[k \in 0..Len(digits)] == IF k = 0 THEN 0 ELSE acc[k - 1] * base + digits[k]
    IN  acc
Value(digits, base) == Values(digits, base)[Len(digits)]

Places(v, base, count) == [k \in 1..count |-> (v \div Power(base, count - k)) % base]
Piece(s, k, size)      == [j \in 1..size |-> s[(k - 1) * size + j]]

NoError == [what |-> "none", at |-> 0]

Position(i, bad) == i + Min(bad) - 1

(* One turn of the loop, for the chunk k of b. An exception ends the loop: *)
(* TypeError, since None has no product, and struct.error, when the group  *)
(* is more than a word.                                                    *)
DecodeChunk(b, so_far, k) ==
    LET chunk == Piece(b, k, Group)
        i     == (k - 1) * Group
        bad   == {j \in 1..Group : chunk[j] = Bad}
    IN  IF so_far.error # NoError THEN so_far
        ELSE IF bad # {} THEN [so_far EXCEPT !.error = [what |-> "bad", at |-> Position(i, bad)]]
        ELSE IF Value(chunk, Alpha) >= Power(Byte, Word)
             THEN [so_far EXCEPT !.error = [what |-> "overflow", at |-> i]]
        ELSE [so_far EXCEPT !.out = @ \o Places(Value(chunk, Alpha), Byte, Word)]

(* What the loop has after each turn.                                      *)
Turns(b) ==
    LET so_far[k \in 0..Len(b) \div Group] ==
            IF k = 0 THEN [out |-> <<>>, error |-> NoError] ELSE DecodeChunk(b, so_far[k - 1], k)
    IN  so_far

(* The text is filled up with '~', the highest digit; the bytes that came  *)
(* from the filling are cut off.                                           *)
Padding(text) == (-Len(text)) % Group

Padded(text) == text \o [k \in 1..Padding(text) |-> Alpha - 1]

(* Seeded fault: the bytes of the filling stay.                            *)
b85decodeUncut(text) == Turns(Padded(text))[Len(Padded(text)) \div Group]

b85decode(text) ==
    LET b == Padded(text)
        result == Turns(b)[Len(b) \div Group]
    IN  [result EXCEPT !.out = SubSeq(@, 1, Len(@) - Padding(text))]

-----------------------------------------------------------------------------
(* The encoding, for reference: the bytes are filled up with zeros to full *)
(* words, and as many characters are dropped in the end.                   *)
Fill(bytes) == (-Len(bytes)) % Word
Full(bytes) == bytes \o [k \in 1..Fill(bytes) |-> 0]

EncodeWord(word) == Places(Value(word, Byte), Alpha, Group)

Encode(bytes) ==
    [j \in 1..(Len(Full(bytes)) \div Word) * Group - Fill(bytes) |->
       EncodeWord(Piece(Full(bytes), ((j - 1) \div Group) + 1, Word))[((j - 1) % Group) + 1]]

(* What was encoded is decoded, whatever its length is, without an error   *)
(* (lines 51-77).                                                          *)
UndoesEncoding ==
    \A bytes \in Contents : b85decode(Encode(bytes)) = [out |-> bytes, error |-> NoError]

(* The group at place s of a text, its missing characters taken for the    *)
(* highest digit, is a word.                                               *)
BadIn(text, s) == \E k \in s + 1..s + Group : k <= Len(text) /\ text[k] = Bad
GroupAt(text, s) ==
    [k \in 1..Group |-> IF s + k <= Len(text) THEN text[s + k] ELSE Alpha - 1]
Sound(text, s) ==
    /\ ~BadIn(text, s)
    /\ Value(GroupAt(text, s), Alpha) < Power(Byte, Word)

(* The error is the first one, at its place in the text: a character that  *)
(* is not in the alphabet, or the group whose value no word holds; and     *)
(* what has an error is not decoded (lines 58-72).                         *)
FirstError ==
    \A text \in Texts :
        LET starts == {s \in 0..Len(text) - 1 : s % Group = 0}
            error  == b85decode(text).error
        IN  IF error = NoError THEN \A s \in starts : Sound(text, s)
            ELSE \E s \in starts :
                   /\ \A t \in starts : t < s => Sound(text, t)
                   /\ \/ /\ error.what = "bad" /\ s <= error.at /\ error.at < s + Group
                         /\ text[error.at + 1] = Bad
                         /\ \A k \in 1..error.at : text[k] # Bad
                      \/ /\ error = [what |-> "overflow", at |-> s]
                         /\ ~BadIn(text, s) /\ ~Sound(text, s)
=============================================================================
