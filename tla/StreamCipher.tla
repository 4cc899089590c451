----------------------------- MODULE StreamCipher -----------------------------
(***************************************************************************)
(* The cipher of clib/crc4.cpp and its pair of keys, clib/ccrypto.cpp: one *)
(* side encrypts a stream in pieces, the other decrypts it, in other       *)
(* pieces, with a cRC4 given the same key.                                 *)
(***************************************************************************)
EXTENDS Integers, Sequences

CONSTANTS
    DataSize,       \* length of m_data, 256 in the code; bytes are below it
    XorByte(_, _),  \* ^ of two bytes
    KeyTexts,       \* keys, sequences of bytes
    MaxStream,      \* bound: bytes of a stream
    MaxPiece        \* bound: bytes of a call

\* unsigned char
Bytes == 0 .. DataSize - 1

ASSUME CipherAssumption ==
    /\ DataSize \in Nat \ {0} /\ MaxStream \in Nat /\ MaxPiece \in Nat
    /\ KeyTexts \subseteq Seq(Bytes) \ {<<>>}

ASSUME XorAssumption ==
    \A a, b \in Bytes : XorByte(a, b) \in Bytes /\ XorByte(XorByte(a, b), b) = a

VARIABLES
    encrypting,  \* m_encrypt_key of one side: m_data, m_x, m_y
    decrypting,  \* m_decrypt_key of the other
    plain,       \* history: what was encrypted
    under,       \* encrypted bytes that are not yet decrypted
    read         \* history: what was decrypted

cipherVars == <<encrypting, decrypting, plain, under, read>>

Swapped(data, i, j) == [data EXCEPT ![i] = data[j], ![j] = data[i]]

\* set_key(): one round of its loop, which i counts
Mixed(s, i, key) ==
    LET j == (s.y + s.data[i] + key[(i % Len(key)) + 1]) % DataSize
    IN  [data |-> Swapped(s.data, i, j), y |-> j]

WithKey(key) ==
    LET mixed[n \in 0 .. DataSize] ==
          IF n = 0 THEN [data |-> [i \in Bytes |-> i], y |-> 0]
          ELSE Mixed(mixed[n - 1], n - 1, key)
    IN  [data |-> mixed[DataSize].data, x |-> 0, y |-> 0]

\* process(): what a byte does to the key stream, whichever byte it is
Stepped(rc4) ==
    LET i == (rc4.x + 1) % DataSize
        j == (rc4.y + rc4.data[i]) % DataSize
    IN  [data |-> Swapped(rc4.data, i, j), x |-> i, y |-> j]

\* and what the byte is mixed with
KeyByte(rc4) == rc4.data[(rc4.data[rc4.x] + rc4.data[rc4.y]) % DataSize]

OneByte(s, byte) ==
    LET rc4 == Stepped(s.rc4)
    IN  [rc4 |-> rc4, out |-> Append(s.out, XorByte(byte, KeyByte(rc4)))]

\* mistake: the places start anew in each call
PlacesAnew(rc4) == [rc4 EXCEPT !.x = 0, !.y = 0]

\* m_x and m_y are kept from call to call.
Places(rc4) == rc4

\* process()
Processed(rc4, bytes) ==
    LET done[n \in 0 .. Len(bytes)] ==
          IF n = 0 THEN [rc4 |-> Places(rc4), out |-> <<>>]
          ELSE OneByte(done[n - 1], bytes[n])
    IN  done[Len(bytes)]

CipherInit ==
    /\ \E key \in KeyTexts : encrypting = WithKey(key) /\ decrypting = WithKey(key)
    /\ plain = <<>> /\ under = <<>> /\ read = <<>>

\* set_encrypt_key() on one side and set_decrypt_key() on the other: another
\* stream begins.
SetKeys(key) ==
    /\ under = <<>>
    /\ encrypting' = WithKey(key) /\ decrypting' = WithKey(key)
    /\ plain' = <<>> /\ read' = <<>>
    /\ UNCHANGED under

\* encrypt(): nothing is done of no bytes.
Encrypt(bytes) ==
    /\ Len(plain) + Len(bytes) <= MaxStream
    /\ encrypting' = Processed(encrypting, bytes).rc4
    /\ under' = under \o Processed(encrypting, bytes).out
    /\ plain' = plain \o bytes
    /\ UNCHANGED <<decrypting, read>>

\* decrypt() of the next n bytes
Decrypt(n) ==
    LET done == Processed(decrypting, SubSeq(under, 1, n)) IN
    /\ n <= Len(under)
    /\ decrypting' = done.rc4
    /\ read' = read \o done.out
    /\ under' = SubSeq(under, n + 1, Len(under))
    /\ UNCHANGED <<encrypting, plain>>

CipherNext ==
    \/ \E key \in KeyTexts : SetKeys(key)
    \/ \E n \in 1..MaxPiece : \E bytes \in [1..n -> Bytes] : Encrypt(bytes)
    \/ \E n \in 1..MaxPiece : Decrypt(n)

CipherSpec == CipherInit /\ [][CipherNext]_cipherVars

-----------------------------------------------------------------------------
\* What one side encrypted the other reads (ccrypto), however the stream is
\* cut into calls on either side; what is under way still can be read.
Deciphered ==
    /\ read \o Processed(decrypting, under).out = plain
    /\ under = <<>> => decrypting = encrypting
=============================================================================
