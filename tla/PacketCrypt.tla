----------------------------- MODULE PacketCrypt -----------------------------
(***************************************************************************)
(* Encrypt and Decrypt, the same in the server and in the client library:  *)
(* a text is preceded by its length, filled up to whole blocks, and run    *)
(* through the cipher in pieces.  A text is a sequence of characters; the  *)
(* length takes Prefix places, the first of which holds it.                *)
(***************************************************************************)
EXTENDS Integers, Sequences, SequencesExt

CONSTANTS
  CryptKeys, Chars,
  Block,       \* 8, the cipher's block
  Prefix,      \* sizeof(uint32_t)
  MaxEncrypt,  \* max_encrypt_length: what ecb_crypt is given at a time
  MaxText      \* bound: length of a text

VARIABLES text, sent, key, stage, read
cryptVars == <<text, sent, key, stage, read>>

Space == " "
Failed == << >>

(* ecb_crypt: every block by itself.  A block that is read with another    *)
(* key, or not from its start, is Wrong.  ecb_crypt fails unless it is     *)
(* given whole blocks.                                                     *)
Place(i) == (i - 1) \div Block
BlockAt(data, b) == SubSeq(data, b * Block + 1, (b + 1) * Block)
Wrong == -1
ecb_encrypt(k, data) ==
  [i \in 1 .. Len(data) |->
     [key |-> k, block |-> BlockAt(data, Place(i)), at |-> (i - 1) % Block]]
ecb_decrypt(k, data) ==
  [i \in 1 .. Len(data) |->
     LET c == data[i] IN
     IF c.key = k /\ c.at = (i - 1) % Block THEN c.block[c.at + 1] ELSE Wrong]
Fails(data) == Len(data) % Block # 0

-----------------------------------------------------------------------------
(* Mutant of Pad: one place short.                                         *)
PadShort(source) ==
  IF Len(source) % Block = 0 THEN source
  ELSE source \o [i \in 1 .. Block - (Len(source) % Block) - 1 |-> Space]

Pad(source) ==
  IF Len(source) % Block = 0 THEN source
  ELSE source \o [i \in 1 .. Block - (Len(source) % Block) |-> Space]

(* The loop of both functions: piece by piece, up to the first failure.    *)
Pieces(source) ==
  [n \in 1 .. (Len(source) + MaxEncrypt - 1) \div MaxEncrypt |->
     SubSeq(source, (n - 1) * MaxEncrypt + 1,
            IF n * MaxEncrypt < Len(source) THEN n * MaxEncrypt ELSE Len(source))]
InPieces(source, Crypt(_)) ==
  IF \E n \in DOMAIN Pieces(source) : Fails(Pieces(source)[n]) THEN Failed
  ELSE FlattenSeq([n \in DOMAIN Pieces(source) |-> Crypt(Pieces(source)[n])])

Encrypt(k, content) ==
  LET length == [i \in 1 .. Prefix |-> IF i = 1 THEN Len(content) ELSE 0]
  IN InPieces(Pad(length \o content), LAMBDA data : ecb_encrypt(k, data))

(* A number of characters is converted to size_t: a negative one becomes   *)
(* very great, and as a count means all the rest.                          *)
substr(s, pos, n) == SubSeq(s, pos + 1, IF n \in 0 .. Len(s) - pos THEN pos + n ELSE Len(s))

(* The length that was read is an int; adding Prefix to it as a size_t     *)
(* wraps to a small number if it is one of the last below zero.            *)
Decrypt(k, content) ==
  LET result == InPieces(content, LAMBDA data : ecb_decrypt(k, data)) IN
  IF /\ Len(content) >= Prefix /\ Len(result) > Prefix
     /\ result[1] + Prefix \in 0 .. Len(result)
  THEN substr(result, Prefix, result[1])
  ELSE Failed

-----------------------------------------------------------------------------
(* A text is encrypted on one side and decrypted on the other, with the    *)
(* same key; what another key reads depends on the cipher.                 *)
CryptInit ==
  /\ text \in UNION {[1 .. n -> Chars] : n \in 0 .. MaxText}
  /\ stage = "new" /\ key \in CryptKeys /\ sent = Failed /\ read = Failed
CryptSend ==
  /\ stage = "new" /\ stage' = "sent" /\ sent' = Encrypt(key, text)
  /\ UNCHANGED <<text, key, read>>
CryptRead ==
  /\ stage = "sent" /\ stage' = "read" /\ read' = Decrypt(key, sent)
  /\ UNCHANGED <<text, sent, key>>
CryptNext == CryptSend \/ CryptRead

(* What Decrypt returns is what Encrypt was given, whatever its length:    *)
(* at the edge of a block, of a piece, or in between.                      *)
RoundTrip == stage = "read" => read = text
=============================================================================
