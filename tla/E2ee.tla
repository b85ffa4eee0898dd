-------------------------------- MODULE E2ee --------------------------------
(***************************************************************************)
(* The codec of the encrypted fields (src/src/e2ee.rs) and the proxy's key  *)
(* pair (src/src/keys.rs).                                                  *)
(*                                                                         *)
(* Cryptography is symbolic: a key pair is an atom, its public key is       *)
(* written as bytes with a point on the curve, two key pairs share a secret *)
(* whichever of them computes it, and a sealed text opens with the key and  *)
(* the nonce it was sealed with.  A payload is written as hexadecimal       *)
(* digits; of those the code asks how many there are, whether they are all  *)
(* digits, and what the bytes at the places of the parts are.               *)
(***************************************************************************)
EXTENDS Naturals, Sequences

CONSTANTS
  HkdfInfo,    \* e2ee.hkdf_info
  NoPoint,     \* bytes that are no point of the curve
  NotText,     \* bytes that are no UTF-8
  Size(_)      \* bytes of a text, a number

EphemeralPublicKeyLen == 65
NonceLen == 12
AesGcmTagLen == 16
PackedPrefixLen == EphemeralPublicKeyLen + NonceLen
MinPackedPayloadLen == PackedPrefixLen + AesGcmTagLen

(* Keys. *)

\* The public key as the proxy writes it: uncompressed, in hexadecimal digits.
PublicKeyHex(pair) ==
  [chars |-> 2 * EphemeralPublicKeyLen, digits |-> TRUE, first |-> 4, point |-> pair]

PublicKeyOK(hex) ==
  /\ hex.digits /\ hex.chars = 2 * EphemeralPublicKeyLen
  /\ hex.first = 4
  /\ hex.point # NoPoint

SharedSecret(own, peer) == {own, peer}

ContentKey(own, peer, info) == [secret |-> SharedSecret(own, peer), info |-> info]

(* Payloads. *)

Seal(text, key, nonce) == [text |-> text, key |-> key, nonce |-> nonce]

\* EncryptedPayload of a text, for the holder of the peer's key.
Encrypted(text, peer, ephemeral, nonce) ==
  [ chars  |-> 2 * (PackedPrefixLen + Size(text) + AesGcmTagLen),
    digits |-> TRUE,
    first  |-> 4,
    point  |-> ephemeral,
    nonce  |-> nonce,
    sealed |-> Seal(text, ContentKey(ephemeral, peer, HkdfInfo), nonce) ]

\* encrypt_content, with the peer's key as it is written.
EncryptContent(text, peer, ephemeral, nonce) ==
  IF PublicKeyOK(peer) THEN [ok |-> TRUE, payload |-> Encrypted(text, peer.point, ephemeral, nonce)]
  ELSE [ok |-> FALSE, error |-> "InvalidPublicKey"]

\* Wrong variant: a payload must be longer than the shortest one.
WellFormedIfLonger(hex) ==
  /\ hex.chars # 0 /\ hex.chars % 2 = 0
  /\ hex.chars > 2 * MinPackedPayloadLen
  /\ hex.digits

\* validate_packed_payload_hex
WellFormed(hex) ==
  /\ hex.chars # 0 /\ hex.chars % 2 = 0
  /\ hex.chars >= 2 * MinPackedPayloadLen
  /\ hex.digits

\* PackedEncryptedPayload::unpack
Unpacks(hex) ==
  /\ hex.chars \div 2 >= MinPackedPayloadLen
  /\ hex.first = 4
  /\ hex.point # NoPoint

Opens(hex, own) ==
  hex.sealed.key = ContentKey(own, hex.point, HkdfInfo) /\ hex.sealed.nonce = hex.nonce

\* decrypt_content, of a payload as it arrives.
DecryptContent(hex, own) ==
  IF ~WellFormed(hex) \/ ~Unpacks(hex) THEN [ok |-> FALSE, error |-> "MalformedEncryptedPayload"]
  ELSE IF ~Opens(hex, own) THEN [ok |-> FALSE, error |-> "AuthenticationFailed"]
  ELSE IF hex.sealed.text = NotText THEN [ok |-> FALSE, error |-> "InvalidPlaintextUtf8"]
  ELSE [ok |-> TRUE, text |-> hex.sealed.text]

=============================================================================
