----------------------------- MODULE TlsBinding -----------------------------
(***************************************************************************)
(* How a TLS certificate is bound to an attestation document: the values   *)
(* an enclave writes into the DNS names of its certificate                 *)
(* (src/src/verifier/dcode.rs), the check of them                          *)
(* (SecureClient::verify_tls_binding), and what a client keeps and shows   *)
(* of a verification.                                                      *)
(*                                                                         *)
(* A value is written in pieces of base32, two to a value here; a DNS name *)
(* is [label, index, chunk]: its second label, and the index and the       *)
(* symbols its first label is made of, -1 and <<>> for a label without two *)
(* digits or too short.  A result that may be absent is a set of at most   *)
(* one element.                                                            *)
(***************************************************************************)
EXTENDS Integers, Sequences, SequencesExt, FiniteSets

PINNED_NO_DIGEST == "pinned_no_digest"
AllZeros == "00"                       \* an HPKE key of zeros only

Piece(value, n) == [of |-> value, part |-> n]
Pieces(value) == <<Piece(value, 1), Piece(value, 2)>>

Bytes(value) == [bytes |-> Pieces(value)]

\* BASE32_NOPAD: a symbol outside the alphabet, part 0 of nothing, fails.
Base32Decode(symbols) ==
  IF \E i \in DOMAIN symbols : symbols[i].part = 0 THEN {} ELSE {[bytes |-> symbols]}

-----------------------------------------------------------------------------
(* dcode.rs *)

matches(san, prefix) ==
  /\ san.label = prefix
  /\ san.index \in 0..99
  /\ san.chunk # <<>>

\* Which names are pieces of a value.
Held(sans, prefix) == {i \in DOMAIN sans : matches(sans[i], prefix)}

\* The chunk at an index; one that is missing is not looked for.
ChunkAt(sans, held, index) ==
  IF \E i \in held : sans[i].index = index
  THEN sans[CHOOSE i \in held : sans[i].index = index].chunk ELSE <<>>

\* All chunks, in the order of their indices.
Combined(sans, held) ==
  LET upto[n \in 0..100] == IF n = 0 THEN <<>> ELSE upto[n - 1] \o ChunkAt(sans, held, n - 1)
  IN  upto[100]

\* Names of another shape are passed over, an index that stands twice is refused.
decode_from_sans(sans, prefix) ==
  LET held == Held(sans, prefix)
  IN  IF \/ held = {}
         \/ \E i, j \in held : i # j /\ sans[i].index = sans[j].index
      THEN {}
      ELSE Base32Decode(Combined(sans, held))

-----------------------------------------------------------------------------
(* client.rs *)

\* AttestationDocument::hash, over the format and the body.
hash(doc) == [sha256 |-> doc]

\* A mistake: the document's hash is only looked for in names that are there.
verify_tls_binding_whenNamed(cert, verification, doc) ==
  /\ cert.algorithm = "ecdsa"
  /\ cert.fingerprint = verification.tls_public_key_fp
  /\ verification.hpke_public_key # AllZeros =>
       decode_from_sans(cert.sans, "hpke") = {Bytes(verification.hpke_public_key)}
  /\ decode_from_sans(cert.sans, "hatt") \subseteq {Bytes(hash(doc))}

\* The certificate of another connection to the host, which the CAs vouch for.
\* A key of zeros needs no names; the document's hash always does.
verify_tls_binding(cert, verification, doc) ==
  /\ cert.algorithm = "ecdsa"
  /\ cert.fingerprint = verification.tls_public_key_fp
  /\ verification.hpke_public_key # AllZeros =>
       decode_from_sans(cert.sans, "hpke") = {Bytes(verification.hpke_public_key)}
  /\ decode_from_sans(cert.sans, "hatt") = {Bytes(hash(doc))}

\* The key that proxy mode seals bodies to.
require_hpke_public_key(verification) ==
  {verification.hpke_public_key} \ {AllZeros}

-----------------------------------------------------------------------------
(* verification_document.rs *)

from_ground_truth(truth) ==
  LET pinned == truth.digest = PINNED_NO_DIGEST
      done == IF pinned THEN "skipped" ELSE "success"
  IN  [ release_tag |-> truth.release_tag, release_digest |-> truth.digest,
        tls_public_key |-> truth.tls_public_key,
        hpke_public_key |-> truth.hpke_public_key,
        code_fingerprint |-> truth.code_fingerprint,
        enclave_fingerprint |-> truth.enclave_fingerprint,
        steps |-> [ fetch_digest |-> done, verify_code |-> done,
                    verify_enclave |-> "success", compare_measurements |-> "success",
                    verify_certificate |-> "success" ] ]
=============================================================================
