--------------------------- MODULE MCAttestation ---------------------------
(***************************************************************************)
(* A small instance of Attestation for TLC: evidence about the first model  *)
(* and key with one field changed, and all that hardware evidence can say.  *)
(***************************************************************************)
EXTENDS Attestation, TLC

MCAddress == [k \in Keys |-> IF k = "k1" THEN "a1" ELSE "a2"]

Good(n) ==
  [ verified |-> TRUE, nonce |-> n, model |-> "m1", signing_key |-> <<"compressed", "k1">>,
    signing_address |-> <<"mixed", "a1">>, debug |-> Absent, quote |-> Absent,
    report_data |-> Absent, nvidia_payload |-> Absent ]

Damaged(n) ==
  {[Good(n) EXCEPT !.verified = v] : v \in {FALSE, Absent}}
    \cup {[Good(n) EXCEPT !.nonce = v] : v \in {Absent, Blank}}
    \cup {[Good(n) EXCEPT !.model = v] : v \in {"m2", Absent, Blank}}
    \cup {[Good(n) EXCEPT !.signing_key = v] :
            v \in {<<"coordinates", "k1">>, <<"uncompressed", "k2">>, Absent, Unusable}}
    \cup {[Good(n) EXCEPT !.signing_address = v] : v \in {<<"lower", "a2">>, Unusable}}

Reports ==
  {Absent, Unusable, Digest(<<"uncompressed", "k1">>), Digest(<<"uncompressed", "k2">>),
   Digest(<<"lower", "a1">>), Bytes(<<"lower", "a1">>)}

Hardware(n) ==
  {[Good(n) EXCEPT !.quote = q, !.report_data = r, !.signing_address = a] :
     q \in TdxQuote \cup {Absent, Unusable}, r \in Reports, a \in {<<"mixed", "a1">>, Absent}}

Nvidia(n) ==
  {[Good(n) EXCEPT !.nvidia_payload = v, !.quote = q, !.debug = d] :
     v \in {"payload", Absent, Unusable}, q \in {Absent, [tee_type |-> "tdx", debug |-> FALSE]},
     d \in {FALSE, TRUE}}

Symmetry == Permutations(Calls)

MCAnswers ==
  {Good(n) : n \in Nonces} \cup UNION {Damaged(n) \cup Nvidia(n) : n \in Nonces} \cup Hardware("n1")

=============================================================================
