------------------------------ MODULE AuditLog ------------------------------
(***************************************************************************)
(* Signing decisions and verifying the entries of an audit log             *)
(* (crates/lovebird-engine/src/signer.rs).  A text is a sequence of words, *)
(* the separators of the payload among them.  SHA-256 and Ed25519 are      *)
(* ideal: a digest is its preimage, a signature its key and its payload.   *)
(* An optional value is a set of at most one.                              *)
(***************************************************************************)
EXTENDS Integers, SequencesExt

CONSTANTS
    Keys,    \* the public keys in existence; any other value decodes to none
    Words    \* the words texts are made of, separators and effects among them

Text == Seq(Words)

Option(S) == {option \in SUBSET S : \A a, b \in option : a = b}

AlmostMatched == [id : Text, missing : Text]

Explanation == [matched_policy : Option(Text), why : Seq(Text), almost : Seq(AlmostMatched)]

\* The fields of an AuditEntry that describe the decision.
Content ==
    [decision_effect : Words, matched_policy : Option(Text), principal_id : Text,
     action : Text, resource_type : Text, resource_id : Text,
     explanation : Option(Explanation)]

OrEmpty(option) == IF option = {} THEN <<>> ELSE CHOOSE text \in option : TRUE

\* str::join.
Join(texts, separator) ==
    FlattenSeq([k \in DOMAIN texts |-> IF k = 1 THEN texts[1] ELSE <<separator>> \o texts[k]])

AlmostText(almost) == [k \in DOMAIN almost |-> almost[k].id \o <<":">> \o almost[k].missing]

CanonicalizeExplanation(explanation) ==
    IF explanation = {} THEN <<>>
    ELSE LET e == CHOOSE e \in explanation : TRUE
         IN  OrEmpty(e.matched_policy) \o <<"|">>
               \o Join(e.why, ";") \o <<"|">> \o Join(AlmostText(e.almost), ";")

\* Mutant: the explanation is not signed.
CanonicalPayload_NoExplanation(c) ==
    <<"v1", "|", "effect=", c.decision_effect, "|", "policy=">> \o OrEmpty(c.matched_policy)
      \o <<"|", "principal=">> \o c.principal_id \o <<"|", "action=">> \o c.action
      \o <<"|", "rtype=">> \o c.resource_type \o <<"|", "rid=">> \o c.resource_id
      \o <<"|", "expl=">>

CanonicalPayload(c) ==
    <<"v1", "|", "effect=", c.decision_effect, "|", "policy=">> \o OrEmpty(c.matched_policy)
      \o <<"|", "principal=">> \o c.principal_id \o <<"|", "action=">> \o c.action
      \o <<"|", "rtype=">> \o c.resource_type \o <<"|", "rid=">> \o c.resource_id
      \o <<"|", "expl=">> \o CanonicalizeExplanation(c.explanation)

Digest(payload)         == [digest_of |-> payload]
SignatureOf(key, payload) == [by |-> key, over |-> payload]

\* DecisionSigner::sign.
Sign(c, key) ==
    [content      |-> c,
     payload_hash |-> Digest(CanonicalPayload(c)),
     signature    |-> {SignatureOf(key, CanonicalPayload(c))},
     public_key   |-> {key}]

\* verify_entry: both fields are there and decode, the digest is that of the
\* content, and the signature is the key's.
Verified(entry) ==
    \E key \in entry.public_key \cap Keys, signature \in entry.signature :
        /\ entry.payload_hash = Digest(CanonicalPayload(entry.content))
        /\ signature = SignatureOf(key, CanonicalPayload(entry.content))
=============================================================================
