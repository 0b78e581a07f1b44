----------------------------- MODULE MCSidecar -----------------------------
(* A small instance of Sidecar for TLC. *)
EXTENDS Sidecar

CONSTANTS q1, q2

\* A file is the sequence of the requests its policies allow; "bad" is refused.
MCFiles == {<<q1>>, <<>>, <<"bad">>}

MCValid(list) == list # <<"bad">>
MCVerdict(list, q) == IF \E k \in DOMAIN list : list[k] = q THEN "allow" ELSE "deny"

\* A batch, one request, a body that does not deserialize, a batch over the limit,
\* the list of policies.
MCMessages == { <<"batch", <<q1, q2>>>>, <<"evaluate", <<q2>>>>, <<"evaluate", <<Junk>>>>,
                <<"batch", <<q1, q1, q2>>>>, <<"policies", <<>>>> }
============================================================================
