--------------------------- MODULE MCSessionStore ---------------------------
(* Small instances of SessionStore for TLC. *)
EXTENDS SessionStore, TLC

CONSTANTS home, abroad, p1, t1, t2

MCPlaces   == {home, abroad}
MCDistance == [d \in MCPlaces \X MCPlaces |-> IF d[1] = d[2] THEN 0 ELSE 2]

\* Located requests, and the two kinds of event that never carry a place here.
MixedSamples == {<<"Request", home>>, <<"Request", abroad>>,
                 <<"FailedAuth", Nowhere>>, <<"MfaPrompt", Nowhere>>}

Interchangeable == Permutations({t1, t2})
=============================================================================
