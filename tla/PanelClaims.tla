---------------------------- MODULE PanelClaims ----------------------------
(* What the repository's documents say of the panel and Panel does not do.  *)
(* Each is checked on its own and TLC shows a behaviour of the code that     *)
(* contradicts the sentence quoted.                                          *)
EXTENDS Panel

\* docs/auth-dex.md:74 "two concurrent first requests carrying the same new token
\* cannot both decide they were first: exactly one matches a row and writes the
\* audit entry."  True of DBMarkSignIn; a person's very first requests go through
\* firstSignIn instead, and each of them upserts, counts and audits a sign-in.
FirstSignInOnce == \A r, q \in Requests : ~RecordedTwice(r, q)

\* docs/architecture.md:76 "Infrastructure failure is an `error`. Domain failure is
\* a payload."  Checked where nothing fails: removing an admin who has banned
\* somebody is refused by the foreign key and reaches the client as an error.
DomainFailureIsAPayload ==
    \A r \in Requests : \A a \in answers[r] : a.verdict # "error"
=============================================================================
