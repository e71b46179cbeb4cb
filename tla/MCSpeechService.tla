--------------------------- MODULE MCSpeechService ---------------------------
(* Small instances of the speech service for TLC. *)
EXTENDS SpeechRefinement, SpeechInvariants, TLC

CONSTANTS a1, a2, s1, s2

\* Two keys, of two accounts.
TwoOwners == s1 :> a1 @@ s2 :> a2

\* One key of one account.
OneOwner == s1 :> a1

\* Calls and request ids only ever occur as wholes.
Interchangeable == Permutations(Calls) \cup Permutations(Ids) \cup Permutations(Digests)
=============================================================================
