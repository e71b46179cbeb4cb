--------------------------- MODULE MCIdentityLinks ---------------------------
(* A small instance of the linking for TLC: two accounts; a principal with a *)
(* public id and another whose data also has a UUID principal.               *)
EXTENDS IdentityLinks, TLC
CONSTANTS ada, scout, uuid1, k1, k2, A, B

MCKeyOf == ada :> k1 @@ uuid1 :> k1 @@ scout :> k2
To(principal, account) == [principal |-> principal, account |-> account]
MCMappings ==
    {<<To(ada, A)>>, <<To(uuid1, B), To(scout, B)>>, <<To(uuid1, B)>>}
\* An option that is not given only refuses more.
MCOptions == {{"merge", "relink", "vault"}}
=============================================================================
