-------------------------- MODULE MCUserRegistry --------------------------
(* Values of the constants of UserRegistry for TLC.                        *)
EXTENDS UserRegistry, TLC

CONSTANTS k1, k2, k3, k4, shop, blog

(* Users 1 and 2 share a domain; user 3 has none.                          *)
Names == 1 :> <<shop>> @@ 2 :> <<shop, blog>> @@ 3 :> <<>>
Domains2 == {shop, blog}

(* Two creations and the deletion of the first user.                       *)
Tasks3 == {k1, k2, k3}
Kind3 == k1 :> "create" @@ k2 :> "create" @@ k3 :> "delete"
User3 == k1 :> 1 @@ k2 :> 2 @@ k3 :> 1

(* Three creations and a deletion.                                         *)
Tasks4 == {k1, k2, k3, k4}
Kind4 == k4 :> "create" @@ Kind3
User4 == k4 :> 3 @@ User3
=============================================================================
