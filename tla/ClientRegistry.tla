---------------------------- MODULE ClientRegistry ----------------------------
(***************************************************************************)
(* What TvService promises to the clients that register for its events: a  *)
(* client gets an identifier that nobody holds, keeps it, and gives it     *)
(* back.                                                                   *)
(***************************************************************************)
CONSTANTS Clients, Ids

VARIABLE registered   \* identifier -> client, a function on the ids in use

Init == registered = [id \in {} |-> {}]

Register(client) ==
    \E id \in Ids \ DOMAIN registered :
        registered' = [i \in DOMAIN registered \cup {id} |->
                          IF i = id THEN client ELSE registered[i]]

Unregister(id) ==
    registered' = [i \in DOMAIN registered \ {id} |-> registered[i]]

Next ==
    \/ \E client \in Clients : Register(client)
    \/ \E id \in DOMAIN registered : Unregister(id)

Spec == Init /\ [][Next]_registered

=============================================================================
