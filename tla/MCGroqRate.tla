----------------------------- MODULE MCGroqRate -----------------------------
(* Three calls: two of an entity, whose share is one request, the second refining the      *)
(* first by tiles, and one without an entity.  The budget of a minute is two requests.     *)
EXTENDS GroqRate, TLC
CONSTANTS c1, c2, c3, e1
MCCalls == {c1, c2, c3}
MCEntities == {e1}
MCEntityOf == c1 :> e1 @@ c2 :> e1 @@ c3 :> NoEntity
MCBaseOf == c1 :> NoCall @@ c2 :> c1 @@ c3 :> NoCall
MCCost == c1 :> 1 @@ c2 :> 2 @@ c3 :> 2
MCRpm == 0 :> 1 @@ 1 :> 2
MCTpm == 0 :> 2 @@ 1 :> 3
MCEntityRpm == 0 :> 1 @@ 1 :> 1
MCEntityTpm == 0 :> 1 @@ 1 :> 2
=============================================================================
