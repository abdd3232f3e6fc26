------------------------- MODULE MCCausalReasoning -------------------------
(***************************************************************************)
(* Three lanes, two of them of one direction with different recipes.  The  *)
(* wide query finds all.  The narrow one finds two again and ranks them the*)
(* other way round, so that a lane which was worked on may have to wait.   *)
(***************************************************************************)
EXTENDS CausalReasoning, TLC

AllLanes == 1..3
DirectionOf == 1 :> "etch" @@ 2 :> "etch" @@ 3 :> "litho"
RecipeOf == 1 :> "r1" @@ 2 :> "r2" @@ 3 :> "r1"
WideAndNarrow ==
  "wide" :> (1 :> 3 @@ 2 :> 2 @@ 3 :> 1) @@ "narrow" :> (2 :> 1 @@ 3 :> 4)
=============================================================================
