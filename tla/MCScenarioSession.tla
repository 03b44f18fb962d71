-------------------------- MODULE MCScenarioSession --------------------------
(* Four tools whose names meet in two ways: the module of A_call_smoke is  *)
(* the smoke file of a, which is written after it; get-x and getX have     *)
(* modules of their own and one class name.                                *)
EXTENDS ScenarioSession, TLC

MCTools == {"A_call_smoke", "a", "get-x", "getX"}
MCRank == "A_call_smoke" :> 1 @@ "a" :> 2 @@ "get-x" :> 3 @@ "getX" :> 4
MCModule == "A_call_smoke" :> "a_call_smoke" @@ "a" :> "a"
            @@ "get-x" :> "get_x" @@ "getX" :> "getx"
MCClass == "A_call_smoke" :> "ACallSmoke" @@ "a" :> "A"
           @@ "get-x" :> "GetX" @@ "getX" :> "GetX"
MCSmoke == "A_call_smoke" :> "a_call_smoke_call_smoke" @@ "a" :> "a_call_smoke"
           @@ "get-x" :> "get_x_call_smoke" @@ "getX" :> "getx_call_smoke"

MCListings == {{"A_call_smoke", "a"}, {"get-x", "getX"}}
=============================================================================
