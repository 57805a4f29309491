------------------------------ MODULE MCNames ------------------------------
(* Instances of Names. *)
EXTENDS Names, TLC

S(fs, wanted, header, may) == [files |-> fs, wanted |-> wanted, header |-> header, may |-> may]
f == Path("f", 0)
g == Path("g", 0)
Leftover == Path("f", 1)
MCScenarios ==
  { S({f}, {f}, <<>>, {"overwrite", "cancel", "restart", "remove"}),
    S({Leftover}, {f}, <<>>, {"overwrite", "remove", "pause", "save"}),
    S({}, {f, g}, "f" :> "g", {"pause", "restart", "remove"}),
    S({Path("g", 1)}, {f}, "f" :> "g", {"save", "cancel", "remove"}) }
OneName == { S({}, {f, g}, "f" :> "h" @@ "g" :> "h", {}) }
=============================================================================
