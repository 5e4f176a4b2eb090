----------------------------- MODULE MCPipeline -----------------------------
(* A small instance of Pipeline: two demo profiles, the audiences asked for. *)
EXTENDS Pipeline

All == [type |-> "all"]
Group(g) == [type |-> "group", group |-> g]
Labels(pairs) == [type |-> "labels", labels |-> pairs]

MCSelections ==
    {All, Group("Support"), Group("Nobody"), Labels({<<"region", "EU">>}),
     Labels({<<"region", "EU">>, <<"tier", "free">>}),
     Labels({<<"region", "EU">>, <<"tier", "pro">>})}
MCSelection == Labels({<<"region", "EU">>})
=============================================================================
