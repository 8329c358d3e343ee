-------------------------- MODULE MCImportPipeline --------------------------
(* ImportPipeline for TLC.  No symmetry: two posts gain little by it. *)
EXTENDS ImportPipeline

List   == <<"ingredients", "measured", "measured", "measured", "measured">>
Method == <<"instructions", "prose", "prose", "prose", "prose">>

\* Nothing, one section, a fragment of both, most of both, all, and all without a name.
MCCaptions ==
    {<<"emoji", "prose", "tags">>,
     <<"short">> \o List,
     <<"short", "ingredients", "short", "prose", "instructions", "prose", "blank", "tags">>,
     <<"prose", "ingredients", "measured", "measured", "measured", "instructions", "prose", "prose">>,
     <<"short">> \o List \o Method,
     <<"tags">> \o List \o Method}

Answer(listed, measured, length, score) ==
    [sentinel |-> FALSE, listed |-> listed, measured |-> measured, length |-> length, score |-> score]

\* The sentinel, no confidence, a section missing, a fragment, and a whole recipe
\* the model is sure of or not.
MCAnswers ==
    {[Answer(0, 0, 1, 5) EXCEPT !.sentinel = TRUE], Answer(4, 4, 4, 0),
     Answer(0, 0, 4, 40), Answer(4, 4, 0, 50), Answer(1, 0, 1, 40), Answer(4, 4, 4, 26),
     Answer(4, 4, 4, 50)}
=============================================================================
