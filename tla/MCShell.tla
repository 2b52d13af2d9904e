------------------------------ MODULE MCShell -------------------------------
(***************************************************************************)
(* A small instance of module Shell.                                       *)
(***************************************************************************)
EXTENDS Shell

Piped(programs) == [stages |-> programs, input |-> "none", output |-> "none", piped |-> TRUE]
Single(program, from, to) ==
    [stages |-> <<program>>, input |-> from, output |-> to, piped |-> FALSE]

\* Pipelines that copy, one whose reader leaves early, ones with a missing program; and
\* commands with every redirection.
MCMeanings ==
    {Piped(l) : l \in {<<"source", "filter">>, <<"source", "filter", "filter">>,
        <<"source", "filter", "filter", "filter">>, <<"source", "head">>,
        <<"source", "filter", "head">>, <<"source", "head", "filter">>,
        <<"missing", "filter">>, <<"source", "missing", "filter">>, <<"source", "missing">>}}
      \cup {Single("filter", f, t) : f \in {"f", "g"}, t \in {"none", "f", "g", "locked"}}
      \cup {Single("source", "none", "g"), Single("head", "f", "none"),
            Single("missing", "f", "g")}

\* No program before the operator, nothing before the bar, built-in commands.
MCOtherLines ==
    {<<"filter", "<", "f">>, <<"|", "filter">>, <<>>, <<"cd">>, <<"cd", " ", "usr">>,
     <<"cd", " ", "-">>, <<"cd", " ", "|", " ", "filter">>, <<"pwd">>, <<"exit">>}

MCJobs == MCMeanings \cup {Piped(<<"missing", "filter">>), Single("missing", "f", "none")}
=============================================================================
