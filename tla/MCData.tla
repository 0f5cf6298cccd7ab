------------------------------- MODULE MCData -------------------------------
(***************************************************************************)
(* JSON values and the key and count database, each checked on an instance *)
(* of its own: a behaviour is one of the component that under names, and   *)
(* the others stay as they were constructed.                               *)
(***************************************************************************)
EXTENDS SxeJitson, SxeJitsonParse, SxeJitsonOper, SxeCdb, SxeCdbEnsemble

VARIABLE under

allvars == <<under, jitsonVars, parser, registry, cdb, ensemble>>

MCNames == {"a", "b", "long"}
MCNameLen == [x \in MCNames |-> IF x = "long" THEN 8 ELSE 1]
\* "b" and "long" share a bucket.
MCHash == [x \in MCNames |-> IF x = "a" THEN 1 ELSE 2]
MCMemberNames == {<<"a", "own">>, <<"b", "copy">>}
MCStrings == {<<"long", "copy">>}
\* "b" and "c" share a row, and "a" and "b" an entry of the sheets' index.
MCCdbHash == [a |-> [hi |-> 0, lo |-> 0, alt |-> 1, len |-> 3],
              b |-> [hi |-> 4, lo |-> 1, alt |-> 0, len |-> 3],
              c |-> [hi |-> 2, lo |-> 1, alt |-> 2, len |-> 9]]
\* Swaps in one direction only: opposite ones wait for each other for ever.
MCSwaps == {<<"this", "that">>}

MCInit ==
    /\ under \in {"jitson", "parse", "oper", "cdb", "ensemble"}
    /\ JitsonInit /\ (under # "jitson" => calm)
    /\ ParseInit /\ (under # "parse" => parser.source = "string" /\ parser.flags = {})
    /\ OperInit
    /\ CdbInit /\ (under # "cdb" => cdb.start = 0)
    /\ EnsembleInit

MCNext ==
    /\ UNCHANGED under
    /\ \/ under = "jitson" /\ JitsonNext /\ UNCHANGED <<parser, registry, cdb, ensemble>>
       \/ under = "parse" /\ ParseNext /\ UNCHANGED <<jitsonVars, registry, cdb, ensemble>>
       \/ under = "oper" /\ OperNext /\ UNCHANGED <<jitsonVars, parser, cdb, ensemble>>
       \/ under = "cdb" /\ CdbNext /\ UNCHANGED <<jitsonVars, parser, registry, ensemble>>
       \/ under = "ensemble" /\ EnsembleNext /\ UNCHANGED <<jitsonVars, parser, registry, cdb>>

\* The fairness that the component states, while it is the one that runs.
MCSpec == /\ MCInit /\ [][MCNext]_allvars
          /\ \A t \in CdbThreads : WF_ensemble(under = "ensemble" /\ CallStep(t))
=============================================================================
