---------------------------- MODULE MCController ----------------------------
(***************************************************************************)
(* What users write, for the model checker.                                *)
(***************************************************************************)
EXTENDS Controller

NoLabels == [k \in {} |-> ""]

Form(labels, replicas, tls) ==
    [labels |-> labels,
     spec |-> [replicas |-> replicas, paused |-> FALSE, tls |-> tls,
               commands |-> RequiredCommands,
               containers |-> <<[image |-> "app", env |-> <<>>, mounts |-> <<>>]>>,
               volumes |-> <<>>, secrets |-> <<"s">>, servicePorts |-> <<>>,
               antiAffinity |-> TRUE, chaosLevel |-> <<>>]]

\* A secure cluster of three, and one with a reserved label.
FirstForms ==
    {Form([k \in {"team"} |-> "t"], <<3>>, <<[operator |-> "o", server |-> "s", peer |-> ""]>>),
     Form([k \in {"app"} |-> "x"], <<3>>, <<>>)}

\* And one of four.
SomeForms == FirstForms \union {Form(NoLabels, <<4>>, <<>>)}
=============================================================================
