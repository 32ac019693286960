------------------------------- MODULE MCShell -------------------------------
(***************************************************************************)
(* For TLC: the tab manager; or, in other behaviours, the window and its   *)
(* engine worker; or the pages of its tabs and their renderer processes.   *)
(***************************************************************************)
EXTENDS TabManager, BrowserShell, TabPages

VARIABLE part

mcVars == <<part, vars, shellVars, pageVars>>

\* Two tabs on an animated page; and two tabs on two pages, with a change of
\* the settings.
MCScenarios ==
    {[urls |-> {"a"}, tabs |-> 2, requests |-> 4, rebuilds |-> 0, animated |-> TRUE],
     [urls |-> {"a", "b"}, tabs |-> 2, requests |-> 3, rebuilds |-> 1, animated |-> FALSE]}

MCInit ==
    /\ part \in {"tabs", "window", "pages"}
    /\ Init /\ ShellInit /\ PagesInit
    /\ part # "window" => scenario.animated

MCNext ==
    /\ UNCHANGED part
    /\ \/ part = "tabs" /\ Next /\ UNCHANGED <<shellVars, pageVars>>
       \/ part = "window" /\ ShellNext /\ UNCHANGED <<vars, pageVars>>
       \/ part = "pages" /\ PagesNext /\ UNCHANGED <<vars, shellVars>>

MCFairness ==
    /\ WF_mcVars(/\ part = "window" /\ WorkerStep
                 /\ UNCHANGED <<part, scenario, vars, pageVars>>)
    /\ WF_mcVars(/\ part = "window" /\ HandleEvent
                 /\ UNCHANGED <<part, scenario, vars, pageVars>>)

MCSpec == MCInit /\ [][MCNext]_mcVars /\ MCFairness
=============================================================================
