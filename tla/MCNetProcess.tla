---------------------------- MODULE MCNetProcess ------------------------------
(***************************************************************************)
(* For TLC: netproc at work, or, in other behaviours, its launch.          *)
(***************************************************************************)
EXTENDS NetProcess

CONSTANTS MaxLaunches

VARIABLES part, child, unsaid, pipe, reader, output, told, polling, engine, launches

L == INSTANCE NetprocLaunch

launchVars == <<child, unsaid, pipe, reader, output, told, polling, engine, launches>>
mcVars == <<part, vars, launchVars>>

\* The first client fetches once more than the others.
MCFetches == [c \in Conns |-> IF c = CHOOSE d \in Conns : TRUE THEN MaxFetches ELSE 1]

MCInit == part \in {"fetches", "launches"} /\ Init /\ L!Init

MCNext ==
    /\ UNCHANGED part
    /\ \/ part = "fetches" /\ Next /\ UNCHANGED launchVars
       \/ part = "launches" /\ L!Next /\ UNCHANGED vars

\* The fairness of both; the tasks of a part that is not played never run.
MCFairness ==
    /\ \A c \in Conns :
          /\ WF_mcVars(part = "fetches" /\ Caller(c) /\ UNCHANGED <<part, launchVars>>)
          /\ WF_mcVars(part = "fetches" /\ WriterTask(c) /\ UNCHANGED <<part, launchVars>>)
          /\ WF_mcVars(part = "fetches" /\ ReaderTask(c) /\ UNCHANGED <<part, launchVars>>)
          /\ WF_mcVars(part = "fetches" /\ ServerTask(c) /\ UNCHANGED <<part, launchVars>>)
    /\ \A l \in L!Launches :
          /\ WF_mcVars(part = "launches" /\ L!WindowStep(l) /\ UNCHANGED <<part, vars>>)
          /\ WF_mcVars(part = "launches" /\ L!ReaderStep(l) /\ UNCHANGED <<part, vars>>)
          /\ WF_mcVars(part = "launches" /\ L!WorkerStep(l) /\ UNCHANGED <<part, vars>>)

MCSpec == MCInit /\ [][MCNext]_mcVars /\ MCFairness

\* Every worker gets an engine or an error to answer with (NetprocLaunch).
EngineReady == L!EngineReady
===============================================================================
