----------------------------- MODULE MCRecovery -----------------------------
(* What must come to an end after something went wrong: the pipeline's        *)
(* restart, and the replay of dead letters. Neither reads the other's state   *)
(* (a replayed job is one of the worker's many), so a behaviour is about one  *)
(* of them, its `focus`, and fairness is asked of that one.                   *)
EXTENDS MCIndexerPipeline, DeadLetterReplay

VARIABLE focus

allVars == <<vars, replayVars, focus>>

RecoveryInit ==
    /\ focus \in {"restart", "replay"}
    /\ PipelineInit /\ ReplayInit

RecoveryNext ==
    /\ UNCHANGED focus
    /\ \/ focus = "restart" /\ PipelineNext /\ UNCHANGED replayVars
       \/ focus = "replay" /\ ReplayNext /\ UNCHANGED vars

\* The steps of Fairness and ReplayFairness, where their part is running.
Restarting == focus = "restart"

RecoveryFairness ==
    /\ WF_vars(Restarting /\ Boot) /\ WF_vars(Restarting /\ StartPolling)
    /\ WF_vars(Restarting /\ Poll) /\ WF_vars(Restarting /\ EnqueueWindow)
    /\ WF_vars(Restarting /\ Advance(Starter))
    /\ \A a \in Accounts : WF_vars(Restarting /\ FetchPage(a))
    /\ \A s \in Slots :
          /\ WF_vars(Restarting /\ \E j \in jobs : Fetch(s, j))
          /\ WF_vars(Restarting /\ (Skip(s) \/ Handle(s) \/ Persist(s) \/ Complete(s)))
          /\ WF_vars(Restarting /\ Advance(s))
    /\ WF_vars(Restarting /\ DeadLetters)
    /\ WF_vars(Restarting /\ \E j \in jobs : Stall(j))
    /\ WF_vars(Restarting /\ Exit)
    /\ \A r \in Requests : WF_replayVars(focus = "replay" /\ Execute(r))

RecoverySpec == RecoveryInit /\ [][RecoveryNext]_allVars /\ RecoveryFairness

\* The stream is indexed in the end (EventuallySettled), where it is followed.
EventuallyIndexed == focus = "restart" => EventuallySettled
=============================================================================
