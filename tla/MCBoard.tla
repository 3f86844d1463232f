------------------------------- MODULE MCBoard -------------------------------
(***************************************************************************)
(* The buttons and the shutdown share only the application, which is not   *)
(* in the repository: a behaviour is about one of them.                    *)
(***************************************************************************)
EXTENDS PwrMgmt, Buttons

VARIABLE about

vars == <<pwrVars, buttonVars, about>>

\* What a behaviour is not about stays in one of its initial states.
Init ==
  /\ PwrInit /\ ButtonsInit
  /\ \/ about = "power" /\ high = [b \in Ids |-> TRUE]
     \/ about = "buttons" /\ built = <<FALSE, FALSE, Above>> /\ ready = {}

Next ==
  /\ UNCHANGED about
  /\ \/ about = "power" /\ PwrNext /\ UNCHANGED buttonVars
     \/ about = "buttons" /\ ButtonsNext /\ UNCHANGED pwrVars

Power(A) == about = "power" /\ A /\ UNCHANGED <<buttonVars, about>>

\* PwrFairness, in a behaviour that is about the shutdown.
Spec ==
  /\ Init /\ [][Next]_vars
  /\ WF_vars(Power(PwrStep)) /\ SF_vars(Power(MainStep))
  /\ WF_vars(Power(Tick)) /\ SF_vars(Power(Scheduled))
  /\ SF_vars(Power(\E h \in 1 .. Handlers : BecomesReady(h)))
  /\ ButtonsFairness
=============================================================================
