------------------------------ MODULE MCWaits ------------------------------
(* What the daemon waits for, for TLC: the requests it serves, and the      *)
(* guests it works in.  The two share no state, so each behaviour moves the *)
(* one in focus and the other rests where it began.                         *)
EXTENDS ControlApi, GuestWatch

VARIABLE focus
waitsVars == <<apiVars, watchVars, focus>>

WaitsInit == focus \in {"requests", "guest"} /\ ApiInit /\ WatchInit

WaitsNext ==
    \/ focus = "requests" /\ ApiNext /\ UNCHANGED <<watchVars, focus>>
    \/ focus = "guest" /\ WatchNext /\ UNCHANGED <<apiVars, focus>>

\* The fairness of each, while it is in focus.
WaitsFairness ==
    /\ \A c \in Calls :
        /\ WF_apiVars(focus = "requests" /\ (bump(c) \/ Commits(c) \/ CommandFails(c)))
        /\ WF_apiVars(focus = "requests" /\ (WatchWakes(c) \/ ReadsAgents(c) \/ ReadsSessions(c)))
        /\ WF_apiVars(focus = "requests" /\ (LooksUp(c) \/ PassAnswers(c) \/ ReadsAfterPass(c)
                        \/ TakesRevision(c) \/ ReadsRow(c) \/ Decides(c) \/ Unparks(c)))
        /\ WF_apiVars(focus = "requests" /\ ConvergeIsDrained(c))
    /\ WF_watchVars(focus = "guest" /\ TimePasses)
    /\ WF_watchVars(focus = "guest" /\ \E inspected \in BOOLEAN : Watches(inspected))

WaitsSpec == WaitsInit /\ [][WaitsNext]_waitsVars /\ WaitsFairness
=============================================================================
