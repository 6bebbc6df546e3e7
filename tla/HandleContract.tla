--------------------------- MODULE HandleContract ---------------------------
(***************************************************************************)
(* What a pipeline handle of the bindings promises its callers: calls take *)
(* effect one at a time, Close ends it for good, and Close any number of   *)
(* times is Close once.                                                    *)
(***************************************************************************)
CONSTANTS Threads

VARIABLES
    open,       \* whether the handle is open
    call,       \* Threads -> "none", "evaluate" or "close"
    answer      \* Threads -> what the last call answered
vars == <<open, call, answer>>

Calls == {"evaluate", "close"}
Answers == {"none", "json", "failed", "closed", "done"}

Init ==
    /\ open = TRUE
    /\ call = [t \in Threads |-> "none"]
    /\ answer = [t \in Threads |-> "none"]

Begin(t) ==
    /\ call[t] = "none"
    /\ \E c \in Calls : call' = [call EXCEPT ![t] = c]
    /\ answer' = [answer EXCEPT ![t] = "none"]
    /\ UNCHANGED open

\* A call takes effect between its begin and its end: an evaluation of an open
\* handle is answered, one of a closed handle is refused.
TakeEffect(t) ==
    /\ call[t] # "none" /\ answer[t] = "none"
    /\ IF call[t] = "close"
       THEN answer' = [answer EXCEPT ![t] = "done"] /\ open' = FALSE
       ELSE /\ \E a \in IF open THEN {"json", "failed"} ELSE {"closed"} :
                   answer' = [answer EXCEPT ![t] = a]
            /\ UNCHANGED open
    /\ UNCHANGED call

End(t) ==
    /\ call[t] # "none" /\ answer[t] # "none"
    /\ call' = [call EXCEPT ![t] = "none"]
    /\ UNCHANGED <<open, answer>>

Next == \E t \in Threads : Begin(t) \/ TakeEffect(t) \/ End(t)

Fairness == \A t \in Threads : WF_vars(TakeEffect(t)) /\ WF_vars(End(t))

Spec == Init /\ [][Next]_vars /\ Fairness
=============================================================================
