----------------------------- MODULE FormAnswers -----------------------------
(***************************************************************************)
(* What the forms of a conversation promise to the visitor and the agents,  *)
(* without calls, checks, templates or the unique index: a request that can *)
(* be seen has at most one answer, which is given in one step together with  *)
(* the mark the dashboard shows; an answer is taken back before another is  *)
(* given, and no submission is used twice.  FormRequests implements this     *)
(* specification however its calls overlap or fail.                         *)
(***************************************************************************)
CONSTANTS Submissions, Unanswered

VARIABLES
    asked,   \* requests that can be seen
    answer,  \* the answer of each of them
    shown,   \* the submission its mark names, which outlives the answer
    used     \* submissions that answered a request

vars == <<asked, answer, shown, used>>

Init ==
    /\ asked = {}
    /\ answer = [r \in {} |-> Unanswered]
    /\ shown = [r \in {} |-> Unanswered]
    /\ used = {}

\* Further requests can be seen; nobody answered or marked them yet.
Ask ==
    /\ asked \subseteq asked'
    /\ answer' = [r \in asked' |-> IF r \in asked THEN answer[r] ELSE Unanswered]
    /\ shown' = [r \in asked' |-> IF r \in asked THEN shown[r] ELSE Unanswered]
    /\ UNCHANGED used

Answer(r, t) ==
    /\ answer[r] = Unanswered
    /\ t \notin used
    /\ answer' = [answer EXCEPT ![r] = t]
    /\ shown' = [shown EXCEPT ![r] = t]
    /\ used' = used \union {t}
    /\ UNCHANGED asked

\* The mark stays behind.
Withdraw(r) ==
    /\ answer[r] # Unanswered
    /\ answer' = [answer EXCEPT ![r] = Unanswered]
    /\ UNCHANGED <<asked, shown, used>>

Next ==
    \/ Ask
    \/ \E r \in asked : Withdraw(r) \/ \E t \in Submissions : Answer(r, t)

Spec == Init /\ [][Next]_vars

=============================================================================
