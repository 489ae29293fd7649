----------------------------- MODULE ServiceCall -----------------------------
(***************************************************************************)
(* What a caller of lock or unlock is promised: the call ends, and it is   *)
(* refused, or confirmed while the state it asked for is the one shown, or *)
(* unconfirmed while that state is not.                                    *)
(***************************************************************************)
CONSTANTS Callers, Wishes, Shown, NoWish

VARIABLES
    wish,       \* caller -> the state it waits for, NoWish if it does not
    answer,     \* caller -> "none", "pending", "refused", "ok", "unconfirmed"
    state       \* caller -> what it is shown

serviceVars == <<wish, answer, state>>

ServiceInit ==
    /\ wish = [c \in Callers |-> NoWish]
    /\ answer = [c \in Callers |-> "none"]
    /\ state = [c \in Callers |-> NoWish]

Ask(c) ==
    /\ answer[c] # "pending"
    /\ \E w \in Wishes : wish' = [wish EXCEPT ![c] = w]
    /\ answer' = [answer EXCEPT ![c] = "pending"]
    /\ \E s \in Shown \cup {NoWish} : state' = [state EXCEPT ![c] = s]

End(c, outcome) ==
    /\ wish' = [wish EXCEPT ![c] = NoWish]
    /\ answer' = [answer EXCEPT ![c] = outcome]
    /\ state' = [state EXCEPT ![c] = NoWish]

Refuse(c) == End(c, "refused")

Succeed(c) ==
    /\ answer[c] = "pending"
    /\ state[c] = wish[c]
    /\ End(c, "ok")

GiveUp(c) ==
    /\ answer[c] = "pending"
    /\ state[c] # wish[c]
    /\ End(c, "unconfirmed")

StateChanges ==
    /\ state' \in [Callers -> Shown \cup {NoWish}]
    /\ UNCHANGED <<wish, answer>>

ServiceNext ==
    \/ \E c \in Callers : Ask(c) \/ Refuse(c) \/ Succeed(c) \/ GiveUp(c)
    \/ StateChanges

ServiceSpec == ServiceInit /\ [][ServiceNext]_serviceVars

EveryCallEnds == \A c \in Callers : answer[c] = "pending" ~> answer[c] # "pending"
=============================================================================
