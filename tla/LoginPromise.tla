----------------------------- MODULE LoginPromise -----------------------------
(***************************************************************************)
(* What a login promises, whatever the steps of its list, the rows they    *)
(* are kept in and the requests that work on them: a set of factors is     *)
(* asked for once, the user shows them one at a time, and access is        *)
(* granted when none is missing.  A forgotten password is exchanged for    *)
(* the token sent by e-mail; nothing else is ever forgiven.                *)
(*                                                                         *)
(* AuthenticationSession implements this specification.  A login whose     *)
(* list was taken apart under another request is "broken": of it nothing   *)
(* is promised but that it does not become whole again.                    *)
(***************************************************************************)
CONSTANTS
    Sessions,
    Factors

VARIABLES
    login,          \* [Sessions -> LoginStates]
    missing         \* [Sessions -> SUBSET Factors]: asked for and not shown

promise == <<login, missing>>

LoginStates == {"none", "open", "granted", "broken"}

Init ==
    /\ login = [s \in Sessions |-> "none"]
    /\ missing = [s \in Sessions |-> {}]

Ask(s) ==
    /\ login[s] = "none"
    /\ login' = [login EXCEPT ![s] = "open"]
    /\ \E factors \in SUBSET Factors :
           missing' = [missing EXCEPT ![s] = factors]

Show(s) ==
    /\ login[s] = "open"
    /\ \E factor \in missing[s] :
           missing' = [missing EXCEPT ![s] = @ \ {factor}]
    /\ UNCHANGED login

Forget(s) ==
    /\ login[s] = "open"
    /\ missing' = [missing EXCEPT ![s] =
           (@ \ {"EnterPassword"}) \cup {"ValidatePasswordResetToken"}]
    /\ UNCHANGED login

Grant(s) ==
    /\ login[s] = "open"
    /\ missing[s] = {}
    /\ login' = [login EXCEPT ![s] = "granted"]
    /\ UNCHANGED missing

Break(s) ==
    /\ login[s] \in {"open", "granted"}
    /\ login' = [login EXCEPT ![s] = "broken"]
    /\ missing' = [missing EXCEPT ![s] = {}]

Next ==
    \E s \in Sessions :
        \/ Ask(s)
        \/ Show(s)
        \/ Forget(s)
        \/ Grant(s)
        \/ Break(s)

Spec == Init /\ [][Next]_promise

=============================================================================
