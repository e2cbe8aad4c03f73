-------------------------- MODULE RegistrationPromise --------------------------
(***************************************************************************)
(* What self-registration promises, whatever the steps, the rows they are  *)
(* kept in and the requests that work on them: an e-mail address is held   *)
(* by one registration at a time; whoever holds it is asked for everything *)
(* the tenant demands, and the account is enabled when nothing of it is    *)
(* missing; and the address is free again only after the registration that *)
(* held it was closed.                                                     *)
(*                                                                         *)
(* UserRegistration implements this specification.  Two things the code    *)
(* does not promise: that an enabled account is not written back disabled  *)
(* by a request that read it earlier (Withdraw), and that a closed         *)
(* registration is ever removed.                                           *)
(***************************************************************************)
CONSTANTS
    Registrations,
    Addresses,
    Demands         \* what the tenant asks for: shown, or skipped if it may be

VARIABLES
    holder,         \* [Addresses -> SUBSET Registrations]
    stage,          \* [Registrations -> Stages]
    missing         \* [Registrations -> SUBSET Demands]: asked for, not shown

promise == <<holder, stage, missing>>

Stages == {"none", "pending", "enabled", "closing"}

Init ==
    /\ holder = [a \in Addresses |-> {}]
    /\ stage = [s \in Registrations |-> "none"]
    /\ missing = [s \in Registrations |-> {}]

Reserve(a, s) ==
    /\ holder[a] = {}
    /\ stage[s] = "none"
    /\ holder' = [holder EXCEPT ![a] = {s}]
    /\ stage' = [stage EXCEPT ![s] = "pending"]
    /\ missing' = [missing EXCEPT ![s] = Demands]

Show(s) ==
    /\ stage[s] = "pending"
    /\ \E shown \in SUBSET missing[s] :
           missing' = [missing EXCEPT ![s] = @ \ shown]
    /\ UNCHANGED <<holder, stage>>

Enable(s) ==
    /\ stage[s] = "pending"
    /\ missing[s] = {}
    /\ stage' = [stage EXCEPT ![s] = "enabled"]
    /\ UNCHANGED <<holder, missing>>

Withdraw(s) ==
    /\ stage[s] = "enabled"
    /\ stage' = [stage EXCEPT ![s] = "pending"]
    /\ UNCHANGED <<holder, missing>>

Close(s) ==
    /\ stage[s] \in {"pending", "enabled"}
    /\ stage' = [stage EXCEPT ![s] = "closing"]
    /\ missing' = [missing EXCEPT ![s] = {}]
    /\ UNCHANGED holder

Free(a, s) ==
    /\ s \in holder[a]
    /\ stage[s] = "closing"
    /\ holder' = [holder EXCEPT ![a] = @ \ {s}]
    /\ stage' = [stage EXCEPT ![s] = "none"]
    /\ UNCHANGED missing

Next ==
    \E s \in Registrations :
        \/ Show(s)
        \/ Enable(s)
        \/ Withdraw(s)
        \/ Close(s)
        \/ \E a \in Addresses : Reserve(a, s) \/ Free(a, s)

Spec == Init /\ [][Next]_promise

=============================================================================
