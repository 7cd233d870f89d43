------------------------------ MODULE Sessions ------------------------------
(***************************************************************************)
(* What accounts and logins promise, whatever the servlets and the pages   *)
(* do in between: accounts are made of what somebody entered and never     *)
(* change or go; and the user of a device changes in two ways only, to the *)
(* owner of an account whose name and password were entered on this        *)
(* device, or to nobody.                                                   *)
(***************************************************************************)
CONSTANTS Devices, Names, Passwords, Nobody

VARIABLES accounts,     \* the names and passwords that are registered
          entered,      \* those that were entered, on each device
          user          \* who uses each device

vars == <<accounts, entered, user>>

Credentials == [username : Names, password : Passwords]

Init == /\ accounts = {}
        /\ entered = [d \in Devices |-> {}]
        /\ user = [d \in Devices |-> Nobody]

Enter(d, credentials) ==
    /\ entered' = [entered EXCEPT ![d] = @ \union {credentials}]
    /\ UNCHANGED <<accounts, user>>

Register(d, credentials) ==
    /\ credentials \in entered[d]
    /\ accounts' = accounts \union {credentials}
    /\ UNCHANGED <<entered, user>>

Begin(d, credentials) ==
    /\ credentials \in entered[d] \intersect accounts
    /\ user' = [user EXCEPT ![d] = credentials.username]
    /\ UNCHANGED <<accounts, entered>>

End(d) == /\ user' = [user EXCEPT ![d] = Nobody]
          /\ UNCHANGED <<accounts, entered>>

Next == \E d \in Devices :
            \/ \E credentials \in Credentials : \/ Enter(d, credentials)
                                                \/ Register(d, credentials)
                                                \/ Begin(d, credentials)
            \/ End(d)

Spec == Init /\ [][Next]_vars

=============================================================================
