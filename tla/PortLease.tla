------------------------------ MODULE PortLease ------------------------------
(***************************************************************************)
(* What setAppiumPort promises, said without its counter: a device holds   *)
(* at most one Appium port, a port once granted is never taken back or     *)
(* replaced while the process lives, and no two devices share one.         *)
(***************************************************************************)
EXTENDS Naturals

CONSTANTS Holder, FirstPort

VARIABLE lease    \* lease[d] is the port of d, or 0 when it has none

Free(p) == \A e \in Holder : lease[e] # p

\* Device d, which has no port, is granted one that nobody holds.
Grant(d) ==
    /\ lease[d] = 0
    /\ lease' = [lease EXCEPT ![d] = lease'[d]]
    /\ lease'[d] \in Nat /\ lease'[d] >= FirstPort
    /\ Free(lease'[d])

Init == lease = [d \in Holder |-> 0]

Next == \E d \in Holder : Grant(d)

Spec == Init /\ [][Next]_lease
=============================================================================
