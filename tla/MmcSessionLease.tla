-------------------------- MODULE MmcSessionLease --------------------------
(* MmcSession with a clock for each lock that a page has: the ticks since    *)
(* the page got it, up to LockTimeout.                                       *)
EXTENDS MCMmcSession

VARIABLE age

LeaseInit == Init /\ age = [p \in Page |-> [s \in Server |-> 0]]

LeaseStep ==
    /\ Step
    /\ age' = [p \in Page |-> [s \in Server |->
                  IF s \in locked'[p] \ locked[p] THEN 0 ELSE age[p][s]]]

LeaseTick ==
    /\ Tick
    /\ age' = [p \in Page |-> [s \in Server |->
                  IF age[p][s] < LockTimeout THEN age[p][s] + 1 ELSE LockTimeout]]

LeaseSpec == LeaseInit /\ [][LeaseStep \/ LeaseTick]_<<vars, age>>

(* A lock keeps other pages out for lock_timeout: the comment in             *)
(* php_mmc_session_read_request says that the add "should fail if lock has   *)
(* been incremented", and the increment is given lock_timeout to expire.     *)
LeaseHeld ==
    \A p, q \in Page : \A s \in locked[p] \cap locked[q] :
        p # q => LockTimeout \in {age[p][s], age[q][s]}
============================================================================
