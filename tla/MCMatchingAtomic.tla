-------------------------- MODULE MCMatchingAtomic --------------------------
(***************************************************************************)
(* AtomicCalls for TLC.  Ids are interchangeable and never used twice      *)
(* here, so a new order always gets one and the same of the unused ids.    *)
(* (A liveness property rules out SYMMETRY.)                               *)
(***************************************************************************)
EXTENDS AtomicCalls

NextId == CHOOSE id \in Ids : \A r \in DOMAIN book.orders : book.orders[r].id # id

MCNext ==
    /\ AtomicNext
    /\ \A r \in DOMAIN book'.orders \ DOMAIN book.orders : book'.orders[r].id = NextId

MCSpec == AtomicInit /\ [][MCNext]_<<vars, outcome>> /\ WF_vars(InCall)

=============================================================================
