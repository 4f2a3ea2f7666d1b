------------------------------ MODULE Records ------------------------------
(***************************************************************************)
(* The records at work: Tollbooth serves requests and changes (Ledger)     *)
(* while one client reads them (Reports) or an administrator copies the    *)
(* database (CopyDatabase).  Neither disturbs the other, so a behaviour    *)
(* has one of the two.                                                     *)
(***************************************************************************)
EXTENDS Reports, CopyDatabase

vars == <<storeVars, readVars, copyVars>>

Init == StoreInit /\ ReadInit /\ CopyInit

Next ==
    \/ Serve /\ UNCHANGED <<readVars, copyVars>>
    \/ Read /\ copier.pc = "idle" /\ UNCHANGED <<storeVars, copyVars>>
    \/ Copy /\ Unread /\ UNCHANGED <<storeVars, readVars>>

Spec == Init /\ [][Next]_vars

TypeOK == StoreTypeOK /\ ReadTypeOK /\ CopyTypeOK
=============================================================================
