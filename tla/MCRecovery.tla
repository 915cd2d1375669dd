----------------------------- MODULE MCRecovery -----------------------------
(***************************************************************************)
(* Recovery for TLC.  Logs of up to ShortLog lines about two orders are as *)
(* free as Recovery leaves them.  Longer ones, up to MaxLog lines, and     *)
(* those about a third order hold only whole lines, of LIMIT orders of one *)
(* price and of trades: the shortest log with two trades, made by two      *)
(* processes, is of this kind, five lines long.                            *)
(***************************************************************************)
EXTENDS Recovery

ShortLog == 3

\* The orders the engine knows.
Known == {o.id : o \in ToSet(book.orders)} \cup {o.id : o \in ToSet(triggers)}

Short == Len(wal) <= ShortLog /\ Cardinality(Known) <= 2

OnePrice == CHOOSE p \in Prices : TRUE

OneLevel ==
    \A i \in DOMAIN wal :
        \/ wal[i].type = "trade"
        \/ wal[i].type = "submit" /\ wal[i].order.type = "LIMIT"
                                  /\ wal[i].order.price = OnePrice

MCNext == RecoveryNext /\ (Short \/ OneLevel)'

MCSpec == RecoveryInit /\ [][MCNext]_recoveryVars

=============================================================================
