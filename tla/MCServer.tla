------------------------------ MODULE MCServer ------------------------------
(***************************************************************************)
(* A small instance of Server: one transaction of a client, one of the     *)
(* database proxy and one that the checker pulls, and a channel for one    *)
(* signal, so that signals are dropped and the exit signal has to wait.    *)
(***************************************************************************)
EXTENDS Server

CONSTANTS ofClient, ofProxy, ofPull

TxsDef == {ofClient, ofProxy, ofPull}
ViaDef == [t \in TxsDef |-> IF t = ofClient THEN "client"
                            ELSE IF t = ofProxy THEN "proxy" ELSE "pull"]
=============================================================================
