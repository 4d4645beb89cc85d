---------------------------- MODULE MCRideClient -----------------------------
(* RideClient on a small instance: every connection has the same conn_id,  *)
(* so that nothing the code compares tells one from the next, and          *)
(* controllers whose tables end the discovery at different points.         *)
EXTENDS RideClient, TLC

MCLinks == {0}
MCNextLink == 0 :> 0
MCConnIdOf == 0 :> 7
MCNoConn == 65535

FullTable == Attributes

MCTables == {FullTable,
             Attributes \ {"sync_tx_subscribable"},
             Attributes \ {"sync_rx_write_nr"}}

=============================================================================
