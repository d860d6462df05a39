--------------------------- MODULE MCDevicePlugin ---------------------------
(***************************************************************************)
(* Two processes, of which the first is told to stop.  The faults come     *)
(* when it has gone, so that the handover and the life of the process that *)
(* stays are both explored without their product.                          *)
(***************************************************************************)
EXTENDS DevicePlugin

Gone == \A p \in Leaving : term[p] /\ pc[p] = "down"

MCNext == Next /\ (faults' # faults => Gone)

MCSpec == Init /\ [][MCNext]_vars /\ Fairness
=============================================================================
