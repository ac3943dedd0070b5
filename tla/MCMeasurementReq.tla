-------------------------- MODULE MCMeasurementReq --------------------------
(* Model-checking instance of MeasurementReq: two slots of which slot 0 *)
(* has a peer certificate chain.                                        *)
EXTENDS MeasurementReq

MCNumSlots == 2
MCPopulatedSlots == {0}
=============================================================================
