------------------------------ MODULE MCSystem ------------------------------
(***************************************************************************)
(* An instance of System for TLC: a Modbus TCP client and an OPC client,   *)
(* each on a server of its own, at the fastest rate and at another one.    *)
(***************************************************************************)
EXTENDS System, TLC

CONSTANTS s1, s2

MCProtocol == (0 :> "TCP") @@ (1 :> "OPC")
MCServer   == (0 :> s1) @@ (1 :> s2)
MCRate     == (0 :> "100ms") @@ (1 :> "1s")
=============================================================================
