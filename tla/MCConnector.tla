---------------------------- MODULE MCConnector ----------------------------
(* Small instances of Connector for TLC.                                   *)
EXTENDS Connector, TLC

\* Callers are interchangeable.
ConnectorSymmetry == Permutations(Callers)
=============================================================================
