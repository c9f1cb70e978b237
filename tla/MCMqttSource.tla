---------------------------- MODULE MCMqttSource ----------------------------
(* Small instances of MqttSource: every order of the handlers, SUBACKs and *)
(* fleet reads of two connections.                                         *)
EXTENDS MqttSource
=============================================================================
