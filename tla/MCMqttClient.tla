----------------------------- MODULE MCMqttClient -----------------------------
(* Model values for MqttClient.                                             *)
EXTENDS MqttClient

CONSTANTS a, b

TwoTopics == {a, b}
=============================================================================
