---------------------------- MODULE MCMqttClient ----------------------------
\* Instances of MqttClient for TLC.
EXTENDS MqttClient, TLC

NoQoS == {}
TopicSymmetry == Permutations(Topics)
=============================================================================
