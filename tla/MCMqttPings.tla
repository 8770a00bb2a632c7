----------------------------- MODULE MCMqttPings -----------------------------
EXTENDS MqttPings
=============================================================================
