----------------------------- MODULE MCMqttConn -----------------------------
EXTENDS MqttConn

ASSUME Hypotheses == ServerDelay < 2 * PingWait
====
