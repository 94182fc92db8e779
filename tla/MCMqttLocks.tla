---------------------------- MODULE MCMqttLocks ----------------------------
EXTENDS MqttLocks, TLC

Symmetry == Permutations(Tasks)
====
