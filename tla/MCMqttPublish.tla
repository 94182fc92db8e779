--------------------------- MODULE MCMqttPublish ---------------------------
EXTENDS MqttPublishInv, TLC
Symmetry == Permutations(Tasks)
====
