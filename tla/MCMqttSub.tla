----------------------------- MODULE MCMqttSub -----------------------------
EXTENDS MqttSub, TLC

Symmetry == Permutations(Tasks)

\* Without it a SUBACK may find no slot: nobody hears of it, its string is lost.
ASSUME Hypotheses == EnoughSlots

\* One topic with two pairs of handlers; that and a second topic; two topics.
CONSTANTS a, b, g, h
TwoOfOne  == {<<a, g>>, <<a, h>>}
TwoAndOne == TwoOfOne \cup {<<b, g>>}
OneEach   == {<<a, g>>, <<b, g>>}
====
