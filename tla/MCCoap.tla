------------------------------- MODULE MCCoap -------------------------------
EXTENDS Coap, TLC

\* One option of each length that the format writes in its own way.
ReplyOptions_MC ==
  <<[num |-> 12, val |-> <<0>>], [num |-> 60, val |-> Bytes(14)],
    [num |-> 400, val |-> <<>>]>>

ASSUME Hypotheses == WireFaithful
====
