----------------------------- MODULE MCBoarding -----------------------------
EXTENDS Boarding, TLC
====
