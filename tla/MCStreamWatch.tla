---- MODULE MCStreamWatch ----
EXTENDS StreamWatch
====
