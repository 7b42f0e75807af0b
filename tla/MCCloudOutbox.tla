---- MODULE MCCloudOutbox ----
EXTENDS CloudOutbox, TLC

Symmetry == Permutations(Messages)
====
