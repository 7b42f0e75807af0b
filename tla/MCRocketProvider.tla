---- MODULE MCRocketProvider ----
EXTENDS RocketProvider
====
