---- MODULE MCRestServer ----
EXTENDS RestServer
====
