---- MODULE MCService ----
EXTENDS Service
====
