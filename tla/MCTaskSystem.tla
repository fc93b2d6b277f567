---- MODULE MCTaskSystem ----
EXTENDS TaskSystem
OneEach == [c \in Channels |-> 1]
====
