---- MODULE MCLedBlinker ----
EXTENDS LedBlinker
\* A fade, up from nothing or down from a level set at once.
FadeAndJump == {[alpha |-> 10, ms |-> 25], [alpha |-> 250, ms |-> 9]}
====
