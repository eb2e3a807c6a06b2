------------------------------- MODULE MCEvents -------------------------------
EXTENDS Events
CONSTANTS o1, e1, e2
\* One object with an event that runs anywhere and again and again, and one
\* that waits for a while and runs once, in a map.
OneObject == [e \in Events |-> o1]
Wait == [e \in Events |-> IF e = e1 THEN 0 ELSE 1]
===============================================================================
