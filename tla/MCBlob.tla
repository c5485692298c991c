------------------------------- MODULE MCBlob -------------------------------
EXTENDS Blob
CONSTANTS a, b, v1, v2, p1, p2, g1, d1, g2

Ask(op, o, v, isBound) == [op |-> op, object |-> o, value |-> v, bound |-> isBound]

\* Two puts, a delete and a get of one object race; a call without a binding runs
\* beside them.
MCRequest ==
    [c \in Calls |->
        CASE c = p1 -> Ask("put", a, v1, TRUE)
          [] c = p2 -> Ask("put", a, v2, TRUE)
          [] c = g1 -> Ask("get", a, v1, TRUE)
          [] c = d1 -> Ask("delete", a, v1, TRUE)
          [] c = g2 -> Ask("get", b, v1, FALSE)]
=============================================================================
