--------------------------- MODULE MCMessageIntake ---------------------------
(* For TLC: a mail with two attachments, an HTTP request and an upload with  *)
(* the bytes of the first, and a connector request.                          *)
EXTENDS MessageIntake

CONSTANTS m1, h, c, a1, a2, h1, d, x, y,
          MaxArrivals  \* bound: messages and direct uploads in one behaviour

Bytes == [u \in Uploads |-> IF u = a2 THEN y ELSE x]

Handed == [m \in Messages |->
  CASE m = m1 -> <<a1, a2>> [] m = h -> <<h1>> [] m = c -> <<>>]

Arrived == {m \in Messages : place[m] # "idle"} \cup {u \in Direct : pc[u] # "idle"}

FewArrivals == Cardinality(Arrived) <= MaxArrivals

=============================================================================
