-------------------------------- MODULE MCSql --------------------------------
(* Two threads, in five casts.  Two calls migrate the database through one *)
(* connection id, the second with one migration more, beside a batch that  *)
(* fails after its first write.  A statement that writes and returns a     *)
(* text nobody can decode, beside a migration, a batch or a plain write.   *)
(* A read and a call without a binding.                                    *)
EXTENDS Sql
CONSTANTS t1, t2, m1, m2, b1, b2, e1, e2, e3, e4

Ask(kind, body, bound) ==
  [kind |-> kind, connection |-> "id", body |-> body, bound |-> bound]

MCShard == [x \in Connections |-> t1]
MCRequest == [c \in Calls |->
  CASE c = m1 -> Ask("migrate", <<"write">>, TRUE)
    [] c = m2 -> Ask("migrate", <<"write", "write">>, TRUE)
    [] c = b1 -> Ask("batch", <<"write", "write">>, TRUE)
    [] c = b2 -> Ask("batch", <<"write", "invalid">>, TRUE)
    [] c = e1 -> Ask("exec", <<"text">>, TRUE)
    [] c = e2 -> Ask("exec", <<"read">>, TRUE)
    [] c = e3 -> Ask("exec", <<"write">>, TRUE)
    [] c = e4 -> Ask("exec", <<"write">>, FALSE)]
MCCasts == {{m1, m2, b2}, {m1, e1}, {b1, e1}, {e1, e3}, {e2, e4}}
=============================================================================
