------------------------------ MODULE MCLifecycle ------------------------------
(* Two spellings of one host, another host, an IP and no name at all. *)
EXTENDS Lifecycle

MCCanonical == [s \in Spellings |->
  CASE s \in {"a", "A."} -> "a" [] s = "ip" -> "ip" [] s = "b" -> "b" [] s = "*" -> Invalid]

=============================================================================
