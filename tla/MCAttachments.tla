--------------------------- MODULE MCAttachments ---------------------------
(* A small instance of Attachments for TLC. *)
EXTENDS Attachments

\* "A", "a", "b"
MCKeys == {65, 97, 98}

\* No headers, and two that are one key in two cases around another.
MCBegins == {<<>>, <<[key |-> 65, value |-> "x"], [key |-> 98, value |-> "x"], [key |-> 97, value |-> "y"]>>}

\* Two types of the same name from two crates, and a third.
MCTypes == {[path |-> "auth", name |-> "UserId"], [path |-> "audit", name |-> "UserId"],
            [path |-> "auth", name |-> "Deadline"]}
=============================================================================
