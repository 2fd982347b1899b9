------------------------------ MODULE MCTools ------------------------------
(* A good plugin and one whose name is taken. *)
EXTENDS Tools

MCFiles == {[marked |-> TRUE, name |-> "plugin", json |-> TRUE],
            [marked |-> TRUE, name |-> "bash", json |-> TRUE]}
MCAsked == {"write_file", "plugin", "delegate"}
=============================================================================
