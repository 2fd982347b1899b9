--------------------------- MODULE MCInstallation ---------------------------
(* Two commands at a time, of which one at most is one that writes the user's *)
(* files.                                                                     *)
EXTENDS Installation

MCExclusive == {"setup", "install", "terminal"}
=============================================================================
