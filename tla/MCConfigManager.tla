--------------------------- MODULE MCConfigManager ---------------------------
(***************************************************************************)
(* Two requests, lists with two spellings of one name and a blank one.     *)
(***************************************************************************)
EXTENDS ConfigManager

Blank == [fold |-> 0, text |-> 0]
Git == [fold |-> 1, text |-> 1]
GIT == [fold |-> 1, text |-> 2]
Files == [fold |-> 2, text |-> 3]

Policies == {"mcp", "skills", "paths", "keywords"}
Entries == {Blank, Git, GIT, Files}

\* Unordered with a repeated name, too long for most policies, and invalid.
Drafts == {<<Files, GIT>>, <<Git, GIT, Files>>, <<Git, Blank>>}

=============================================================================
