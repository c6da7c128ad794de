-------------------------- MODULE MCWorkspaceEdit --------------------------
\* A small tree for WorkspaceEdit: a directory with a file and a free name.
EXTENDS WorkspaceEdit

D == <<"d">>
DA == <<"d", "a">>
DB == <<"d", "b">>
MCPaths == {D, DA, DB}
MCFiles == {DA, DB}
MCStart == [p \in MCPaths |-> CASE p = D -> Dir [] p = DA -> File(0, 0) [] OTHER -> NoEntry]
MCRenames == {<<DA, DB>>, <<DB, DA>>}
=============================================================================
