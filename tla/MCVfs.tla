-------------------------------- MODULE MCVfs --------------------------------
EXTENDS Vfs

\* The root by its empty name, "/", two files, and a path through a file
MCPaths == {<< >>, <<"">>, <<"a">>, <<"b">>, <<"a", "b">>}
=============================================================================
