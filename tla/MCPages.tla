------------------------------ MODULE MCPages ------------------------------
EXTENDS Pages

CONSTANTS x, y

MCServices == {[client |-> x, server |-> NoId], [client |-> x, server |-> y]}
=============================================================================
