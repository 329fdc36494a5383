---------------------------- MODULE MCHttpServer ----------------------------
EXTENDS HttpServer, TLC

\* Clients are interchangeable, for the safety properties.
ClientSymmetry == Permutations(Clients)
=============================================================================
