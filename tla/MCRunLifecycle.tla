---------------------------- MODULE MCRunLifecycle ----------------------------
EXTENDS RunLifecycle, TLC

\* Servers, requests and resources are each interchangeable.
Symmetry == Permutations(Server) \cup Permutations(Request) \cup Permutations(Res)
===============================================================================
