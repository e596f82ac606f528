---------------------------- MODULE MCAnswering ----------------------------
\* Answering on a small instance.
EXTENDS Answering, TLC

Sym == Permutations(Calls)
===========================================================================
