--------------------------- MODULE MCModeration ---------------------------
\* Moderation on a small instance: users and handlers are interchangeable.
EXTENDS Moderation, TLC

Sym == Permutations(Users) \cup Permutations(Calls)
===========================================================================
