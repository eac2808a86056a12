------------------------------ MODULE MCAdapters ------------------------------
\* Two photos of one album and a message, and few events around them.
EXTENDS Adapters

CONSTANTS m1, m2

MCMessages == {m1, m2}
MCMentions == {m2}
MCAlbums == {m1, m2}
=============================================================================
