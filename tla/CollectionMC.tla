---------------------------- MODULE CollectionMC ----------------------------
EXTENDS Collection
CONSTANTS sim, src, f1, f2, c1
MCOrder == <<sim, src>>
MCWatched == {sim}
=============================================================================
