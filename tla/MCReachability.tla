-------------------------- MODULE MCReachability --------------------------
\* Small instances of Reachability: the names, and the lists of calls tried.
EXTENDS Reachability

CONSTANTS a, b, c

ThreeNames == {a, b, c}

\* The handler makes one call or two different ones.  Names are alike before
\* the handler calls them, so that it calls a first and b second loses nothing.
OneOrTwo == {<<a>>, <<a, b>>}

\* A function that calls nothing is as good as a name bound to nothing.
JustOne == {<<n>> : n \in ThreeNames}
=============================================================================
