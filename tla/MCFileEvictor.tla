--------------------------- MODULE MCFileEvictor ---------------------------
EXTENDS FileEvictor, TLC

CONSTANTS a, b, c

\* c is a large block beside two small pages.
Sizes == (a :> 1) @@ (b :> 1) @@ (c :> 2)
=============================================================================
