----------------------------- MODULE MCFileRead -----------------------------
\* Small instances of FileRead: two FUSE threads and one read thread at a time.
EXTENDS FileRead, TLC

CONSTANTS c1, c2, t1

\* The clients are interchangeable; every property quantifies over all of them.
Symmetry == Permutations(Clients)
=============================================================================
