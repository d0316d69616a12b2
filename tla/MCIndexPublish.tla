--------------------------- MODULE MCIndexPublish ---------------------------
EXTENDS IndexPublish, TLC
CONSTANTS u1, u2, d, v1, v2, blank

\* Two versions that share a chunk, and one without any.
MCChunks == v1 :> {1, 2} @@ v2 :> {2, 3} @@ blank :> {}

UploadSymmetry == Permutations(Uploads)
=============================================================================
