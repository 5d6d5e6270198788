----------------------------- MODULE MCImageFetch -----------------------------
(* Instances of ImageFetch for TLC.                                        *)
EXTENDS ImageFetch, TLC

CONSTANTS h1, h2, a, b
=============================================================================
