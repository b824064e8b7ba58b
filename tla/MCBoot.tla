------------------------------- MODULE MCBoot -------------------------------
EXTENDS Boot

CONSTANTS s1, s2, s3, a1, a2

MCSeeds == {s1, s2, s3}
MCAnchors == {a1, a2}
MCAttested == {s1, s2}
MCMined == {a1}
=============================================================================
