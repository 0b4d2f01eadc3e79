------------------------------- MODULE MCBio --------------------------------
EXTENDS Bio
=============================================================================
