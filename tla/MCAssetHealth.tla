---------------------------- MODULE MCAssetHealth ----------------------------
\* A small instance of AssetHealth.
EXTENDS AssetHealth

MCLives    == {[months |-> -6, lifespan |-> 60], [months |-> 6, lifespan |-> 6]}
MCReadings == {[hours |-> 0, breaches |-> 0, checks |-> 4], [hours |-> 72, breaches |-> 3, checks |-> 4]}
=============================================================================
