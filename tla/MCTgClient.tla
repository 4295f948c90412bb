----------------------------- MODULE MCTgClient -----------------------------
EXTENDS TgClient
=============================================================================
