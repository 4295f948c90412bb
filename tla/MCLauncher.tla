----------------------------- MODULE MCLauncher -----------------------------
EXTENDS Launcher

CONSTANTS cron, j1
=============================================================================
