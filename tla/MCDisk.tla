------------------------------- MODULE MCDisk -------------------------------
EXTENDS Disk
=============================================================================
