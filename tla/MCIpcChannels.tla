---------------------------- MODULE MCIpcChannels ----------------------------
EXTENDS IpcChannels

OneChannel == [r \in Requests |-> "ch"]
=============================================================================
