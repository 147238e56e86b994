------------------------ MODULE MCWebsocketConnection ------------------------
EXTENDS WebsocketConnection
==============================================================================
