------------------------------- MODULE MCLobby -------------------------------
(* A host with one session, and a guest that may return in a second one.     *)
EXTENDS Lobby

MCReturns == (Hosts \X {1}) \cup (Guests \X {1, 2})
MCFrames  == LobbyFrames
MCOuts    == LobbyOuts
=============================================================================
