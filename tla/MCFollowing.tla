---------------------------- MODULE MCFollowing ----------------------------
(* Small instances of Following.                                               *)
EXTENDS Following

CONSTANTS own, ballad, ann

MCSongs       == {own, ballad}
MCLocalSongs  == <<own>>
MCServerSongs == {ballad}
MCFriend      == {ann}
MCPlayers     == 1 .. 2
MCPollers     == 1 .. 2
MCOnePoller   == {1}

(* The service runs, the lyric screen is closed.                               *)
LyricClosed == ~lyric /\ phase \in {"starting", "running"} /\ Len(intents) <= 1

(* Up to the first disturbance.                                                *)
Undisturbed == ~music.disturbed
==============================================================================
