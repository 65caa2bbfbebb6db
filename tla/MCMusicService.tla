--------------------------- MODULE MCMusicService ---------------------------
(* A small instance of MusicService for TLC.                                   *)
EXTENDS MusicService

CONSTANTS first, second, remote     \* two songs of the table, one of the server

MCSongs        == {first, second, remote}
MCLocalSongs   == <<first, second>>
MCServerSongs  == {remote}
MCPlayers      == 1 .. 2

(* The behaviours up to the first disturbance, and of what follows one only    *)
(* as much as lets a late event be ignored: music of the table, nothing asked. *)
NearlyUndisturbed ==
    music.disturbed =>
        /\ ~lyric /\ ~aliased /\ requests = {} /\ intents = <<>> /\ phase = "running"
        /\ music.mCurrentSong # remote /\ music.playMode = "ListLoop"
        /\ music.quit.song = music.mCurrentSong
==============================================================================
