----------------------------- MODULE MediaPlayer -----------------------------
(* EXTERNAL: android.media.MediaPlayer, as MusicService.java uses it.  It is   *)
(* not part of the repository; what is modelled is the documented life cycle   *)
(* that the calls of MusicService run into.  Operators on the record of one    *)
(* player, no variables.                                                       *)
(*                                                                             *)
(* A control call made in a state that forbids it does not throw: the player   *)
(* goes to its error state and an error event is posted to its listener.       *)
(* Events are posted to the main looper and handled there later, in order.     *)
EXTENDS Naturals, Sequences

CONSTANTS Songs,    \* the songs a player can be given
          None      \* no song, no player, no message

ASSUME NoneIsNoSong == None \notin Songs

PlayerStates == {"idle", "preparing", "prepared", "started", "paused",
                 "complete", "error", "end"}

(* "error" is any error code but MEDIA_ERROR_UNKNOWN, which is "unknown".      *)
Events == {"prepared", "completion", "error", "unknown"}

(* st      the life-cycle state                                                *)
(* src     the data source, None before setDataSource                          *)
(* loading prepareAsync was called and its outcome is still to be posted       *)
(* heard   the listeners of MusicService are registered                        *)
(* events  posted to the main looper, not yet handled                          *)
Player == [st : PlayerStates, src : Songs \cup {None}, loading : BOOLEAN,
           heard : BOOLEAN, events : Seq(Events)]

(* new MediaPlayer()                                                           *)
NewPlayer(heard) == [st |-> "idle", src |-> None, loading |-> FALSE,
                     heard |-> heard, events |-> <<>>]

(* setDataSource(song); prepareAsync()                                         *)
Preparing(song) == [st |-> "preparing", src |-> song, loading |-> TRUE,
                    heard |-> TRUE, events |-> <<>>]

(* stop(); reset(): also removes the events not yet handled.                   *)
Reset(m) == NewPlayer(m.heard)

(* release(): the listeners go, and what was posted finds no player.           *)
Released == [NewPlayer(FALSE) EXCEPT !.st = "end"]

Post(m, st, event) == [m EXCEPT !.st = st, !.events = Append(@, event)]

(* The states in which start() and seekTo(), pause() and getDuration() are     *)
(* allowed.                                                                    *)
Startable == {"prepared", "started", "paused", "complete"}
Pausable  == {"started", "paused", "complete"}
Timed     == {"prepared", "started", "paused", "complete"}

Sounding(m) == m.st = "started"

(* Nothing of this player can be heard, now or through an event to come.       *)
Quiet(m) == ~Sounding(m) /\ ~m.loading /\ m.events = <<>>
==============================================================================
