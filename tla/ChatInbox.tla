----------------------------- MODULE ChatInbox -----------------------------
(* The chat tables and the screens over them: the listener of the messaging    *)
(* library (MyReceiveMessageListener.onReceived, on a thread of the library)   *)
(* against the main thread (ChatDetailActivity, the chat list of ChatFragment, *)
(* the unread dots of HomeFragment and SocialFragment).                        *)
(*                                                                             *)
(* Each statement on the database is a transaction of its own, so the two      *)
(* threads interleave between any two of them.  A step is one statement; the   *)
(* pc of a thread names the statement to come.  Local broadcasts are queued    *)
(* for the main thread, for the receivers registered when they are sent.       *)
EXTENDS Naturals, Sequences, SequencesExt

CONSTANTS Users,        \* whom one chats with
          None,
          MaxMessages,  \* messages received or sent (bound)
          MaxBroadcasts \* nothing more begins with so many in flight (bound)

ASSUME InboxAssumption ==
    None \notin Users /\ MaxMessages \in Nat /\ MaxBroadcasts \in Nat

VARIABLES rows,         \* chatlistinfo: the rows of a user, in order
          details,      \* chatdetailinfo: the messages with a user, in order
          worker,       \* the listener's thread
          main,         \* the main thread
          screen,       \* the chat screen, if there is one
          sending,      \* messages handed to the library, not yet confirmed
          broadcasts,   \* NOTIFY_CHAT_LIST_INFO, sent and not yet received
          list,         \* the entries of the chat list's adapter
          badge,        \* the unread dots are lit
          count         \* messages so far

vars == <<rows, details, worker, main, screen, sending, broadcasts, list, badge, count>>
------------------------------------------------------------------------------
Numbers  == 1 .. MaxMessages
Message  == [user : Users, id : Numbers, mine : BOOLEAN]
Messages == Message \cup {None}
Unreads  == 0 .. MaxMessages \cup {None}          \* None is the null of the column
Row      == [last : Messages, unread : Unreads]

(* found, unread: what the thread read from the table and still uses.          *)
WorkerPc == {"idle", "find", "row", "read", "count", "detail", "send"}
Worker   == [pc : WorkerPc, msg : Messages, found : BOOLEAN, unread : Unreads]
IdleWorker == [pc |-> "idle", msg |-> None, found |-> FALSE, unread |-> None]

(* user, last: the chat of makeUnreadTohadread and the last message it shows.  *)
(* here: the screen a sent message was written on is still the one there is.   *)
MainPc   == {"idle", "load", "mark", "announce", "sentrow", "sentdetail", "sentsend"}
Main     == [pc : MainPc, user : Users \cup {None}, last : Messages,
             found : BOOLEAN, here : BOOLEAN]
IdleMain == [pc |-> "idle", user |-> None, last |-> None, found |-> FALSE, here |-> FALSE]

Screen    == [user : Users, shown : Seq(Message)]
Sent      == [msg : Message, here : BOOLEAN]
(* detail: the message to show; live: to the screen there is.                  *)
Broadcast == [user : Users, last : Messages, unread : Unreads,
              detail : Messages, live : BOOLEAN]

ASSUME NoneIsNoRecord == None \notin Message /\ None \notin Screen

(* The statements of ChatListInfoDao and ChatDetailInfoDao, by user.           *)
Find(u)          == rows[u] # <<>>
SetLast(u, m)    == rows' = [rows EXCEPT ![u] = [i \in DOMAIN @ |-> [@[i] EXCEPT !.last = m]]]
AddRow(u, m)     == rows' = [rows EXCEPT ![u] = Append(@, [last |-> m, unread |-> None])]
SetUnread(u, n)  == rows' = [rows EXCEPT ![u] = [i \in DOMAIN @ |-> [@[i] EXCEPT !.unread = n]]]
GetUnread(u)     == IF Find(u) THEN Last(rows[u]).unread ELSE None
AddDetail(u, m)  == details' = [details EXCEPT ![u] = Append(@, m)]
HaveUnread       == \E u \in Users : \E i \in DOMAIN rows[u] :
                        rows[u][i].unread \notin {None, 0}

(* updateChatListInfo of the two fragments with a dot.                         *)
UpdateDots == badge' = HaveUnread

(* Registered since the first line of onCreate.                                *)
ReceivingOnceResumed ==                      \* mutant: registered once all is shown
    screen # None /\ main.pc \notin {"load", "mark", "announce"}

Receiving == screen # None

Announce(user, last, unread, detail) ==
    broadcasts' = Append(broadcasts,
        [user |-> user, last |-> last, unread |-> unread, detail |-> detail,
         live |-> detail # None /\ Receiving])
------------------------------------------------------------------------------
(* A process that has just started reads what the tables hold.                 *)
StartWith(table) ==
    /\ worker = IdleWorker /\ main = IdleMain
    /\ screen = None /\ sending = {} /\ broadcasts = <<>>
    /\ list = table

Init ==
    /\ rows = [u \in Users |-> <<>>]
    /\ details = [u \in Users |-> <<>>]
    /\ StartWith([u \in Users |-> <<>>])
    /\ badge = FALSE
    /\ count = 0

WorkerOnly == UNCHANGED <<main, screen, sending, list, badge>>
MainOnly   == UNCHANGED <<worker, count>>

(* Room for the broadcast of what begins (bound).                              *)
Room == Len(broadcasts) < MaxBroadcasts

(* onReceived; friend requests (isVerifyMsg) are not chat and return at once.  *)
Receive(u) ==
    /\ worker.pc = "idle" /\ count < MaxMessages /\ Room
    /\ count' = count + 1
    /\ worker' = [IdleWorker EXCEPT !.pc = "find",
                    !.msg = [user |-> u, id |-> count', mine |-> FALSE]]
    /\ UNCHANGED <<rows, details, broadcasts>> /\ WorkerOnly

WorkerFind ==
    /\ worker.pc = "find"
    /\ worker' = [worker EXCEPT !.pc = "row", !.found = Find(worker.msg.user)]
    /\ UNCHANGED <<rows, details, broadcasts, count>> /\ WorkerOnly

WorkerRow ==
    /\ worker.pc = "row"
    /\ IF worker.found THEN SetLast(worker.msg.user, worker.msg)
                       ELSE AddRow(worker.msg.user, worker.msg)
    /\ worker' = [worker EXCEPT !.pc = "read"]
    /\ UNCHANGED <<details, broadcasts, count>> /\ WorkerOnly

WorkerRead ==
    /\ worker.pc = "read"
    /\ worker' = [worker EXCEPT !.pc = "count", !.unread = GetUnread(worker.msg.user)]
    /\ UNCHANGED <<rows, details, broadcasts, count>> /\ WorkerOnly

OneMore(n) == IF n = None THEN 1 ELSE n + 1

WorkerCount ==
    /\ worker.pc = "count"
    /\ SetUnread(worker.msg.user, OneMore(worker.unread))
    /\ worker' = [worker EXCEPT !.pc = "detail", !.unread = OneMore(@)]
    /\ UNCHANGED <<details, broadcasts, count>> /\ WorkerOnly

WorkerDetail ==
    /\ worker.pc = "detail"
    /\ AddDetail(worker.msg.user, worker.msg)
    /\ worker' = [worker EXCEPT !.pc = "send"]
    /\ UNCHANGED <<rows, broadcasts, count>> /\ WorkerOnly

WorkerSend ==
    /\ worker.pc = "send"
    /\ Announce(worker.msg.user, worker.msg, worker.unread, worker.msg)
    /\ worker' = IdleWorker
    /\ UNCHANGED <<rows, details, count>> /\ WorkerOnly
------------------------------------------------------------------------------
LastShown(shown) == IF shown = <<>> THEN None ELSE Last(shown)

(* onCreate: registers, then reads the messages; onResume follows at once.     *)
OpenChat(u) ==
    /\ main.pc = "idle" /\ screen = None /\ Room
    /\ screen' = [user |-> u, shown |-> <<>>]
    /\ main' = [IdleMain EXCEPT !.pc = "load", !.user = u]
    /\ UNCHANGED <<rows, details, sending, broadcasts, list, badge>> /\ MainOnly

LoadChat ==
    /\ main.pc = "load"
    /\ screen' = [screen EXCEPT !.shown = details[screen.user]]
    /\ main' = [main EXCEPT !.pc = "mark", !.last = LastShown(details[screen.user])]
    /\ UNCHANGED <<rows, details, sending, broadcasts, list, badge>> /\ MainOnly

(* onResume of a screen that was covered.                                      *)
ResumeChat ==
    /\ main.pc = "idle" /\ screen # None /\ Room
    /\ main' = [IdleMain EXCEPT !.pc = "mark", !.user = screen.user,
                                !.last = LastShown(screen.shown)]
    /\ UNCHANGED <<rows, details, screen, sending, broadcasts, list, badge>> /\ MainOnly

(* onDestroy: unregisters, then marks.                                         *)
CloseChat ==
    /\ main.pc = "idle" /\ screen # None /\ Room
    /\ main' = [IdleMain EXCEPT !.pc = "mark", !.user = screen.user,
                                !.last = LastShown(screen.shown)]
    /\ screen' = None
    /\ sending' = {[s EXCEPT !.here = FALSE] : s \in sending}
    /\ broadcasts' = [i \in DOMAIN broadcasts |-> [broadcasts[i] EXCEPT !.live = FALSE]]
    /\ UNCHANGED <<rows, details, list, badge>> /\ MainOnly

(* makeUnreadTohadread, and its broadcast.                                     *)
MarkRead ==
    /\ main.pc = "mark"
    /\ IF main.last = None
       THEN main' = IdleMain /\ UNCHANGED rows
       ELSE main' = [main EXCEPT !.pc = "announce"] /\ SetUnread(main.user, 0)
    /\ UNCHANGED <<details, screen, sending, broadcasts, list, badge>> /\ MainOnly

AnnounceRead ==
    /\ main.pc = "announce"
    /\ Announce(main.user, main.last, 0, None)
    /\ main' = IdleMain
    /\ UNCHANGED <<rows, details, screen, sending, list, badge>> /\ MainOnly

(* The send button.                                                            *)
Send ==
    /\ main.pc = "idle" /\ screen # None /\ count < MaxMessages
    /\ count' = count + 1
    /\ sending' = sending \cup
         {[msg |-> [user |-> screen.user, id |-> count', mine |-> TRUE], here |-> TRUE]}
    /\ UNCHANGED <<rows, details, worker, main, screen, broadcasts, list, badge>>

SendFails(s) ==
    /\ s \in sending
    /\ sending' = sending \ {s}
    /\ UNCHANGED <<rows, details, main, screen, broadcasts, list, badge>> /\ MainOnly

(* onSuccess, on the main thread and maybe after its screen is gone.           *)
SentFind(s) ==
    /\ main.pc = "idle" /\ s \in sending /\ Room
    /\ sending' = sending \ {s}
    /\ main' = [pc |-> "sentrow", user |-> s.msg.user, last |-> s.msg,
                found |-> Find(s.msg.user), here |-> s.here]
    /\ UNCHANGED <<rows, details, screen, broadcasts, list, badge>> /\ MainOnly

NeverAdd ==                                  \* mutant: a first message adds no row
    /\ main.pc = "sentrow"
    /\ SetLast(main.user, main.last)
    /\ main' = [main EXCEPT !.pc = "sentdetail"]
    /\ UNCHANGED <<details, screen, sending, broadcasts, list, badge>> /\ MainOnly

SentRow ==
    /\ main.pc = "sentrow"
    /\ IF main.found THEN SetLast(main.user, main.last) ELSE AddRow(main.user, main.last)
    /\ main' = [main EXCEPT !.pc = "sentdetail"]
    /\ UNCHANGED <<details, screen, sending, broadcasts, list, badge>> /\ MainOnly

SentDetail ==
    /\ main.pc = "sentdetail"
    /\ AddDetail(main.user, main.last)
    /\ screen' = IF main.here THEN [screen EXCEPT !.shown = Append(@, main.last)] ELSE screen
    /\ main' = [main EXCEPT !.pc = "sentsend"]
    /\ UNCHANGED <<rows, sending, broadcasts, list, badge>> /\ MainOnly

SentSend ==
    /\ main.pc = "sentsend"
    /\ Announce(main.user, main.last, None, None)
    /\ main' = IdleMain
    /\ UNCHANGED <<rows, details, screen, sending, list, badge>> /\ MainOnly

(* ChatListViewAdapter.updateData                                              *)
UpdateData(entries, b) ==
    IF entries = <<>> THEN <<[last |-> b.last, unread |-> b.unread]>>
    ELSE [i \in DOMAIN entries |-> [last |-> b.last, unread |-> b.unread]]

BadgeFromNews ==                             \* mutant: the news, not the table
    /\ main.pc = "idle" /\ broadcasts # <<>>
    /\ LET b == Head(broadcasts) IN
         /\ list' = [list EXCEPT ![b.user] = UpdateData(@, b)]
         /\ badge' = (b.unread \notin {None, 0})
         /\ screen' = IF b.live THEN [screen EXCEPT !.shown = Append(@, b.detail)]
                      ELSE screen
    /\ broadcasts' = Tail(broadcasts)
    /\ UNCHANGED <<rows, details, main, sending>> /\ MainOnly

(* The receivers of BaseFragment and BaseActivity.                             *)
HandleBroadcast ==
    /\ main.pc = "idle" /\ broadcasts # <<>>
    /\ LET b == Head(broadcasts) IN
         /\ list' = [list EXCEPT ![b.user] = UpdateData(@, b)]
         /\ UpdateDots
         /\ screen' = IF b.live THEN [screen EXCEPT !.shown = Append(@, b.detail)]
                      ELSE screen
    /\ broadcasts' = Tail(broadcasts)
    /\ UNCHANGED <<rows, details, main, sending>> /\ MainOnly

(* The process dies and starts again: the tables stay as they are, between two *)
(* statements.                                                                 *)
Restart ==
    /\ worker' = IdleWorker /\ main' = IdleMain
    /\ screen' = None /\ sending' = {} /\ broadcasts' = <<>>
    /\ list' = rows /\ UpdateDots
    /\ UNCHANGED <<rows, details, count>>

WorkerStep == \/ \E u \in Users : Receive(u)
              \/ WorkerFind \/ WorkerRow \/ WorkerRead \/ WorkerCount
              \/ WorkerDetail \/ WorkerSend
ScreenStep == \/ \E u \in Users : OpenChat(u)
              \/ LoadChat \/ ResumeChat \/ CloseChat \/ MarkRead \/ AnnounceRead
SendStep   == \/ Send \/ \E s \in sending : SendFails(s) \/ SentFind(s)
              \/ SentRow \/ SentDetail \/ SentSend

Next == WorkerStep \/ ScreenStep \/ SendStep \/ HandleBroadcast \/ Restart

Spec == Init /\ [][Next]_vars
------------------------------------------------------------------------------
TypeOK ==
    /\ rows \in [Users -> Seq(Row)] /\ list \in [Users -> Seq(Row)]
    /\ details \in [Users -> Seq(Message)]
    /\ worker \in Worker /\ main \in Main
    /\ screen \in Screen \cup {None}
    /\ sending \subseteq Sent
    /\ broadcasts \in Seq(Broadcast)
    /\ badge \in BOOLEAN
    /\ count \in 0 .. MaxMessages

(* Both threads have finished and what they sent was received.                 *)
Settled == worker.pc = "idle" /\ main.pc = "idle" /\ broadcasts = <<>>

(* The dots tell whether a chat has unread messages: each broadcast finds the  *)
(* table as its sender left it or newer, whichever thread wrote last.          *)
BadgeSettles == Settled => badge = HaveUnread

(* An open chat shows every message received from its user: what came before   *)
(* it read the table is in the table, what came later is broadcast to it.      *)
ScreenComplete ==
    Settled /\ screen # None =>
        \A i \in DOMAIN details[screen.user] :
            LET m == details[screen.user][i] IN
            ~m.mine => \E j \in DOMAIN screen.shown : screen.shown[j] = m

(* Every chat that has messages can be reached: it has its row in the table,   *)
(* after a crash too, and once all is settled its entry in the list.           *)
ChatListed ==
    \A u \in Users :
        /\ details[u] # <<>> => rows[u] # <<>>
        /\ Settled => (rows[u] # <<>> => list[u] # <<>>)

(* The tables and threads are of their types, and no chat is out of reach.     *)
TablesInOrder == TypeOK /\ ChatListed

Stored(u) == IF GetUnread(u) = None THEN 0 ELSE GetUnread(u)

(* What was set to read stays read: counting a message adds one to the count   *)
(* that is in the table.                                                       *)
CountsFromTheTable ==
    [][worker.pc = "count" /\ worker'.pc = "detail" =>
         Last(rows'[worker.msg.user]).unread = Stored(worker.msg.user) + 1]_vars
==============================================================================
