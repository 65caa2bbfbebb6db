-------------------------- MODULE ChatInboxProofs --------------------------
(* Proofs about ChatInbox, for any users and any bounds: first the types, then *)
(* that no chat is out of reach, the dots, and the messages of an open chat.   *)
EXTENDS ChatInbox, SequenceTheorems, TLAPS

(* What the two threads remember is what they still need: the message in work, *)
(* the chat, the screen.                                                       *)
WorkerRight == worker.pc # "idle" => worker.msg # None

Sending == {"sentrow", "sentdetail", "sentsend"}

MainRight ==
    /\ main.pc # "idle" => main.user \in Users
    /\ main.pc = "load" => screen # None /\ screen.user = main.user
    /\ main.pc \in Sending => main.last # None /\ main.last.mine
    /\ main.here => screen # None

ScreensRight ==
    /\ \A s \in sending : s.msg.mine /\ (s.here => screen # None)
    /\ \A k \in DOMAIN broadcasts :
         broadcasts[k].live => screen # None /\ broadcasts[k].detail # None

(* An unread count never exceeds the messages so far, nor reaches them while   *)
(* the worker is still to count one.                                           *)
Counting == {"find", "row", "read", "count"}

AtMostCounted(n) ==
    n # None => n <= count /\ (worker.pc \in Counting => n < count)

CountsRight ==
    /\ worker.pc \in Counting => 0 < count
    /\ worker.pc = "count" => AtMostCounted(worker.unread)
    /\ \A u \in Users : \A i \in DOMAIN rows[u] : AtMostCounted(rows[u][i].unread)

InboxRight == TypeOK /\ WorkerRight /\ MainRight /\ ScreensRight /\ CountsRight

(* Why no chat is out of reach: what found a row, or added one, may rely on it *)
(* from then on; and a chat that is not yet in the list is on its way there.   *)
AboutToSend == {"read", "count", "detail", "send"}

RowsThere ==
    /\ worker.pc = "row" /\ worker.found => rows[worker.msg.user] # <<>>
    /\ worker.pc \in AboutToSend => rows[worker.msg.user] # <<>>
    /\ main.pc = "sentrow" /\ main.found => rows[main.user] # <<>>
    /\ main.pc \in {"sentdetail", "sentsend"} => rows[main.user] # <<>>
    /\ \A u \in Users : details[u] # <<>> => rows[u] # <<>>

OnItsWay(u) ==
    \/ \E k \in DOMAIN broadcasts : broadcasts[k].user = u
    \/ worker.pc \in AboutToSend /\ worker.msg.user = u
    \/ main.pc \in {"announce", "sentdetail", "sentsend"} /\ main.user = u

ListedOrOnItsWay ==
    \A u \in Users : rows[u] # <<>> => list[u] # <<>> \/ OnItsWay(u)

(* Why the dots settle: whoever changed the table has yet to send.             *)
BadgeOrOnItsWay == badge = HaveUnread \/ \E u \in Users : OnItsWay(u)

(* Why an open chat is complete: what it does not show yet will come to it.    *)
Shows(shown, m) == \E j \in DOMAIN shown : shown[j] = m

Comes(m) ==
    \/ \E k \in DOMAIN broadcasts : broadcasts[k].live /\ broadcasts[k].detail = m
    \/ worker.pc = "send" /\ worker.msg = m

ShownOrComing ==
    screen # None /\ main.pc # "load" =>
        \A i \in DOMAIN details[screen.user] :
            LET m == details[screen.user][i] IN
            m.mine \/ Shows(screen.shown, m) \/ Comes(m)

------------------------------------------------------------------------------
(* A sequence with other elements in the same places.                          *)
LEMMA SamePlaces ==
  ASSUME NEW S, NEW T, NEW s \in Seq(S), NEW t \in [DOMAIN s -> T]
  PROVE  t \in Seq(T) /\ DOMAIN t = DOMAIN s /\ (t = <<>> <=> s = <<>>)
<1>1. DOMAIN s = 1 .. Len(s) /\ Len(s) \in Nat
  BY LenProperties
<1>2. t \in Seq(T)
  BY <1>1, SeqDef
<1>3. Len(t) = Len(s)
  BY <1>1, <1>2, LenProperties
<1> QED BY <1>1, <1>2, <1>3, EmptySeq

(* The statements on the rows of a user: what they write, what they leave.     *)
LEMMA SetLastRows ==
  ASSUME TypeOK, NEW u \in Users, NEW m \in Messages, SetLast(u, m)
  PROVE  /\ rows' \in [Users -> Seq(Row)]
         /\ \A v \in Users : rows'[v] = <<>> <=> rows[v] = <<>>
         /\ \A v \in Users : \A i \in DOMAIN rows'[v] :
                i \in DOMAIN rows[v] /\ rows'[v][i].unread = rows[v][i].unread
<1> DEFINE t == [i \in DOMAIN rows[u] |-> [rows[u][i] EXCEPT !.last = m]]
<1>1. rows \in [Users -> Seq(Row)] /\ rows[u] \in Seq(Row)
  BY DEF TypeOK
<1>2. \A i \in DOMAIN rows[u] : rows[u][i] \in Row
  BY <1>1
<1>3. t \in [DOMAIN rows[u] -> Row]
  BY <1>2 DEF Row
<1>4. t \in Seq(Row) /\ DOMAIN t = DOMAIN rows[u] /\ (t = <<>> <=> rows[u] = <<>>)
  BY ONLY <1>1, <1>3, SamePlaces
<1>5. rows' = [rows EXCEPT ![u] = t]
  BY DEF SetLast
<1>6. \A i \in DOMAIN rows[u] : t[i].unread = rows[u][i].unread
  BY <1>2 DEF Row
<1> HIDE DEF t
<1> QED BY <1>1, <1>4, <1>5, <1>6

LEMMA SetUnreadRows ==
  ASSUME TypeOK, NEW u \in Users, NEW n \in Unreads, SetUnread(u, n)
  PROVE  /\ rows' \in [Users -> Seq(Row)]
         /\ \A v \in Users : rows'[v] = <<>> <=> rows[v] = <<>>
         /\ \A v \in Users : \A i \in DOMAIN rows'[v] :
                \/ rows'[v][i].unread = n
                \/ i \in DOMAIN rows[v] /\ rows'[v][i].unread = rows[v][i].unread
<1> DEFINE t == [i \in DOMAIN rows[u] |-> [rows[u][i] EXCEPT !.unread = n]]
<1>1. rows \in [Users -> Seq(Row)] /\ rows[u] \in Seq(Row)
  BY DEF TypeOK
<1>2. \A i \in DOMAIN rows[u] : rows[u][i] \in Row
  BY <1>1
<1>3. t \in [DOMAIN rows[u] -> Row]
  BY <1>2 DEF Row
<1>4. t \in Seq(Row) /\ DOMAIN t = DOMAIN rows[u] /\ (t = <<>> <=> rows[u] = <<>>)
  BY ONLY <1>1, <1>3, SamePlaces
<1>5. rows' = [rows EXCEPT ![u] = t]
  BY DEF SetUnread
<1>6. \A i \in DOMAIN rows[u] : t[i].unread = n
  BY <1>2 DEF Row
<1> HIDE DEF t
<1> QED BY <1>1, <1>4, <1>5, <1>6

LEMMA AddRowRows ==
  ASSUME TypeOK, NEW u \in Users, NEW m \in Messages, AddRow(u, m)
  PROVE  /\ rows' \in [Users -> Seq(Row)]
         /\ rows'[u] # <<>>
         /\ \A v \in Users : v # u => rows'[v] = rows[v]
         /\ \A v \in Users : \A i \in DOMAIN rows'[v] :
                \/ rows'[v][i].unread = None
                \/ i \in DOMAIN rows[v] /\ rows'[v][i].unread = rows[v][i].unread
<1> DEFINE r == [last |-> m, unread |-> None]
           t == Append(rows[u], r)
<1>1. rows \in [Users -> Seq(Row)] /\ rows[u] \in Seq(Row)
  BY DEF TypeOK
<1>2. r \in Row
  BY DEF Row, Unreads
<1>3. t \in Seq(Row) /\ t # <<>> /\ Len(t) = Len(rows[u]) + 1
      /\ (\A i \in 1 .. Len(rows[u]) : t[i] = rows[u][i]) /\ t[Len(rows[u]) + 1] = r
  BY <1>1, <1>2, AppendProperties
<1>4. rows' = [rows EXCEPT ![u] = t]
  BY DEF AddRow
<1>5. \A i \in DOMAIN t : t[i] = r \/ (i \in DOMAIN rows[u] /\ t[i] = rows[u][i])
  <2> HIDE DEF t, r
  <2>1. DOMAIN t = 1 .. Len(rows[u]) + 1 /\ DOMAIN rows[u] = 1 .. Len(rows[u])
        /\ Len(rows[u]) \in Nat
    BY <1>1, <1>3, LenProperties
  <2> QED BY <1>3, <2>1
<1>6. r.unread = None
  OBVIOUS
<1> HIDE DEF t, r
<1> QED BY <1>1, <1>3, <1>4, <1>5, <1>6

(* A message is added behind those of its user.                                *)
LEMMA AddDetailDetails ==
  ASSUME TypeOK, NEW u \in Users, NEW m \in Message, AddDetail(u, m)
  PROVE  /\ details' \in [Users -> Seq(Message)]
         /\ \A v \in Users : v # u => details'[v] = details[v]
         /\ \A i \in DOMAIN details'[u] :
                details'[u][i] = m \/ (i \in DOMAIN details[u] /\ details'[u][i] = details[u][i])
<1> DEFINE t == Append(details[u], m)
<1>1. details \in [Users -> Seq(Message)] /\ details[u] \in Seq(Message)
  BY DEF TypeOK
<1>2. t \in Seq(Message) /\ Len(t) = Len(details[u]) + 1
      /\ (\A i \in 1 .. Len(details[u]) : t[i] = details[u][i]) /\ t[Len(details[u]) + 1] = m
  BY <1>1, AppendProperties
<1>3. details' = [details EXCEPT ![u] = t]
  BY DEF AddDetail
<1> HIDE DEF t
<1>4. DOMAIN t = 1 .. Len(details[u]) + 1 /\ DOMAIN details[u] = 1 .. Len(details[u])
      /\ Len(details[u]) \in Nat
  BY <1>1, <1>2, LenProperties
<1> QED BY <1>1, <1>2, <1>3, <1>4

(* What is sent is added behind what is under way.                             *)
LEMMA Announced ==
  ASSUME TypeOK, NEW u \in Users, NEW m \in Messages, NEW n \in Unreads, NEW d \in Messages,
         Announce(u, m, n, d)
  PROVE  /\ broadcasts' \in Seq(Broadcast)
         /\ \E k \in DOMAIN broadcasts' :
                /\ broadcasts'[k].user = u /\ broadcasts'[k].detail = d
                /\ d # None /\ screen # None => broadcasts'[k].live
         /\ \A k \in DOMAIN broadcasts :
                k \in DOMAIN broadcasts' /\ broadcasts'[k] = broadcasts[k]
         /\ \A k \in DOMAIN broadcasts' :
                \/ broadcasts'[k].live => screen # None /\ broadcasts'[k].detail # None
                \/ k \in DOMAIN broadcasts /\ broadcasts'[k] = broadcasts[k]
<1> DEFINE b == [user |-> u, last |-> m, unread |-> n, detail |-> d,
                 live |-> d # None /\ screen # None]
<1>1. b \in Broadcast
  BY DEF Broadcast
<1>2. broadcasts \in Seq(Broadcast) /\ broadcasts' = Append(broadcasts, b)
  BY DEF TypeOK, Announce, Receiving
<1> HIDE DEF b
<1>3. /\ broadcasts' \in Seq(Broadcast) /\ Len(broadcasts') = Len(broadcasts) + 1
      /\ \A i \in 1 .. Len(broadcasts) : broadcasts'[i] = broadcasts[i]
      /\ broadcasts'[Len(broadcasts) + 1] = b
  BY <1>1, <1>2, AppendProperties
<1>4. DOMAIN broadcasts' = 1 .. Len(broadcasts) + 1 /\ DOMAIN broadcasts = 1 .. Len(broadcasts)
      /\ Len(broadcasts) \in Nat
  BY <1>2, <1>3, LenProperties
<1>5. /\ broadcasts' \in Seq(Broadcast)
      /\ \E k \in DOMAIN broadcasts' : broadcasts'[k] = b
      /\ \A k \in DOMAIN broadcasts :
             k \in DOMAIN broadcasts' /\ broadcasts'[k] = broadcasts[k]
      /\ \A k \in DOMAIN broadcasts' : broadcasts'[k] = b
             \/ (k \in DOMAIN broadcasts /\ broadcasts'[k] = broadcasts[k])
  BY <1>3, <1>4
<1>6. b.user = u /\ b.detail = d /\ (b.live <=> d # None /\ screen # None)
  BY DEF b
<1> QED BY <1>5, <1>6

(* The first broadcast is taken, the others move up.                           *)
LEMMA Taken ==
  ASSUME TypeOK, broadcasts # <<>>, broadcasts' = Tail(broadcasts)
  PROVE  /\ Head(broadcasts) \in Broadcast
         /\ 1 \in DOMAIN broadcasts /\ broadcasts[1] = Head(broadcasts)
         /\ broadcasts' \in Seq(Broadcast)
         /\ \A k \in DOMAIN broadcasts' :
                \E j \in DOMAIN broadcasts : broadcasts'[k] = broadcasts[j]
         /\ \A j \in DOMAIN broadcasts : broadcasts[j] = Head(broadcasts)
                \/ \E k \in DOMAIN broadcasts' : broadcasts'[k] = broadcasts[j]
<1>1. broadcasts \in Seq(Broadcast)
  BY DEF TypeOK
<1>2. /\ Head(broadcasts) \in Broadcast /\ broadcasts' \in Seq(Broadcast)
      /\ Len(broadcasts') = Len(broadcasts) - 1
      /\ \A i \in 1 .. Len(broadcasts') : broadcasts'[i] = broadcasts[i + 1]
  BY <1>1, HeadTailProperties
<1>3. DOMAIN broadcasts' = 1 .. Len(broadcasts') /\ DOMAIN broadcasts = 1 .. Len(broadcasts)
      /\ Len(broadcasts) \in Nat \ {0}
  BY <1>1, <1>2, LenProperties, EmptySeq
<1>4. broadcasts[1] = Head(broadcasts)
  BY <1>1
<1>5. ASSUME NEW j \in DOMAIN broadcasts, j # 1
      PROVE  \E k \in DOMAIN broadcasts' : broadcasts'[k] = broadcasts[j]
  <2>1. j - 1 \in DOMAIN broadcasts' /\ broadcasts'[j - 1] = broadcasts[j]
    BY <1>2, <1>3, <1>5
  <2> QED BY <2>1
<1>6. ASSUME NEW k \in DOMAIN broadcasts'
      PROVE  \E j \in DOMAIN broadcasts : broadcasts'[k] = broadcasts[j]
  <2>1. k + 1 \in DOMAIN broadcasts /\ broadcasts'[k] = broadcasts[k + 1]
    BY <1>2, <1>3, <1>6
  <2> QED BY <2>1
<1> QED BY <1>2, <1>3, <1>4, <1>5, <1>6

(* A message is shown behind the others.                                       *)
LEMMA ShownBehind ==
  ASSUME NEW shown \in Seq(Message), NEW m \in Message
  PROVE  /\ Append(shown, m) \in Seq(Message)
         /\ Shows(Append(shown, m), m)
         /\ \A x : Shows(shown, x) => Shows(Append(shown, m), x)
<1> DEFINE t == Append(shown, m)
<1>1. t \in Seq(Message) /\ Len(t) = Len(shown) + 1
      /\ (\A i \in 1 .. Len(shown) : t[i] = shown[i]) /\ t[Len(shown) + 1] = m
  BY AppendProperties
<1> HIDE DEF t
<1>2. DOMAIN t = 1 .. Len(shown) + 1 /\ DOMAIN shown = 1 .. Len(shown) /\ Len(shown) \in Nat
  BY <1>1, LenProperties
<1>3. t \in Seq(Message) /\ Shows(t, m) /\ \A x : Shows(shown, x) => Shows(t, x)
  BY <1>1, <1>2 DEF Shows
<1> QED BY <1>3 DEF t
------------------------------------------------------------------------------
(* The types, and with them what the threads remember.                         *)
LEMMA RightInit == Init => InboxRight
<1> SUFFICES ASSUME Init PROVE InboxRight
  OBVIOUS
<1>1. <<>> \in Seq(Row) /\ <<>> \in Seq(Message) /\ <<>> \in Seq(Broadcast) /\ DOMAIN <<>> = {}
  OBVIOUS
<1>2. IdleWorker \in Worker /\ IdleMain \in Main
  BY DEF IdleWorker, Worker, WorkerPc, IdleMain, Main, MainPc, Messages, Unreads
<1>3. /\ rows = [u \in Users |-> <<>>] /\ list = [u \in Users |-> <<>>]
      /\ details = [u \in Users |-> <<>>]
  BY DEF Init, StartWith
<1>4. /\ rows \in [Users -> Seq(Row)] /\ list \in [Users -> Seq(Row)]
      /\ details \in [Users -> Seq(Message)]
  BY <1>1, <1>3
<1>5. worker \in Worker /\ main \in Main /\ screen = None /\ sending = {} /\ broadcasts = <<>>
  BY <1>2 DEF Init, StartWith
<1>6. TypeOK
  <2>1. badge \in BOOLEAN
    BY DEF Init
  <2>2. count \in 0 .. MaxMessages
    BY InboxAssumption DEF Init, InboxAssumption
  <2> QED BY <1>1, <1>4, <1>5, <2>1, <2>2 DEF TypeOK
<1>7. WorkerRight /\ MainRight
  <2>1. worker.pc = "idle" /\ main.pc = "idle" /\ main.here = FALSE
    BY DEF Init, StartWith, IdleWorker, IdleMain
  <2> QED BY <2>1 DEF WorkerRight, MainRight, Sending
<1>8. ScreensRight
  BY <1>1, <1>5 DEF ScreensRight
<1>9. CountsRight
  BY <1>1, <1>3 DEF Init, StartWith, IdleWorker, CountsRight, Counting
<1> QED BY <1>6, <1>7, <1>8, <1>9 DEF InboxRight

(* The fields of the records.                                                  *)
LEMMA Fields ==
  ASSUME InboxRight
  PROVE  /\ worker.pc \in WorkerPc /\ worker.msg \in Messages /\ worker.found \in BOOLEAN
         /\ worker.unread \in Unreads /\ worker \in Worker
         /\ worker.pc # "idle" => worker.msg \in Message /\ worker.msg.user \in Users
         /\ main.pc \in MainPc /\ main.last \in Messages /\ main.found \in BOOLEAN
         /\ main.here \in BOOLEAN /\ main \in Main
         /\ main.pc \in Sending => main.last \in Message
         /\ main.pc # "idle" => main.user \in Users
         /\ screen # None =>
                screen \in Screen /\ screen.user \in Users /\ screen.shown \in Seq(Message)
         /\ count \in Nat /\ count <= MaxMessages /\ MaxMessages \in Nat
BY InboxAssumption DEF InboxAssumption, InboxRight, TypeOK, Worker, Main, Screen, Message,
   Messages, WorkerRight, MainRight

(* A step of the worker keeps them.                                            *)
LEMMA RightWorker ==
  ASSUME InboxRight, WorkerStep
  PROVE  InboxRight'
<1> USE Fields
<1> TypeOK
  BY DEF InboxRight
<1>1. ASSUME NEW u \in Users, Receive(u) PROVE InboxRight'
  <2> DEFINE m == [user |-> u, id |-> count', mine |-> FALSE]
  <2>0. count' = count + 1 /\ count' \in Numbers /\ count' \in 0 .. MaxMessages
    BY <1>1 DEF Receive, Numbers
  <2>1. m \in Message /\ m # None
    <3>1. m \in Message
      BY <2>0 DEF Message
    <3> QED BY <3>1, NoneIsNoRecord DEF NoneIsNoRecord
  <2>2. worker' = [pc |-> "find", msg |-> m, found |-> FALSE, unread |-> None]
    BY <1>1 DEF Receive, IdleWorker
  <2> HIDE DEF m
  <2>3. worker' \in Worker
    BY <2>1, <2>2 DEF Worker, WorkerPc, Messages, Unreads
  <2>4. TypeOK'
    BY <1>1, <2>0, <2>3 DEF TypeOK, Receive, WorkerOnly
  <2>5. WorkerRight' /\ MainRight' /\ ScreensRight'
    <3>1. WorkerRight'
      BY <2>1, <2>2 DEF WorkerRight
    <3> QED BY <1>1, <3>1 DEF InboxRight, MainRight, ScreensRight, Receive, WorkerOnly
  <2>6. CountsRight'
    <3>1. ASSUME NEW v \in Users, NEW i \in DOMAIN rows[v] PROVE AtMostCounted(rows[v][i].unread)'
      <4>1. rows[v] \in Seq(Row)
        BY DEF TypeOK
      <4>2. rows[v][i] \in Row
        BY <3>1, <4>1
      <4>3. rows[v][i].unread \in Unreads
        BY <4>2 DEF Row
      <4> QED BY <1>1, <2>0, <4>3 DEF InboxRight, CountsRight, AtMostCounted, Receive, Unreads
    <3> QED BY <1>1, <2>0, <2>2, <3>1 DEF CountsRight, Receive
  <2> QED BY <2>4, <2>5, <2>6 DEF InboxRight
<1>2. CASE WorkerFind
  <2>1. worker' = [worker EXCEPT !.pc = "row", !.found = Find(worker.msg.user)]
    BY <1>2 DEF WorkerFind
  <2>2. worker' \in Worker
    BY <2>1 DEF Worker, WorkerPc, Find
  <2>3. TypeOK'
    BY <1>2, <2>2 DEF TypeOK, WorkerFind, WorkerOnly
  <2>4. worker'.pc = "row" /\ worker'.msg = worker.msg
    BY <2>1 DEF Worker
  <2>5. WorkerRight' /\ MainRight' /\ ScreensRight' /\ CountsRight'
    BY <1>2, <2>4 DEF InboxRight, WorkerRight, MainRight, ScreensRight, CountsRight,
       AtMostCounted, Counting, WorkerFind, WorkerOnly
  <2> QED BY <2>3, <2>5 DEF InboxRight
<1>3. CASE WorkerRow
  <2>1. worker' = [worker EXCEPT !.pc = "read"]
    BY <1>3 DEF WorkerRow
  <2>2. worker' \in Worker /\ worker'.pc = "read" /\ worker'.msg = worker.msg
    BY <2>1 DEF Worker, WorkerPc
  <2>3. worker.pc = "row" /\ worker.msg \in Messages /\ worker.msg.user \in Users
    BY <1>3 DEF WorkerRow
  <2>4. /\ rows' \in [Users -> Seq(Row)]
        /\ \A v \in Users : \A i \in DOMAIN rows'[v] :
               \/ rows'[v][i].unread = None
               \/ i \in DOMAIN rows[v] /\ rows'[v][i].unread = rows[v][i].unread
    <3>1. CASE SetLast(worker.msg.user, worker.msg)
      BY <2>3, <3>1, SetLastRows
    <3>2. CASE AddRow(worker.msg.user, worker.msg)
      BY <2>3, <3>2, AddRowRows
    <3> QED BY <1>3, <3>1, <3>2 DEF WorkerRow
  <2>5. TypeOK'
    BY <1>3, <2>2, <2>4 DEF TypeOK, WorkerRow, WorkerOnly
  <2>6. WorkerRight' /\ MainRight' /\ ScreensRight'
    BY <1>3, <2>2, <2>3 DEF InboxRight, WorkerRight, MainRight, ScreensRight, WorkerRow, WorkerOnly
  <2>7. CountsRight'
    BY <1>3, <2>2, <2>3, <2>4 DEF InboxRight, CountsRight, AtMostCounted, Counting, WorkerRow
  <2> QED BY <2>5, <2>6, <2>7 DEF InboxRight
<1>4. CASE WorkerRead
  <2> DEFINE n == GetUnread(worker.msg.user)
  <2>1. worker' = [worker EXCEPT !.pc = "count", !.unread = n]
    BY <1>4 DEF WorkerRead
  <2>2. worker.pc = "read" /\ worker.msg.user \in Users
    BY <1>4 DEF WorkerRead
  <2>3. n \in Unreads /\ AtMostCounted(n)
    <3> DEFINE s == rows[worker.msg.user]
    <3>1. CASE s = <<>>
      BY <3>1 DEF GetUnread, Find, Unreads, AtMostCounted
    <3>2. CASE s # <<>>
      <4>1. s \in Seq(Row)
        BY <2>2 DEF TypeOK
      <4>2. Len(s) \in DOMAIN s /\ s[Len(s)] \in Row
        BY <3>2, <4>1, LenProperties, EmptySeq
      <4>3. n = s[Len(s)].unread
        BY <3>2 DEF GetUnread, Find, Last
      <4> QED BY <2>2, <4>2, <4>3 DEF Row, InboxRight, CountsRight
    <3> QED BY <3>1, <3>2
  <2> HIDE DEF n
  <2>4. worker' \in Worker /\ worker'.pc = "count" /\ worker'.msg = worker.msg
        /\ worker'.unread = n
    BY <2>1, <2>3 DEF Worker, WorkerPc
  <2>5. TypeOK'
    BY <1>4, <2>4 DEF TypeOK, WorkerRead, WorkerOnly
  <2>6. WorkerRight' /\ MainRight' /\ ScreensRight'
    BY <1>4, <2>2, <2>4 DEF InboxRight, WorkerRight, MainRight, ScreensRight, WorkerRead, WorkerOnly
  <2>7. CountsRight'
    BY <1>4, <2>2, <2>3, <2>4 DEF InboxRight, CountsRight, AtMostCounted, Counting, WorkerRead
  <2> QED BY <2>5, <2>6, <2>7 DEF InboxRight
<1>5. CASE WorkerCount
  <2> DEFINE n == OneMore(worker.unread)
  <2>1. worker' = [worker EXCEPT !.pc = "detail", !.unread = n]
    BY <1>5 DEF WorkerCount
  <2>2. worker.pc = "count" /\ worker.msg.user \in Users
    BY <1>5 DEF WorkerCount
  <2>3. n \in Unreads /\ n <= count
    <3>1. 0 < count /\ AtMostCounted(worker.unread) /\ worker.pc \in Counting
      BY <2>2 DEF InboxRight, CountsRight, Counting
    <3>2. CASE worker.unread = None
      <4>1. n = 1
        BY <3>2 DEF OneMore
      <4> QED BY <3>1, <4>1 DEF Unreads
    <3>3. CASE worker.unread # None
      <4>1. n = worker.unread + 1 /\ worker.unread \in 0 .. MaxMessages
        BY <3>3 DEF OneMore, Unreads
      <4>2. worker.unread < count
        BY <3>1, <3>3 DEF AtMostCounted
      <4> QED BY <4>1, <4>2 DEF Unreads
    <3> QED BY <3>2, <3>3
  <2> HIDE DEF n
  <2>4. worker' \in Worker /\ worker'.pc = "detail" /\ worker'.msg = worker.msg
    BY <2>1, <2>3 DEF Worker, WorkerPc
  <2>5. SetUnread(worker.msg.user, n)
    BY <1>5 DEF WorkerCount, n
  <2>6. /\ rows' \in [Users -> Seq(Row)]
        /\ \A v \in Users : \A i \in DOMAIN rows'[v] :
               \/ rows'[v][i].unread = n
               \/ i \in DOMAIN rows[v] /\ rows'[v][i].unread = rows[v][i].unread
    BY <2>2, <2>3, <2>5, SetUnreadRows
  <2>7. TypeOK'
    BY <1>5, <2>4, <2>6 DEF TypeOK, WorkerCount, WorkerOnly
  <2>8. WorkerRight' /\ MainRight' /\ ScreensRight'
    BY <1>5, <2>2, <2>4
       DEF InboxRight, WorkerRight, MainRight, ScreensRight, WorkerCount, WorkerOnly
  <2>9. CountsRight'
    BY <1>5, <2>2, <2>3, <2>4, <2>6
    DEF InboxRight, CountsRight, AtMostCounted, Counting, WorkerCount
  <2> QED BY <2>7, <2>8, <2>9 DEF InboxRight
<1>6. CASE WorkerDetail
  <2>1. worker' = [worker EXCEPT !.pc = "send"]
    BY <1>6 DEF WorkerDetail
  <2>2. worker' \in Worker /\ worker'.pc = "send" /\ worker'.msg = worker.msg
    BY <2>1 DEF Worker, WorkerPc
  <2>3. worker.pc = "detail" /\ worker.msg \in Message /\ worker.msg.user \in Users
    BY <1>6 DEF WorkerDetail
  <2>4. details' \in [Users -> Seq(Message)]
    BY <1>6, <2>3, AddDetailDetails DEF WorkerDetail
  <2>5. TypeOK'
    BY <1>6, <2>2, <2>4 DEF TypeOK, WorkerDetail, WorkerOnly
  <2>6. WorkerRight' /\ MainRight' /\ ScreensRight' /\ CountsRight'
    BY <1>6, <2>2, <2>3 DEF InboxRight, WorkerRight, MainRight, ScreensRight, CountsRight,
       AtMostCounted, Counting, WorkerDetail, WorkerOnly
  <2> QED BY <2>5, <2>6 DEF InboxRight
<1>7. CASE WorkerSend
  <2>1. worker.pc = "send" /\ worker.msg \in Message /\ worker.msg.user \in Users
        /\ worker.msg \in Messages
    BY <1>7 DEF WorkerSend
  <2>2. /\ broadcasts' \in Seq(Broadcast)
        /\ \A k \in DOMAIN broadcasts' :
              \/ broadcasts'[k].live => screen # None /\ broadcasts'[k].detail # None
              \/ k \in DOMAIN broadcasts /\ broadcasts'[k] = broadcasts[k]
    <3>1. Announce(worker.msg.user, worker.msg, worker.unread, worker.msg)
      BY <1>7 DEF WorkerSend
    <3> QED BY <2>1, <3>1, Announced
  <2>3. worker' = IdleWorker /\ IdleWorker \in Worker /\ IdleWorker.pc = "idle"
    BY <1>7 DEF WorkerSend, IdleWorker, Worker, WorkerPc, Messages, Unreads
  <2>4. TypeOK'
    BY <1>7, <2>2, <2>3 DEF TypeOK, WorkerSend, WorkerOnly
  <2>5. WorkerRight' /\ MainRight' /\ CountsRight'
    BY <1>7, <2>1, <2>3 DEF InboxRight, WorkerRight, MainRight, CountsRight,
       AtMostCounted, Counting, WorkerSend, WorkerOnly
  <2>6. ScreensRight'
    BY <1>7, <2>2 DEF InboxRight, ScreensRight, WorkerSend, WorkerOnly
  <2> QED BY <2>4, <2>5, <2>6 DEF InboxRight
<1> QED BY <1>1, <1>2, <1>3, <1>4, <1>5, <1>6, <1>7 DEF WorkerStep

(* A count in the table, and the counts as long as rows, worker and count stay. *)
LEMMA CountsStay ==
  ASSUME InboxRight, UNCHANGED <<rows, worker, count>>
  PROVE  CountsRight'
BY DEF InboxRight, CountsRight, AtMostCounted

(* A step of the chat screen keeps them.                                       *)
LEMMA RightScreen ==
  ASSUME InboxRight, ScreenStep
  PROVE  InboxRight'
<1> USE Fields
<1> TypeOK
  BY DEF InboxRight
<1>1. ASSUME NEW u \in Users, OpenChat(u) PROVE InboxRight'
  <2>1. screen' = [user |-> u, shown |-> <<>>] /\ screen' \in Screen /\ screen' # None
    <3>1. [user |-> u, shown |-> <<>>] \in Screen
      BY DEF Screen
    <3> QED BY <1>1, <3>1, NoneIsNoRecord DEF NoneIsNoRecord, OpenChat
  <2>2. main' = [pc |-> "load", user |-> u, last |-> None, found |-> FALSE, here |-> FALSE]
    BY <1>1 DEF OpenChat, IdleMain
  <2>3. main' \in Main
    BY <2>2 DEF Main, MainPc, Messages
  <2>4. TypeOK'
    BY <1>1, <2>1, <2>3 DEF TypeOK, OpenChat, MainOnly
  <2>5. MainRight'
    BY <2>1, <2>2 DEF MainRight, Sending
  <2>6. WorkerRight' /\ ScreensRight' /\ CountsRight'
    BY <1>1, <2>1, CountsStay DEF InboxRight, WorkerRight, ScreensRight, OpenChat, MainOnly
  <2> QED BY <2>4, <2>5, <2>6 DEF InboxRight
<1>2. CASE LoadChat
  <2>1. main.pc = "load" /\ screen # None /\ main.user \in Users /\ screen.user = main.user
    BY <1>2 DEF LoadChat, InboxRight, MainRight
  <2>2. details[screen.user] \in Seq(Message)
    BY <2>1 DEF TypeOK
  <2>3. screen' \in Screen /\ screen' # None
    <3>1. [screen EXCEPT !.shown = details[screen.user]] \in Screen
      BY <2>1, <2>2 DEF Screen
    <3> QED BY <1>2, <3>1, NoneIsNoRecord DEF NoneIsNoRecord, LoadChat
  <2>4. LastShown(details[screen.user]) \in Messages
    <3> DEFINE s == details[screen.user]
    <3>1. CASE s = <<>>
      BY <3>1 DEF LastShown, Messages
    <3>2. CASE s # <<>>
      <4>1. Len(s) \in DOMAIN s /\ s[Len(s)] \in Message
        BY <2>2, <3>2, LenProperties, EmptySeq
      <4> QED BY <3>2, <4>1 DEF LastShown, Last, Messages
    <3> QED BY <3>1, <3>2
  <2>5. main' = [main EXCEPT !.pc = "mark", !.last = LastShown(details[screen.user])]
    BY <1>2 DEF LoadChat
  <2>6. main' \in Main /\ main'.pc = "mark" /\ main'.user = main.user /\ main'.here = main.here
    BY <2>4, <2>5 DEF Main, MainPc
  <2>7. TypeOK'
    BY <1>2, <2>3, <2>6 DEF TypeOK, LoadChat, MainOnly
  <2>8. MainRight'
    BY <2>1, <2>3, <2>6 DEF MainRight, Sending
  <2>9. WorkerRight' /\ ScreensRight' /\ CountsRight'
    BY <1>2, <2>3, CountsStay DEF InboxRight, WorkerRight, ScreensRight, LoadChat, MainOnly
  <2> QED BY <2>7, <2>8, <2>9 DEF InboxRight
<1>3. ASSUME screen # None,
             main' = [IdleMain EXCEPT !.pc = "mark", !.user = screen.user,
                                      !.last = LastShown(screen.shown)]
      PROVE  main' \in Main /\ main'.pc = "mark" /\ main'.user \in Users /\ main'.here = FALSE
  <2> DEFINE s == screen.shown
             m == LastShown(s)
  <2>1. m \in Messages
    <3>1. CASE s = <<>>
      BY <3>1 DEF LastShown, Messages
    <3>2. CASE s # <<>>
      <4>1. Len(s) \in DOMAIN s /\ s[Len(s)] \in Message
        BY <1>3, <3>2, LenProperties, EmptySeq
      <4> QED BY <3>2, <4>1 DEF LastShown, Last, Messages
    <3> QED BY <3>1, <3>2
  <2> HIDE DEF m
  <2>2. main' = [pc |-> "mark", user |-> screen.user, last |-> m, found |-> FALSE, here |-> FALSE]
    BY <1>3 DEF IdleMain, m
  <2>3. screen.user \in Users
    BY <1>3
  <2>4. main' \in Main
    BY <2>1, <2>2, <2>3 DEF Main, MainPc
  <2> QED BY <2>2, <2>3, <2>4
<1>4. CASE ResumeChat
  <2>1. main' \in Main /\ main'.pc = "mark" /\ main'.user \in Users /\ main'.here = FALSE
    BY <1>3, <1>4 DEF ResumeChat
  <2>2. TypeOK'
    BY <1>4, <2>1 DEF TypeOK, ResumeChat, MainOnly
  <2>3. MainRight'
    BY <2>1 DEF MainRight, Sending
  <2>4. WorkerRight' /\ ScreensRight' /\ CountsRight'
    BY <1>4, CountsStay DEF InboxRight, WorkerRight, ScreensRight, ResumeChat, MainOnly
  <2> QED BY <2>2, <2>3, <2>4 DEF InboxRight
<1>5. CASE CloseChat
  <2>1. main' \in Main /\ main'.pc = "mark" /\ main'.user \in Users /\ main'.here = FALSE
    BY <1>3, <1>5 DEF CloseChat
  <2>2. sending' \subseteq Sent /\ \A s \in sending' : s.msg.mine /\ s.here = FALSE
    <3>1. ASSUME NEW s \in sending
          PROVE  /\ [s EXCEPT !.here = FALSE] \in Sent
                 /\ [s EXCEPT !.here = FALSE].msg.mine
                 /\ [s EXCEPT !.here = FALSE].here = FALSE
      BY DEF TypeOK, Sent, InboxRight, ScreensRight
    <3> QED BY <1>5, <3>1 DEF CloseChat
  <2>3. broadcasts' \in Seq(Broadcast) /\ \A k \in DOMAIN broadcasts' : ~broadcasts'[k].live
    <3> DEFINE t == [i \in DOMAIN broadcasts |-> [broadcasts[i] EXCEPT !.live = FALSE]]
    <3>1. broadcasts \in Seq(Broadcast)
      BY DEF TypeOK
    <3>2. t \in [DOMAIN broadcasts -> Broadcast] /\ \A i \in DOMAIN broadcasts : ~t[i].live
      <4>1. ASSUME NEW i \in DOMAIN broadcasts
            PROVE  [broadcasts[i] EXCEPT !.live = FALSE] \in Broadcast
                   /\ [broadcasts[i] EXCEPT !.live = FALSE].live = FALSE
        <5>1. broadcasts[i] \in Broadcast
          BY <3>1
        <5> QED BY <5>1 DEF Broadcast
      <4> QED BY <4>1
    <3> HIDE DEF t
    <3>3. t \in Seq(Broadcast) /\ DOMAIN t = DOMAIN broadcasts
      BY <3>1, <3>2, SamePlaces
    <3>4. broadcasts' = t
      BY <1>5 DEF CloseChat, t
    <3> QED BY <3>2, <3>3, <3>4
  <2>4. TypeOK'
    BY <1>5, <2>1, <2>2, <2>3 DEF TypeOK, CloseChat, MainOnly
  <2>5. MainRight' /\ ScreensRight'
    BY <2>1, <2>2, <2>3 DEF MainRight, ScreensRight, Sending
  <2>6. WorkerRight' /\ CountsRight'
    BY <1>5, CountsStay DEF InboxRight, WorkerRight, CloseChat, MainOnly
  <2> QED BY <2>4, <2>5, <2>6 DEF InboxRight
<1>6. CASE MarkRead
  <2>1. main.pc = "mark" /\ main.user \in Users
    BY <1>6 DEF MarkRead
  <2>2. CASE main' = IdleMain /\ UNCHANGED rows
    <3>1. main' \in Main /\ main'.pc = "idle" /\ main'.here = FALSE
      BY <2>2 DEF IdleMain, Main, MainPc, Messages
    <3>2. TypeOK' /\ MainRight'
      BY <1>6, <2>2, <3>1 DEF TypeOK, MainRight, Sending, MarkRead, MainOnly
    <3>3. WorkerRight' /\ ScreensRight' /\ CountsRight'
      BY <1>6, <2>2, CountsStay DEF InboxRight, WorkerRight, ScreensRight, MarkRead, MainOnly
    <3> QED BY <3>2, <3>3 DEF InboxRight
  <2>3. CASE main' = [main EXCEPT !.pc = "announce"] /\ SetUnread(main.user, 0)
    <3>1. main' \in Main /\ main'.pc = "announce" /\ main'.user = main.user
          /\ main'.here = main.here
      BY <2>3 DEF Main, MainPc
    <3>2. 0 \in Unreads
      BY DEF Unreads
    <3>3. /\ rows' \in [Users -> Seq(Row)]
          /\ \A v \in Users : \A i \in DOMAIN rows'[v] :
                 \/ rows'[v][i].unread = 0
                 \/ i \in DOMAIN rows[v] /\ rows'[v][i].unread = rows[v][i].unread
      BY <2>1, <2>3, <3>2, SetUnreadRows
    <3>4. TypeOK'
      BY <1>6, <3>1, <3>3 DEF TypeOK, MarkRead, MainOnly
    <3>5. MainRight' /\ WorkerRight' /\ ScreensRight'
      BY <1>6, <2>1, <3>1
      DEF InboxRight, MainRight, WorkerRight, ScreensRight, Sending, MarkRead, MainOnly
    <3>6. CountsRight'
      BY <1>6, <3>3 DEF InboxRight, CountsRight, AtMostCounted, Counting, MarkRead, MainOnly
    <3> QED BY <3>4, <3>5, <3>6 DEF InboxRight
  <2> QED BY <1>6, <2>2, <2>3 DEF MarkRead
<1>7. CASE AnnounceRead
  <2>1. main.pc = "announce" /\ main.user \in Users /\ 0 \in Unreads /\ None \in Messages
    BY <1>7 DEF AnnounceRead, Unreads, Messages
  <2>2. /\ broadcasts' \in Seq(Broadcast)
        /\ \A k \in DOMAIN broadcasts' :
              \/ broadcasts'[k].live => screen # None /\ broadcasts'[k].detail # None
              \/ k \in DOMAIN broadcasts /\ broadcasts'[k] = broadcasts[k]
    BY <1>7, <2>1, Announced DEF AnnounceRead
  <2>3. main' \in Main /\ main'.pc = "idle" /\ main'.here = FALSE
    BY <1>7 DEF AnnounceRead, IdleMain, Main, MainPc, Messages
  <2>4. TypeOK' /\ MainRight'
    BY <1>7, <2>2, <2>3 DEF TypeOK, MainRight, Sending, AnnounceRead, MainOnly
  <2>5. WorkerRight' /\ CountsRight'
    BY <1>7, CountsStay DEF InboxRight, WorkerRight, AnnounceRead, MainOnly
  <2>6. ScreensRight'
    BY <1>7, <2>2 DEF InboxRight, ScreensRight, AnnounceRead
  <2> QED BY <2>4, <2>5, <2>6 DEF InboxRight
<1> QED BY <1>1, <1>2, <1>4, <1>5, <1>6, <1>7 DEF ScreenStep

(* A message is sent, and its sending ends.                                    *)
LEMMA RightSend ==
  ASSUME InboxRight, SendStep
  PROVE  InboxRight'
<1> USE Fields
<1> TypeOK
  BY DEF InboxRight
<1>1. CASE Send
  <2> DEFINE m == [user |-> screen.user, id |-> count', mine |-> TRUE]
             s == [msg |-> m, here |-> TRUE]
  <2>1. screen # None /\ count' = count + 1 /\ count' \in Numbers /\ count' \in 0 .. MaxMessages
        /\ sending' = sending \cup {s}
    BY <1>1 DEF Send, Numbers
  <2>2. m \in Message /\ m.mine
    BY <2>1 DEF Message
  <2> HIDE DEF m
  <2>3. s \in Sent /\ s.msg.mine /\ s.here
    BY <2>2 DEF Sent
  <2> HIDE DEF s
  <2>4. TypeOK'
    BY <1>1, <2>1, <2>3 DEF TypeOK, Send
  <2>5. ScreensRight'
    <3>1. \A x \in sending' : x.msg.mine /\ (x.here => screen # None)
      BY <2>1, <2>3 DEF InboxRight, ScreensRight
    <3> QED BY <1>1, <3>1 DEF InboxRight, ScreensRight, Send
  <2>6. WorkerRight' /\ MainRight'
    BY <1>1 DEF InboxRight, WorkerRight, MainRight, Send
  <2>7. CountsRight'
    <3> DEFINE StillAtMost(n) == n # None => n <= count' /\ (worker.pc \in Counting => n < count')
    <3>1. ASSUME NEW n \in Unreads, AtMostCounted(n) PROVE StillAtMost(n)
      BY <1>1, <2>1, <3>1 DEF AtMostCounted, Unreads, Send
    <3>2. ASSUME NEW v \in Users, NEW i \in DOMAIN rows[v] PROVE rows[v][i].unread \in Unreads
      <4>1. rows[v] \in Seq(Row)
        BY DEF TypeOK
      <4>2. rows[v][i] \in Row
        BY <3>2, <4>1
      <4> QED BY <4>2 DEF Row
    <3> HIDE DEF StillAtMost
    <3>3. \A v \in Users : \A i \in DOMAIN rows[v] : StillAtMost(rows[v][i].unread)
      BY <3>1, <3>2 DEF InboxRight, CountsRight
    <3>4. worker.pc = "count" => StillAtMost(worker.unread)
      BY <3>1 DEF InboxRight, CountsRight
    <3>5. worker.pc \in Counting => 0 < count'
      BY <2>1 DEF InboxRight, CountsRight
    <3> QED BY <1>1, <3>3, <3>4, <3>5 DEF CountsRight, AtMostCounted, Send, StillAtMost
  <2> QED BY <2>4, <2>5, <2>6, <2>7 DEF InboxRight
<1>2. ASSUME NEW s \in sending, SendFails(s) PROVE InboxRight'
  <2>1. TypeOK' /\ ScreensRight'
    BY <1>2 DEF TypeOK, InboxRight, ScreensRight, SendFails, MainOnly
  <2>2. WorkerRight' /\ MainRight' /\ CountsRight'
    BY <1>2, CountsStay DEF InboxRight, WorkerRight, MainRight, SendFails, MainOnly
  <2> QED BY <2>1, <2>2 DEF InboxRight
<1>3. ASSUME NEW s \in sending, SentFind(s) PROVE InboxRight'
  <2>1. s.msg \in Message /\ s.msg.user \in Users /\ s.here \in BOOLEAN
        /\ s.msg.mine /\ (s.here => screen # None)
    BY DEF TypeOK, Sent, Message, InboxRight, ScreensRight
  <2>2. main' = [pc |-> "sentrow", user |-> s.msg.user, last |-> s.msg,
                 found |-> Find(s.msg.user), here |-> s.here]
    BY <1>3 DEF SentFind
  <2>3. s.msg # None /\ Find(s.msg.user) \in BOOLEAN
    BY <2>1, NoneIsNoRecord DEF NoneIsNoRecord, Find
  <2>4. main' \in Main /\ main'.pc = "sentrow" /\ main'.user \in Users /\ main'.last = s.msg
        /\ main'.here = s.here
    BY <2>1, <2>2, <2>3 DEF Main, MainPc, Messages
  <2>5. TypeOK' /\ ScreensRight'
    BY <1>3, <2>4 DEF TypeOK, InboxRight, ScreensRight, SentFind, MainOnly
  <2>6. MainRight'
    BY <1>3, <2>1, <2>3, <2>4 DEF MainRight, SentFind
  <2>7. WorkerRight' /\ CountsRight'
    BY <1>3, CountsStay DEF InboxRight, WorkerRight, SentFind, MainOnly
  <2> QED BY <2>5, <2>6, <2>7 DEF InboxRight
<1>4. CASE SentRow
  <2>1. main.pc = "sentrow" /\ main.user \in Users /\ main.last \in Messages
    BY <1>4 DEF SentRow
  <2>2. main' = [main EXCEPT !.pc = "sentdetail"]
    BY <1>4 DEF SentRow
  <2>3. main' \in Main /\ main'.pc = "sentdetail" /\ main'.user = main.user
        /\ main'.last = main.last /\ main'.here = main.here
    BY <2>2 DEF Main, MainPc
  <2>4. /\ rows' \in [Users -> Seq(Row)]
        /\ \A v \in Users : \A i \in DOMAIN rows'[v] :
               \/ rows'[v][i].unread = None
               \/ i \in DOMAIN rows[v] /\ rows'[v][i].unread = rows[v][i].unread
    <3>1. CASE SetLast(main.user, main.last)
      BY <2>1, <3>1, SetLastRows
    <3>2. CASE AddRow(main.user, main.last)
      BY <2>1, <3>2, AddRowRows
    <3> QED BY <1>4, <3>1, <3>2 DEF SentRow
  <2>5. TypeOK'
    BY <1>4, <2>3, <2>4 DEF TypeOK, SentRow, MainOnly
  <2>6. MainRight' /\ WorkerRight' /\ ScreensRight'
    BY <1>4, <2>1, <2>3
    DEF InboxRight, MainRight, WorkerRight, ScreensRight, Sending, SentRow, MainOnly
  <2>7. CountsRight'
    BY <1>4, <2>4 DEF InboxRight, CountsRight, AtMostCounted, Counting, SentRow, MainOnly
  <2> QED BY <2>5, <2>6, <2>7 DEF InboxRight
<1>5. CASE SentDetail
  <2>1. main.pc = "sentdetail" /\ main.user \in Users /\ main.last \in Message
        /\ (main.here => screen # None)
    BY <1>5 DEF SentDetail, InboxRight, MainRight, Sending
  <2>2. main' = [main EXCEPT !.pc = "sentsend"]
    BY <1>5 DEF SentDetail
  <2>3. main' \in Main /\ main'.pc = "sentsend" /\ main'.user = main.user
        /\ main'.last = main.last /\ main'.here = main.here
    BY <2>2 DEF Main, MainPc
  <2>4. details' \in [Users -> Seq(Message)]
    BY <1>5, <2>1, AddDetailDetails DEF SentDetail
  <2>5. screen' \in Screen \cup {None} /\ (screen # None => screen' # None)
    <3>1. CASE main.here
      <4>1. Append(screen.shown, main.last) \in Seq(Message)
        BY <2>1, <3>1, ShownBehind
      <4>2. screen' = [screen EXCEPT !.shown = Append(screen.shown, main.last)]
        BY <1>5, <3>1 DEF SentDetail
      <4>3. screen' \in Screen
        BY <2>1, <3>1, <4>1, <4>2 DEF Screen
      <4> QED BY <4>3, NoneIsNoRecord DEF NoneIsNoRecord
    <3>2. CASE ~main.here
      BY <1>5, <3>2 DEF SentDetail, TypeOK
    <3> QED BY <3>1, <3>2
  <2>6. TypeOK'
    BY <1>5, <2>3, <2>4, <2>5 DEF TypeOK, SentDetail, MainOnly
  <2>7. MainRight' /\ WorkerRight' /\ ScreensRight' /\ CountsRight'
    BY <1>5, <2>1, <2>3, <2>5, CountsStay
    DEF InboxRight, MainRight, WorkerRight, ScreensRight, Sending, SentDetail, MainOnly
  <2> QED BY <2>6, <2>7 DEF InboxRight
<1>6. CASE SentSend
  <2>1. main.pc = "sentsend" /\ main.user \in Users /\ None \in Unreads /\ None \in Messages
    BY <1>6 DEF SentSend, Unreads, Messages
  <2>2. /\ broadcasts' \in Seq(Broadcast)
        /\ \A k \in DOMAIN broadcasts' :
              \/ broadcasts'[k].live => screen # None /\ broadcasts'[k].detail # None
              \/ k \in DOMAIN broadcasts /\ broadcasts'[k] = broadcasts[k]
    BY <1>6, <2>1, Announced DEF SentSend
  <2>3. main' \in Main /\ main'.pc = "idle" /\ main'.here = FALSE
    BY <1>6 DEF SentSend, IdleMain, Main, MainPc, Messages
  <2>4. TypeOK' /\ MainRight'
    BY <1>6, <2>2, <2>3 DEF TypeOK, MainRight, Sending, SentSend, MainOnly
  <2>5. WorkerRight' /\ CountsRight'
    BY <1>6, CountsStay DEF InboxRight, WorkerRight, SentSend, MainOnly
  <2>6. ScreensRight'
    BY <1>6, <2>2 DEF InboxRight, ScreensRight, SentSend
  <2> QED BY <2>4, <2>5, <2>6 DEF InboxRight
<1> QED BY <1>1, <1>2, <1>3, <1>4, <1>5, <1>6 DEF SendStep

(* A broadcast is handled: the list's entries and the screen stay well-formed. *)
LEMMA UpdatedEntries ==
  ASSUME NEW entries \in Seq(Row), NEW b \in Broadcast
  PROVE  UpdateData(entries, b) \in Seq(Row) /\ UpdateData(entries, b) # <<>>
<1> DEFINE r == [last |-> b.last, unread |-> b.unread]
           t == [i \in DOMAIN entries |-> r]
<1>1. r \in Row
  BY DEF Row, Broadcast
<1> HIDE DEF r
<1>2. CASE entries = <<>>
  <2>1. <<r>> \in Seq(Row) /\ Len(<<r>>) = 1
    BY <1>1
  <2>2. UpdateData(entries, b) = <<r>>
    BY <1>2 DEF UpdateData, r
  <2> QED BY <2>1, <2>2, EmptySeq
<1>3. CASE entries # <<>>
  <2>1. t \in [DOMAIN entries -> Row]
    BY <1>1
  <2>2. UpdateData(entries, b) = t
    BY <1>3 DEF UpdateData, r
  <2> HIDE DEF t
  <2> QED BY <1>3, <2>1, <2>2, SamePlaces
<1> QED BY <1>2, <1>3

LEMMA RightBroadcast ==
  ASSUME InboxRight, HandleBroadcast
  PROVE  InboxRight'
<1> USE Fields
<1> TypeOK
  BY DEF InboxRight
<1> DEFINE b == Head(broadcasts)
<1>1. broadcasts # <<>> /\ broadcasts' = Tail(broadcasts) /\ main.pc = "idle"
  BY DEF HandleBroadcast
<1>2. b \in Broadcast /\ b.user \in Users /\ b.detail \in Messages
      /\ (b.live => screen # None /\ b.detail # None)
  <2>1. b \in Broadcast /\ 1 \in DOMAIN broadcasts /\ broadcasts[1] = b
    BY <1>1, Taken
  <2> QED BY <2>1 DEF Broadcast, InboxRight, ScreensRight
<1>3. list' \in [Users -> Seq(Row)]
  <2>1. list \in [Users -> Seq(Row)] /\ list[b.user] \in Seq(Row)
    BY <1>2 DEF TypeOK
  <2>2. UpdateData(list[b.user], b) \in Seq(Row)
    BY <1>2, <2>1, UpdatedEntries
  <2>3. list' = [list EXCEPT ![b.user] = UpdateData(list[b.user], b)]
    BY DEF HandleBroadcast
  <2> HIDE DEF b
  <2> QED BY <2>1, <2>2, <2>3
<1>4. screen' \in Screen \cup {None} /\ (screen # None => screen' # None)
  <2>1. CASE b.live
    <3>1. Append(screen.shown, b.detail) \in Seq(Message)
      BY <1>2, <2>1, ShownBehind DEF Messages
    <3>2. screen' = [screen EXCEPT !.shown = Append(screen.shown, b.detail)]
      BY <2>1 DEF HandleBroadcast
    <3>3. screen' \in Screen
      BY <1>2, <2>1, <3>1, <3>2 DEF Screen
    <3> QED BY <3>3, NoneIsNoRecord DEF NoneIsNoRecord
  <2>2. CASE ~b.live
    BY <2>2 DEF HandleBroadcast, TypeOK
  <2> QED BY <2>1, <2>2
<1>5. broadcasts' \in Seq(Broadcast) /\ \A k \in DOMAIN broadcasts' :
          \E j \in DOMAIN broadcasts : broadcasts'[k] = broadcasts[j]
  BY <1>1, Taken
<1>6. badge' \in BOOLEAN
  BY DEF HandleBroadcast, UpdateDots, HaveUnread
<1>7. TypeOK'
  BY <1>3, <1>4, <1>5, <1>6 DEF TypeOK, HandleBroadcast, MainOnly
<1>8. MainRight' /\ ScreensRight'
  BY <1>1, <1>4, <1>5 DEF InboxRight, MainRight, ScreensRight, Sending, HandleBroadcast, MainOnly
<1>9. WorkerRight' /\ CountsRight'
  BY CountsStay DEF InboxRight, WorkerRight, HandleBroadcast, MainOnly
<1> QED BY <1>7, <1>8, <1>9 DEF InboxRight

LEMMA RightRestart ==
  ASSUME InboxRight, Restart
  PROVE  InboxRight'
<1> TypeOK
  BY DEF InboxRight
<1>1. worker' \in Worker /\ main' \in Main /\ worker'.pc = "idle" /\ main'.pc = "idle"
      /\ main'.here = FALSE
  BY DEF Restart, IdleWorker, Worker, WorkerPc, IdleMain, Main, MainPc, Messages, Unreads
<1>2. screen' = None /\ sending' = {} /\ broadcasts' = <<>> /\ list' = rows
      /\ rows' = rows /\ details' = details /\ count' = count
  BY DEF Restart
<1>3. badge' \in BOOLEAN
  BY DEF Restart, UpdateDots, HaveUnread
<1>4. <<>> \in Seq(Broadcast) /\ DOMAIN <<>> = {}
  OBVIOUS
<1>5. TypeOK'
  BY <1>1, <1>2, <1>3, <1>4 DEF TypeOK
<1>6. WorkerRight' /\ MainRight' /\ ScreensRight'
  BY <1>1, <1>2, <1>4 DEF WorkerRight, MainRight, ScreensRight, Sending
<1>7. CountsRight'
  BY <1>1, <1>2 DEF InboxRight, CountsRight, AtMostCounted, Counting
<1> QED BY <1>5, <1>6, <1>7 DEF InboxRight

(* Every step keeps the types and what the threads remember.                   *)
LEMMA RightStep == InboxRight /\ [Next]_vars => InboxRight'
<1> SUFFICES ASSUME InboxRight, [Next]_vars PROVE InboxRight'
  OBVIOUS
<1>1. CASE UNCHANGED vars
  <2>1. UNCHANGED <<rows, details, worker, main, screen, sending, broadcasts, list, badge, count>>
    BY <1>1 DEF vars
  <2>2. CountsRight'
    BY <2>1, CountsStay
  <2> QED BY <2>1, <2>2 DEF InboxRight, TypeOK, WorkerRight, MainRight, ScreensRight
<1> QED BY <1>1, RightWorker, RightScreen, RightSend, RightBroadcast, RightRestart DEF Next
------------------------------------------------------------------------------
(* That no chat is out of reach, and that the dots settle.                     *)
InReach == RowsThere /\ ListedOrOnItsWay /\ BadgeOrOnItsWay

LEMMA ReachInit == Init => InReach
<1> SUFFICES ASSUME Init PROVE InReach
  OBVIOUS
<1>1. rows = [u \in Users |-> <<>>] /\ details = [u \in Users |-> <<>>] /\ badge = FALSE
      /\ worker.pc = "idle" /\ main.pc = "idle" /\ DOMAIN <<>> = {}
  BY DEF Init, StartWith, IdleWorker, IdleMain
<1>2. RowsThere
  BY <1>1 DEF RowsThere, AboutToSend
<1>3. ListedOrOnItsWay
  BY <1>1 DEF ListedOrOnItsWay
<1>4. BadgeOrOnItsWay
  BY <1>1 DEF BadgeOrOnItsWay, HaveUnread
<1> QED BY <1>2, <1>3, <1>4 DEF InReach

(* Nothing gets out of reach where no table, list or dots change and no news    *)
(* is lost.                                                                    *)
LEMMA ReachStays ==
  ASSUME InReach, UNCHANGED <<rows, list, badge>>, RowsThere',
         \A u \in Users : OnItsWay(u) => OnItsWay(u)'
  PROVE  InReach'
<1>1. HaveUnread' = HaveUnread
  BY DEF HaveUnread
<1>2. ListedOrOnItsWay'
  BY DEF InReach, ListedOrOnItsWay
<1>3. BadgeOrOnItsWay'
  BY <1>1 DEF InReach, BadgeOrOnItsWay
<1> QED BY <1>2, <1>3 DEF InReach

LEMMA ReachWorker ==
  ASSUME InboxRight, InReach, WorkerStep
  PROVE  InReach'
<1> USE Fields
<1> TypeOK
  BY DEF InboxRight
<1>1. ASSUME NEW u \in Users, Receive(u) PROVE InReach'
  <2>1. worker.pc = "idle" /\ worker'.pc = "find"
    BY <1>1 DEF Receive, IdleWorker
  <2>2. RowsThere'
    BY <1>1, <2>1 DEF InReach, RowsThere, AboutToSend, Receive, WorkerOnly
  <2>3. \A v \in Users : OnItsWay(v) => OnItsWay(v)'
    BY <1>1, <2>1 DEF OnItsWay, AboutToSend, Receive, WorkerOnly
  <2> QED BY <1>1, <2>2, <2>3, ReachStays DEF Receive, WorkerOnly
<1>2. CASE WorkerFind
  <2>1. worker.pc = "find" /\ worker'.pc = "row" /\ worker'.msg = worker.msg
        /\ worker'.found = (rows[worker.msg.user] # <<>>)
    BY <1>2 DEF WorkerFind, Worker, Find
  <2>2. RowsThere'
    BY <1>2, <2>1 DEF InReach, RowsThere, AboutToSend, WorkerFind, WorkerOnly
  <2>3. \A v \in Users : OnItsWay(v) => OnItsWay(v)'
    BY <1>2, <2>1 DEF OnItsWay, AboutToSend, WorkerFind, WorkerOnly
  <2> QED BY <1>2, <2>2, <2>3, ReachStays DEF WorkerFind, WorkerOnly
<1>3. CASE WorkerRow
  <2>1. worker.pc = "row" /\ worker'.pc = "read" /\ worker'.msg = worker.msg
        /\ worker.msg \in Messages /\ worker.msg.user \in Users
    BY <1>3 DEF WorkerRow, Worker
  <2>2. /\ rows'[worker.msg.user] # <<>>
        /\ \A v \in Users : rows[v] # <<>> => rows'[v] # <<>>
        /\ \A v \in Users : v # worker.msg.user /\ rows'[v] # <<>> => rows[v] # <<>>
    <3>1. CASE worker.found /\ SetLast(worker.msg.user, worker.msg)
      <4>1. rows[worker.msg.user] # <<>>
        BY <2>1, <3>1 DEF InReach, RowsThere
      <4> QED BY <2>1, <3>1, <4>1, SetLastRows
    <3>2. CASE AddRow(worker.msg.user, worker.msg)
      BY <2>1, <3>2, AddRowRows
    <3> QED BY <1>3, <3>1, <3>2 DEF WorkerRow
  <2>3. RowsThere'
    BY <1>3, <2>1, <2>2, Fields DEF InReach, RowsThere, AboutToSend, WorkerRow, WorkerOnly
  <2>4. \A v \in Users : OnItsWay(v) => OnItsWay(v)'
    BY <1>3, <2>1 DEF OnItsWay, AboutToSend, WorkerRow, WorkerOnly
  <2>6. \A v \in Users : v = worker.msg.user => OnItsWay(v)'
    BY <2>1 DEF OnItsWay, AboutToSend
  <2>7. ListedOrOnItsWay'
    BY <1>3, <2>2, <2>4, <2>6 DEF InReach, ListedOrOnItsWay, WorkerRow, WorkerOnly
  <2>8. BadgeOrOnItsWay'
    BY <2>1, <2>6 DEF BadgeOrOnItsWay
  <2> QED BY <2>3, <2>7, <2>8 DEF InReach
<1>4. ASSUME worker.pc \in {"read", "count", "detail"}, worker'.pc \in AboutToSend,
             worker'.msg = worker.msg, UNCHANGED broadcasts, UNCHANGED <<main, list, badge>>,
             \A v \in Users : rows'[v] = <<>> <=> rows[v] = <<>>,
             \A v \in Users : details'[v] # <<>> => rows[v] # <<>>
      PROVE  InReach'
  <2>1. worker.msg.user \in Users
    BY <1>4
  <2>2. worker.pc \in AboutToSend
    BY <1>4 DEF AboutToSend
  <2>3. RowsThere'
    BY <1>4, <2>1, <2>2, Fields DEF InReach, RowsThere, AboutToSend
  <2>4. \A v \in Users : OnItsWay(v) => OnItsWay(v)'
    BY <1>4 DEF OnItsWay
  <2>5. \A v \in Users : v = worker.msg.user => OnItsWay(v)'
    BY <1>4 DEF OnItsWay
  <2>6. ListedOrOnItsWay'
    BY <1>4, <2>4 DEF InReach, ListedOrOnItsWay
  <2>7. BadgeOrOnItsWay'
    BY <2>1, <2>5 DEF BadgeOrOnItsWay
  <2> QED BY <2>3, <2>6, <2>7 DEF InReach
<1>5. CASE WorkerRead
  <2>1. worker.pc = "read" /\ worker'.pc = "count" /\ worker'.msg = worker.msg
    BY <1>5 DEF WorkerRead, Worker
  <2> QED BY <1>4, <1>5, <2>1 DEF WorkerRead, WorkerOnly, AboutToSend, InReach, RowsThere
<1>6. CASE WorkerCount
  <2>1. worker.pc = "count" /\ worker'.pc = "detail" /\ worker'.msg = worker.msg
    BY <1>6 DEF WorkerCount, Worker
  <2>2. \A v \in Users : rows'[v] = <<>> <=> rows[v] = <<>>
    <3> DEFINE n == OneMore(worker.unread)
    <3>1. SetUnread(worker.msg.user, n) /\ worker.msg.user \in Users
      BY <1>6, <2>1 DEF WorkerCount
    <3>2. n \in Unreads
      <4>1. 0 < count /\ AtMostCounted(worker.unread) /\ worker.pc \in Counting
        BY <2>1 DEF InboxRight, CountsRight, Counting
      <4>2. CASE worker.unread = None
        <5>1. n = 1
          BY <4>2 DEF OneMore
        <5> QED BY <4>1, <5>1 DEF Unreads
      <4>3. CASE worker.unread # None
        <5>1. n = worker.unread + 1 /\ worker.unread \in 0 .. MaxMessages
          BY <4>3 DEF OneMore, Unreads
        <5>2. worker.unread < count
          BY <4>1, <4>3 DEF AtMostCounted
        <5> QED BY <5>1, <5>2 DEF Unreads
      <4> QED BY <4>2, <4>3
    <3> HIDE DEF n
    <3> QED BY <3>1, <3>2, SetUnreadRows
  <2> QED BY <1>4, <1>6, <2>1, <2>2 DEF WorkerCount, WorkerOnly, AboutToSend, InReach, RowsThere
<1>7. CASE WorkerDetail
  <2>1. worker.pc = "detail" /\ worker'.pc = "send" /\ worker'.msg = worker.msg
        /\ worker.msg \in Message /\ worker.msg.user \in Users
    BY <1>7 DEF WorkerDetail, Worker
  <2>2. \A v \in Users : details'[v] # <<>> => rows[v] # <<>>
    <3>1. \A v \in Users : v # worker.msg.user => details'[v] = details[v]
      BY <1>7, <2>1, AddDetailDetails DEF WorkerDetail
    <3> QED BY <2>1, <3>1 DEF InReach, RowsThere, AboutToSend
  <2> QED BY <1>4, <1>7, <2>1, <2>2 DEF WorkerDetail, WorkerOnly, AboutToSend
<1>8. CASE WorkerSend
  <2>1. worker.pc = "send" /\ worker.msg \in Message /\ worker.msg.user \in Users
        /\ worker.msg \in Messages /\ worker'.pc = "idle"
    BY <1>8 DEF WorkerSend, IdleWorker
  <2>2. Announce(worker.msg.user, worker.msg, worker.unread, worker.msg)
    BY <1>8 DEF WorkerSend
  <2>3. /\ \E k \in DOMAIN broadcasts' : broadcasts'[k].user = worker.msg.user
        /\ \A k \in DOMAIN broadcasts :
               k \in DOMAIN broadcasts' /\ broadcasts'[k].user = broadcasts[k].user
    BY <2>1, <2>2, Announced
  <2>4. RowsThere'
    BY <1>8, <2>1 DEF InReach, RowsThere, AboutToSend, WorkerSend, WorkerOnly
  <2>5. \A v \in Users : OnItsWay(v) => OnItsWay(v)'
    BY <1>8, <2>3 DEF OnItsWay, WorkerSend, WorkerOnly
  <2> QED BY <1>8, <2>4, <2>5, ReachStays DEF WorkerSend, WorkerOnly
<1> QED BY <1>1, <1>2, <1>3, <1>5, <1>6, <1>7, <1>8 DEF WorkerStep

LEMMA ReachScreen ==
  ASSUME InboxRight, InReach, ScreenStep
  PROVE  InReach'
<1> USE Fields
<1> TypeOK
  BY DEF InboxRight
<1>1. ASSUME main.pc \notin {"announce", "sentdetail", "sentsend"},
             main'.pc \notin {"sentrow", "sentdetail", "sentsend"},
             \A k \in DOMAIN broadcasts :
                 k \in DOMAIN broadcasts' /\ broadcasts'[k].user = broadcasts[k].user,
             UNCHANGED <<rows, details, worker, list, badge>>
      PROVE  InReach'
  <2>1. RowsThere'
    BY <1>1 DEF InReach, RowsThere
  <2>2. \A v \in Users : OnItsWay(v) => OnItsWay(v)'
    BY <1>1 DEF OnItsWay
  <2> QED BY <1>1, <2>1, <2>2, ReachStays
<1>2. ASSUME NEW u \in Users, OpenChat(u) PROVE InReach'
  <2>1. main.pc = "idle" /\ main'.pc = "load"
    BY <1>2 DEF OpenChat, IdleMain
  <2> QED BY <1>1, <1>2, <2>1 DEF OpenChat, MainOnly
<1>3. CASE LoadChat
  <2>1. main.pc = "load" /\ main'.pc = "mark"
    BY <1>3 DEF LoadChat, Main
  <2> QED BY <1>1, <1>3, <2>1 DEF LoadChat, MainOnly
<1>4. CASE ResumeChat
  <2>1. main.pc = "idle" /\ main'.pc = "mark"
    BY <1>4 DEF ResumeChat, IdleMain
  <2> QED BY <1>1, <1>4, <2>1 DEF ResumeChat, MainOnly
<1>5. CASE CloseChat
  <2>1. main.pc = "idle" /\ main'.pc = "mark"
    BY <1>5 DEF CloseChat, IdleMain
  <2>2. \A k \in DOMAIN broadcasts :
            k \in DOMAIN broadcasts' /\ broadcasts'[k].user = broadcasts[k].user
    <3>1. ASSUME NEW k \in DOMAIN broadcasts
          PROVE  [broadcasts[k] EXCEPT !.live = FALSE].user = broadcasts[k].user
      <4>1. broadcasts[k] \in Broadcast
        BY DEF TypeOK
      <4> QED BY <4>1 DEF Broadcast
    <3> QED BY <1>5, <3>1 DEF CloseChat
  <2> QED BY <1>1, <1>5, <2>1, <2>2 DEF CloseChat, MainOnly
<1>6. CASE MarkRead
  <2>1. main.pc = "mark" /\ main.user \in Users
    BY <1>6 DEF MarkRead
  <2>2. CASE main' = IdleMain /\ UNCHANGED rows
    <3>1. main'.pc = "idle"
      BY <2>2 DEF IdleMain
    <3> QED BY <1>1, <1>6, <2>1, <2>2, <3>1 DEF MarkRead, MainOnly
  <2>3. CASE main' = [main EXCEPT !.pc = "announce"] /\ SetUnread(main.user, 0)
    <3>1. main'.pc = "announce" /\ main'.user = main.user
      BY <2>3 DEF Main
    <3>2. 0 \in Unreads
      BY DEF Unreads
    <3>3. \A v \in Users : rows'[v] = <<>> <=> rows[v] = <<>>
      BY <2>1, <2>3, <3>2, SetUnreadRows
    <3>4. RowsThere'
      BY <1>6, <3>1, <3>3, Fields DEF InReach, RowsThere, AboutToSend, MarkRead, MainOnly
    <3>5. \A v \in Users : OnItsWay(v) => OnItsWay(v)'
      BY <1>6, <2>1, <3>1 DEF OnItsWay, MarkRead, MainOnly
    <3>6. \A v \in Users : v = main.user => OnItsWay(v)'
      BY <3>1 DEF OnItsWay
    <3>7. ListedOrOnItsWay'
      BY <1>6, <3>3, <3>5 DEF InReach, ListedOrOnItsWay, MarkRead
    <3>8. BadgeOrOnItsWay'
      BY <2>1, <3>6 DEF BadgeOrOnItsWay
    <3> QED BY <3>4, <3>7, <3>8 DEF InReach
  <2> QED BY <1>6, <2>2, <2>3 DEF MarkRead
<1>7. CASE AnnounceRead
  <2>1. main.pc = "announce" /\ main.user \in Users /\ 0 \in Unreads /\ None \in Messages
        /\ main'.pc = "idle"
    BY <1>7 DEF AnnounceRead, Unreads, Messages, IdleMain
  <2>2. /\ \E k \in DOMAIN broadcasts' : broadcasts'[k].user = main.user
        /\ \A k \in DOMAIN broadcasts :
               k \in DOMAIN broadcasts' /\ broadcasts'[k].user = broadcasts[k].user
    BY <1>7, <2>1, Announced DEF AnnounceRead
  <2>3. RowsThere'
    BY <1>7, <2>1 DEF InReach, RowsThere, AnnounceRead, MainOnly
  <2>4. \A v \in Users : OnItsWay(v) => OnItsWay(v)'
    BY <1>7, <2>2 DEF OnItsWay, AnnounceRead, MainOnly
  <2> QED BY <1>7, <2>3, <2>4, ReachStays DEF AnnounceRead, MainOnly
<1> QED BY <1>2, <1>3, <1>4, <1>5, <1>6, <1>7 DEF ScreenStep

LEMMA ReachSend ==
  ASSUME InboxRight, InReach, SendStep
  PROVE  InReach'
<1> USE Fields
<1> TypeOK
  BY DEF InboxRight
<1>1. CASE Send
  <2>1. RowsThere'
    BY <1>1 DEF InReach, RowsThere, Send
  <2>2. \A v \in Users : OnItsWay(v) => OnItsWay(v)'
    BY <1>1 DEF OnItsWay, Send
  <2> QED BY <1>1, <2>1, <2>2, ReachStays DEF Send
<1>2. ASSUME NEW s \in sending, SendFails(s) PROVE InReach'
  <2>1. RowsThere'
    BY <1>2 DEF InReach, RowsThere, SendFails, MainOnly
  <2>2. \A v \in Users : OnItsWay(v) => OnItsWay(v)'
    BY <1>2 DEF OnItsWay, SendFails, MainOnly
  <2> QED BY <1>2, <2>1, <2>2, ReachStays DEF SendFails, MainOnly
<1>3. ASSUME NEW s \in sending, SentFind(s) PROVE InReach'
  <2>1. main.pc = "idle" /\ main'.pc = "sentrow" /\ main'.user = s.msg.user
        /\ main'.found = (rows[s.msg.user] # <<>>)
    BY <1>3 DEF SentFind, Find
  <2>2. RowsThere'
    BY <1>3, <2>1 DEF InReach, RowsThere, SentFind, MainOnly
  <2>3. \A v \in Users : OnItsWay(v) => OnItsWay(v)'
    BY <1>3, <2>1 DEF OnItsWay, SentFind, MainOnly
  <2> QED BY <1>3, <2>2, <2>3, ReachStays DEF SentFind, MainOnly
<1>4. CASE SentRow
  <2>1. main.pc = "sentrow" /\ main'.pc = "sentdetail" /\ main'.user = main.user
        /\ main.last \in Messages /\ main.user \in Users
    BY <1>4 DEF SentRow, Main
  <2>2. /\ rows'[main.user] # <<>>
        /\ \A v \in Users : rows[v] # <<>> => rows'[v] # <<>>
        /\ \A v \in Users : v # main.user /\ rows'[v] # <<>> => rows[v] # <<>>
    <3>1. CASE main.found /\ SetLast(main.user, main.last)
      <4>1. rows[main.user] # <<>>
        BY <2>1, <3>1 DEF InReach, RowsThere
      <4> QED BY <2>1, <3>1, <4>1, SetLastRows
    <3>2. CASE AddRow(main.user, main.last)
      BY <2>1, <3>2, AddRowRows
    <3> QED BY <1>4, <3>1, <3>2 DEF SentRow
  <2>3. RowsThere'
    BY <1>4, <2>1, <2>2, Fields DEF InReach, RowsThere, AboutToSend, SentRow, MainOnly
  <2>4. \A v \in Users : OnItsWay(v) => OnItsWay(v)'
    BY <1>4, <2>1 DEF OnItsWay, SentRow, MainOnly
  <2>5. \A v \in Users : v = main.user => OnItsWay(v)'
    BY <2>1 DEF OnItsWay
  <2>6. ListedOrOnItsWay'
    BY <1>4, <2>2, <2>4, <2>5 DEF InReach, ListedOrOnItsWay, SentRow
  <2>7. BadgeOrOnItsWay'
    BY <2>1, <2>5 DEF BadgeOrOnItsWay
  <2> QED BY <2>3, <2>6, <2>7 DEF InReach
<1>5. CASE SentDetail
  <2>1. main.pc = "sentdetail" /\ main'.pc = "sentsend" /\ main'.user = main.user
        /\ main.user \in Users /\ main.last \in Message
    BY <1>5 DEF SentDetail, Main, Sending
  <2>2. \A v \in Users : details'[v] # <<>> => rows[v] # <<>>
    <3>1. \A v \in Users : v # main.user => details'[v] = details[v]
      BY <1>5, <2>1, AddDetailDetails DEF SentDetail
    <3> QED BY <2>1, <3>1 DEF InReach, RowsThere
  <2>3. RowsThere'
    BY <1>5, <2>1, <2>2 DEF InReach, RowsThere, SentDetail, MainOnly
  <2>4. \A v \in Users : OnItsWay(v) => OnItsWay(v)'
    BY <1>5, <2>1 DEF OnItsWay, SentDetail, MainOnly
  <2> QED BY <1>5, <2>3, <2>4, ReachStays DEF SentDetail, MainOnly
<1>6. CASE SentSend
  <2>1. main.pc = "sentsend" /\ main.user \in Users /\ None \in Unreads /\ None \in Messages
        /\ main'.pc = "idle"
    BY <1>6 DEF SentSend, Unreads, Messages, IdleMain
  <2>2. /\ \E k \in DOMAIN broadcasts' : broadcasts'[k].user = main.user
        /\ \A k \in DOMAIN broadcasts :
               k \in DOMAIN broadcasts' /\ broadcasts'[k].user = broadcasts[k].user
    BY <1>6, <2>1, Announced DEF SentSend
  <2>3. RowsThere'
    BY <1>6, <2>1 DEF InReach, RowsThere, SentSend, MainOnly
  <2>4. \A v \in Users : OnItsWay(v) => OnItsWay(v)'
    BY <1>6, <2>2 DEF OnItsWay, SentSend, MainOnly
  <2> QED BY <1>6, <2>3, <2>4, ReachStays DEF SentSend, MainOnly
<1> QED BY <1>1, <1>2, <1>3, <1>4, <1>5, <1>6 DEF SendStep

LEMMA ReachBroadcast ==
  ASSUME InboxRight, InReach, HandleBroadcast
  PROVE  InReach'
<1> TypeOK
  BY DEF InboxRight
<1> DEFINE b == Head(broadcasts)
<1>1. broadcasts # <<>> /\ broadcasts' = Tail(broadcasts) /\ main.pc = "idle"
      /\ UNCHANGED <<rows, details, worker, main>>
  BY DEF HandleBroadcast, MainOnly
<1>2. b \in Broadcast /\ b.user \in Users
      /\ \A j \in DOMAIN broadcasts : broadcasts[j] = b
              \/ \E k \in DOMAIN broadcasts' : broadcasts'[k] = broadcasts[j]
  BY <1>1, Taken DEF Broadcast
<1>3. list'[b.user] # <<>> /\ \A v \in Users : v # b.user => list'[v] = list[v]
  <2>1. list \in [Users -> Seq(Row)] /\ list[b.user] \in Seq(Row)
    BY <1>2 DEF TypeOK
  <2>2. UpdateData(list[b.user], b) # <<>>
    BY <1>2, <2>1, UpdatedEntries
  <2>3. list' = [list EXCEPT ![b.user] = UpdateData(list[b.user], b)]
    BY DEF HandleBroadcast
  <2> HIDE DEF b
  <2> QED BY <1>2, <2>1, <2>2, <2>3
<1> HIDE DEF b
<1>4. \A v \in Users : v # b.user /\ OnItsWay(v) => OnItsWay(v)'
  BY <1>1, <1>2 DEF OnItsWay
<1>5. RowsThere'
  BY <1>1 DEF InReach, RowsThere
<1>6. ListedOrOnItsWay'
  BY <1>1, <1>3, <1>4 DEF InReach, ListedOrOnItsWay
<1>7. BadgeOrOnItsWay'
  <2>1. badge' = HaveUnread /\ HaveUnread' = HaveUnread
    BY <1>1 DEF HandleBroadcast, UpdateDots, HaveUnread
  <2> QED BY <2>1 DEF BadgeOrOnItsWay
<1> QED BY <1>5, <1>6, <1>7 DEF InReach

LEMMA ReachRestart ==
  ASSUME InReach, Restart
  PROVE  InReach'
<1>1. worker'.pc = "idle" /\ main'.pc = "idle" /\ list' = rows /\ UNCHANGED <<rows, details>>
  BY DEF Restart, IdleWorker, IdleMain
<1>2. RowsThere'
  BY <1>1 DEF InReach, RowsThere, AboutToSend
<1>3. ListedOrOnItsWay'
  BY <1>1 DEF ListedOrOnItsWay
<1>4. BadgeOrOnItsWay'
  <2>1. badge' = HaveUnread /\ HaveUnread' = HaveUnread
    BY <1>1 DEF Restart, UpdateDots, HaveUnread
  <2> QED BY <2>1 DEF BadgeOrOnItsWay
<1> QED BY <1>2, <1>3, <1>4 DEF InReach

(* No step puts a chat out of reach or leaves the dots wrong for good.         *)
LEMMA ReachStep == InboxRight /\ InReach /\ [Next]_vars => InReach'
<1> SUFFICES ASSUME InboxRight, InReach, [Next]_vars PROVE InReach'
  OBVIOUS
<1>1. CASE UNCHANGED vars
  <2>1. RowsThere' /\ \A v \in Users : OnItsWay(v) => OnItsWay(v)'
    BY <1>1 DEF InReach, RowsThere, OnItsWay, vars
  <2> QED BY <1>1, <2>1, ReachStays DEF vars
<1> QED BY <1>1, ReachWorker, ReachScreen, ReachSend, ReachBroadcast, ReachRestart DEF Next
------------------------------------------------------------------------------
(* The messages of an open chat.                                               *)

(* What the screen shows stays as long as it, its messages and what comes do.  *)
LEMMA ShownStays ==
  ASSUME ShownOrComing, UNCHANGED <<screen, details>>,
         screen # None => main.pc # "load",
         \A m : Comes(m) => Comes(m)'
  PROVE  ShownOrComing'
BY DEF ShownOrComing, Shows

LEMMA ShownWorker ==
  ASSUME InboxRight, ShownOrComing, WorkerStep
  PROVE  ShownOrComing'
<1> USE Fields
<1> TypeOK
  BY DEF InboxRight
<1>1. main' = main /\ screen' = screen
  BY DEF WorkerStep, Receive, WorkerFind, WorkerRow, WorkerRead, WorkerCount, WorkerDetail,
     WorkerSend, WorkerOnly
<1>2. CASE screen = None \/ main.pc = "load"
  BY <1>1, <1>2 DEF ShownOrComing
<1>3. ASSUME screen # None, main.pc # "load", worker.pc # "send", UNCHANGED broadcasts,
             UNCHANGED details
      PROVE  ShownOrComing'
  <2>1. \A m : Comes(m) => Comes(m)'
    BY <1>3 DEF Comes
  <2> QED BY <1>1, <1>3, <2>1, ShownStays
<1>4. ASSUME screen # None, main.pc # "load", WorkerDetail
      PROVE  ShownOrComing'
  <2>1. worker.pc = "detail" /\ worker'.pc = "send" /\ worker'.msg = worker.msg
        /\ worker.msg \in Message /\ worker.msg.user \in Users /\ UNCHANGED broadcasts
    BY <1>4 DEF WorkerDetail, Worker
  <2>2. /\ \A v \in Users : v # worker.msg.user => details'[v] = details[v]
        /\ \A i \in DOMAIN details'[worker.msg.user] :
               \/ details'[worker.msg.user][i] = worker.msg
               \/ /\ i \in DOMAIN details[worker.msg.user]
                  /\ details'[worker.msg.user][i] = details[worker.msg.user][i]
    BY <1>4, <2>1, AddDetailDetails DEF WorkerDetail
  <2>3. \A m : m = worker.msg => Comes(m)'
    BY <2>1 DEF Comes
  <2>4. \A m : Comes(m) => Comes(m)'
    BY <2>1 DEF Comes
  <2>5. ASSUME NEW i \in DOMAIN details'[screen.user]
        PROVE  \A m : m = details'[screen.user][i] =>
                   m.mine \/ Shows(screen.shown, m) \/ Comes(m)'
    <3>1. CASE details'[screen.user][i] = worker.msg
      BY <2>3, <3>1
    <3>2. CASE i \in DOMAIN details[screen.user]
               /\ details'[screen.user][i] = details[screen.user][i]
      BY <1>4, <2>4, <3>2 DEF ShownOrComing
    <3>3. screen.user \in Users
      BY <1>4
    <3> QED BY <2>2, <3>1, <3>2, <3>3
  <2> QED BY <1>1, <2>5 DEF ShownOrComing
<1>5. ASSUME screen # None, main.pc # "load", WorkerSend
      PROVE  ShownOrComing'
  <2>1. worker.pc = "send" /\ worker.msg \in Message /\ worker.msg.user \in Users
        /\ worker.msg \in Messages /\ worker.msg # None /\ UNCHANGED details
    BY <1>5, NoneIsNoRecord DEF WorkerSend, NoneIsNoRecord
  <2>2. Announce(worker.msg.user, worker.msg, worker.unread, worker.msg)
    BY <1>5 DEF WorkerSend
  <2>3. /\ \E k \in DOMAIN broadcasts' : broadcasts'[k].live /\ broadcasts'[k].detail = worker.msg
        /\ \A k \in DOMAIN broadcasts :
               k \in DOMAIN broadcasts' /\ broadcasts'[k] = broadcasts[k]
    BY <1>5, <2>1, <2>2, Announced
  <2>4. \A m : Comes(m) => Comes(m)'
    BY <2>3 DEF Comes
  <2> QED BY <1>1, <1>5, <2>1, <2>4, ShownStays
<1>6. ASSUME NEW u \in Users, Receive(u)
      PROVE  worker.pc # "send" /\ UNCHANGED broadcasts /\ UNCHANGED details
  BY <1>6 DEF Receive
<1>7. WorkerFind \/ WorkerRow \/ WorkerRead \/ WorkerCount
        => worker.pc # "send" /\ UNCHANGED broadcasts /\ UNCHANGED details
  BY DEF WorkerFind, WorkerRow, WorkerRead, WorkerCount
<1> QED BY <1>2, <1>3, <1>4, <1>5, <1>6, <1>7 DEF WorkerStep

LEMMA ShownMain ==
  ASSUME InboxRight, ShownOrComing, ScreenStep \/ SendStep
  PROVE  ShownOrComing'
<1> USE Fields
<1> TypeOK
  BY DEF InboxRight
<1>1. ASSUME UNCHANGED <<screen, details, worker>>, main.pc # "load",
             \A k \in DOMAIN broadcasts :
                 k \in DOMAIN broadcasts' /\ broadcasts'[k] = broadcasts[k]
      PROVE  ShownOrComing'
  <2>1. \A m : Comes(m) => Comes(m)'
    BY <1>1 DEF Comes
  <2> QED BY <1>1, <2>1, ShownStays
<1>2. ASSUME NEW u \in Users, OpenChat(u) PROVE ShownOrComing'
  BY <1>2 DEF OpenChat, IdleMain, ShownOrComing
<1>3. CASE LoadChat
  <2>1. screen # None /\ screen.user \in Users /\ screen \in Screen
    BY <1>3 DEF LoadChat, InboxRight, MainRight
  <2>2. screen' = [screen EXCEPT !.shown = details[screen.user]] /\ details' = details
    BY <1>3 DEF LoadChat
  <2>3. screen'.shown = details[screen.user] /\ screen'.user = screen.user
    BY <2>1, <2>2 DEF Screen
  <2> QED BY <2>2, <2>3 DEF ShownOrComing, Shows
<1>4. CASE ResumeChat
  BY <1>1, <1>4 DEF ResumeChat, MainOnly
<1>5. CASE CloseChat
  BY <1>5 DEF CloseChat, ShownOrComing
<1>6. CASE MarkRead
  BY <1>1, <1>6 DEF MarkRead, MainOnly
<1>7. CASE AnnounceRead
  <2>1. main.pc = "announce" /\ main.user \in Users /\ 0 \in Unreads /\ None \in Messages
    BY <1>7 DEF AnnounceRead, Unreads, Messages
  <2>2. \A k \in DOMAIN broadcasts :
            k \in DOMAIN broadcasts' /\ broadcasts'[k] = broadcasts[k]
    BY <1>7, <2>1, Announced DEF AnnounceRead
  <2> QED BY <1>1, <1>7, <2>2 DEF AnnounceRead, MainOnly
<1>8. CASE Send
  BY <1>1, <1>8 DEF Send
<1>9. ASSUME NEW s \in sending, SendFails(s) PROVE ShownOrComing'
  <2>1. \A m : Comes(m) => Comes(m)'
    BY <1>9 DEF Comes, SendFails, MainOnly
  <2> QED BY <1>9, <2>1 DEF SendFails, ShownOrComing, Shows
<1>10. ASSUME NEW s \in sending, SentFind(s) PROVE ShownOrComing'
  BY <1>1, <1>10 DEF SentFind, MainOnly
<1>11. CASE SentRow
  BY <1>1, <1>11 DEF SentRow, MainOnly
<1>12. CASE SentDetail
  <2>1. main.pc = "sentdetail" /\ main.user \in Users /\ main.last \in Message
        /\ main.last.mine /\ (main.here => screen # None)
    BY <1>12 DEF SentDetail, InboxRight, MainRight, Sending
  <2>2. /\ \A v \in Users : v # main.user => details'[v] = details[v]
        /\ \A i \in DOMAIN details'[main.user] :
               \/ details'[main.user][i] = main.last
               \/ /\ i \in DOMAIN details[main.user]
                  /\ details'[main.user][i] = details[main.user][i]
    BY <1>12, <2>1, AddDetailDetails DEF SentDetail
  <2>3. \A m : Comes(m) => Comes(m)'
    BY <1>12 DEF Comes, SentDetail, MainOnly
  <2>4. screen' # None => screen # None /\ screen'.user = screen.user
        /\ \A m : Shows(screen.shown, m) => Shows(screen'.shown, m)
    <3>1. CASE main.here
      <4>1. screen' = [screen EXCEPT !.shown = Append(screen.shown, main.last)]
        BY <1>12, <3>1 DEF SentDetail
      <4>2. screen'.user = screen.user /\ screen'.shown = Append(screen.shown, main.last)
        BY <2>1, <3>1, <4>1 DEF Screen
      <4>3. \A m : Shows(screen.shown, m) => Shows(Append(screen.shown, main.last), m)
        BY <2>1, <3>1, ShownBehind
      <4> QED BY <2>1, <3>1, <4>2, <4>3
    <3>2. CASE ~main.here
      BY <1>12, <3>2 DEF SentDetail
    <3> QED BY <3>1, <3>2
  <2>5. ASSUME screen' # None, NEW i \in DOMAIN details'[screen.user]
        PROVE  \A m : m = details'[screen.user][i] =>
                   m.mine \/ Shows(screen'.shown, m) \/ Comes(m)'
    <3>1. CASE details'[screen.user][i] = main.last
      BY <2>1, <3>1
    <3>2. CASE i \in DOMAIN details[screen.user]
               /\ details'[screen.user][i] = details[screen.user][i]
      BY <2>1, <2>3, <2>4, <2>5, <3>2 DEF ShownOrComing
    <3>3. screen.user \in Users
      BY <2>4, <2>5
    <3> QED BY <2>2, <3>1, <3>2, <3>3
  <2> QED BY <2>4, <2>5 DEF ShownOrComing
<1>13. CASE SentSend
  <2>1. main.pc = "sentsend" /\ main.user \in Users /\ None \in Unreads /\ None \in Messages
    BY <1>13 DEF SentSend, Unreads, Messages
  <2>2. \A k \in DOMAIN broadcasts :
            k \in DOMAIN broadcasts' /\ broadcasts'[k] = broadcasts[k]
    BY <1>13, <2>1, Announced DEF SentSend
  <2> QED BY <1>1, <1>13, <2>2 DEF SentSend, MainOnly
<1> QED BY <1>2, <1>3, <1>4, <1>5, <1>6, <1>7, <1>8, <1>9, <1>10, <1>11, <1>12, <1>13
        DEF ScreenStep, SendStep

LEMMA ShownBroadcast ==
  ASSUME InboxRight, ShownOrComing, HandleBroadcast
  PROVE  ShownOrComing'
<1> USE Fields
<1> TypeOK
  BY DEF InboxRight
<1> DEFINE b == Head(broadcasts)
<1>1. broadcasts # <<>> /\ broadcasts' = Tail(broadcasts) /\ main.pc = "idle"
      /\ UNCHANGED <<details, worker, main>>
  BY DEF HandleBroadcast, MainOnly
<1>2. b \in Broadcast /\ b.detail \in Messages
      /\ (b.live => screen # None /\ b.detail # None)
      /\ \A j \in DOMAIN broadcasts : broadcasts[j] = b
              \/ \E k \in DOMAIN broadcasts' : broadcasts'[k] = broadcasts[j]
  <2>1. b \in Broadcast /\ 1 \in DOMAIN broadcasts /\ broadcasts[1] = b
        /\ \A j \in DOMAIN broadcasts : broadcasts[j] = b
                \/ \E k \in DOMAIN broadcasts' : broadcasts'[k] = broadcasts[j]
    BY <1>1, Taken
  <2> QED BY <2>1 DEF Broadcast, InboxRight, ScreensRight
<1>3. screen' # None => screen # None /\ screen'.user = screen.user
      /\ (b.live => Shows(screen'.shown, b.detail))
      /\ \A m : Shows(screen.shown, m) => Shows(screen'.shown, m)
  <2>1. CASE b.live
    <3>1. screen' = [screen EXCEPT !.shown = Append(screen.shown, b.detail)]
      BY <2>1 DEF HandleBroadcast
    <3>2. screen # None /\ b.detail \in Message
      BY <1>2, <2>1 DEF Messages
    <3> HIDE DEF b
    <3>3. screen'.user = screen.user /\ screen'.shown = Append(screen.shown, b.detail)
      BY <3>1, <3>2 DEF Screen
    <3>4. /\ Shows(Append(screen.shown, b.detail), b.detail)
          /\ \A m : Shows(screen.shown, m) => Shows(Append(screen.shown, b.detail), m)
      BY <3>2, ShownBehind
    <3> QED BY <3>2, <3>3, <3>4
  <2>2. CASE ~b.live
    BY <2>2 DEF HandleBroadcast
  <2> QED BY <2>1, <2>2
<1> HIDE DEF b
<1>4. \A m : Comes(m) => Comes(m)' \/ (b.live /\ b.detail = m)
  BY <1>1, <1>2 DEF Comes
<1>5. ASSUME screen' # None, NEW i \in DOMAIN details[screen.user]
      PROVE  \A m : m = details[screen.user][i] =>
                 m.mine \/ Shows(screen'.shown, m) \/ Comes(m)'
  BY <1>1, <1>3, <1>4, <1>5 DEF ShownOrComing
<1> QED BY <1>1, <1>3, <1>5 DEF ShownOrComing

(* No step loses a message that an open chat is still to show.                 *)
LEMMA ShownStep == InboxRight /\ ShownOrComing /\ [Next]_vars => ShownOrComing'
<1> SUFFICES ASSUME InboxRight, ShownOrComing, [Next]_vars PROVE ShownOrComing'
  OBVIOUS
<1>1. CASE UNCHANGED vars
  BY <1>1 DEF vars, ShownOrComing, Shows, Comes
<1>2. CASE Restart
  BY <1>2 DEF Restart, ShownOrComing
<1> QED BY <1>1, <1>2, ShownWorker, ShownMain, ShownBroadcast DEF Next
------------------------------------------------------------------------------
(* The tables, threads and screens are always of their types, and every chat   *)
(* with messages has its row at any time, a crash between two statements       *)
(* included, and its entry in the list once all is settled.                    *)
THEOREM ChatsInReach == Spec => []TablesInOrder
<1>1. Init => InboxRight /\ InReach
  BY RightInit, ReachInit
<1>2. InboxRight /\ InReach /\ [Next]_vars => (InboxRight /\ InReach)'
  BY RightStep, ReachStep
<1>3. InboxRight /\ InReach => TablesInOrder
  BY DEF InboxRight, InReach, RowsThere, ListedOrOnItsWay, OnItsWay, AboutToSend,
     TablesInOrder, ChatListed, Settled
<1> QED BY <1>1, <1>2, <1>3, PTL DEF Spec

(* Once all is settled, the dots tell whether a chat has unread messages.      *)
THEOREM DotsSettle == Spec => []BadgeSettles
<1>1. Init => InboxRight /\ InReach
  BY RightInit, ReachInit
<1>2. InboxRight /\ InReach /\ [Next]_vars => (InboxRight /\ InReach)'
  BY RightStep, ReachStep
<1>3. InReach => BadgeSettles
  BY DEF InReach, BadgeOrOnItsWay, OnItsWay, AboutToSend, BadgeSettles, Settled
<1> QED BY <1>1, <1>2, <1>3, PTL DEF Spec

(* Once all is settled, an open chat shows every message received from its     *)
(* user.                                                                       *)
THEOREM OpenChatComplete == Spec => []ScreenComplete
<1>1. Init => InboxRight /\ ShownOrComing
  <2>1. Init => ShownOrComing
    BY DEF Init, StartWith, ShownOrComing
  <2> QED BY <2>1, RightInit
<1>2. InboxRight /\ ShownOrComing /\ [Next]_vars => (InboxRight /\ ShownOrComing)'
  BY RightStep, ShownStep
<1>3. ShownOrComing => ScreenComplete
  BY DEF ShownOrComing, Comes, Shows, Settled, ScreenComplete
<1> QED BY <1>1, <1>2, <1>3, PTL DEF Spec
==============================================================================
