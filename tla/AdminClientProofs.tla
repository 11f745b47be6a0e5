-------------------------- MODULE AdminClientProofs --------------------------
(***************************************************************************)
(* Proofs about the administrator's client, for any number of connections  *)
(* and of clicks.  The invariant of the three threads has five parts:      *)
(*                                                                         *)
(*   Shape      the types, also of callbacks and of messages;              *)
(*   Threads    a reconnection can only be asked for once the thread of    *)
(*              the connection before has told all it had to tell: until   *)
(*              then neither the button nor the message is there, except   *)
(*              between the reconnection and the removal of the message;   *)
(*   Views      the menu and the page a callback or the controller leaves  *)
(*              go with being logged in, and a reconnection with being     *)
(*              neither connected nor logged in;                           *)
(*   Mailboxes  of the four places where a login and its answer may be at  *)
(*              most one holds anything, and that only once;               *)
(*   Turns      a login that waits for its answer has put "waiting", or    *)
(*              is about to, and shuts both ways to another login until    *)
(*              the answer has been processed.                             *)
(*                                                                         *)
(* No part is inductive alone.  A lemma for each action, or for a family   *)
(* of actions that change the same things, shows that it keeps IInv; the   *)
(* lemmas before them say what a step leaves alone.                        *)
(***************************************************************************)
EXTENDS AdminClient, TLAPS

Datas == [login : Accounts \cup {None}, what : Accounts \cup {None}]
Mail  == [kind : Messages \cup {"WORK_END", "LOG_OUT", "KEEP_ALIVE"},
          what : Accounts \cup {None} \cup Datas]
Asked == {m \in Mail : m.kind = "LOGIN"}

(* What callbacks are made of. *)
Puts    == [op : {"put"}, key : Keys \ {"authenticated", "waiting"}, value : Accounts]
Pops    == [op : {"pop"}, key : Keys \ {"waiting"}]
Signals == [op : {"signal"}, message : Messages \ {"DISCONNECTED"}]
Others  == [op : {"log_out", "login_page", "stop", "end_work"}]
Ops     == Puts \cup Pops \cup Signals \cup Others

Shape ==
    /\ TypeOK
    /\ back \in {"login", "clear_LOGIN"}
    /\ todo \in Seq(Ops)
    /\ send_buffer \in [Conn -> Seq(Mail)] /\ outbox \in [Conn -> Seq(Mail)]
    /\ outbox \in [Conn -> Seq(Asked)]

(* What the running callback has still to do. *)
AsksAt(i)     == todo[i].op = "signal" /\ todo[i].message = "RECONNECT"
ForgetsAt(i)  == todo[i].op = "pop" /\ todo[i].key = "authenticated"
WillAsk       == \E i \in 1..Len(todo) : AsksAt(i)
WillForget    == \E i \in 1..Len(todo) : ForgetsAt(i)
WillShowLogin == \E i \in 1..Len(todo) : todo[i].op = "login_page"
LogOutInOrder == \A i \in 1..Len(todo) : ForgetsAt(i) => i = 1 /\ WillShowLogin

LoggedOut == ~menu /\ ~WillForget

(* A reconnection can still be asked for, or has been. *)
MayAsk       == button \/ WillAsk
MayReconnect == MayAsk \/ "RECONNECT" \in systemMessages

(* The latest thread has nothing to tell, and what it told has been heard. *)
Told == thread[internetClient] \in {"none", "done"} /\ "DISCONNECTED" \notin systemMessages

NotYetUsed ==
    \A c \in Conn : c > internetClient =>
        /\ thread[c] = "none" /\ ~up[c]
        /\ send_buffer[c] = <<>> /\ outbox[c] = <<>>
        /\ inbox[c] = <<>> /\ receive_buffer[c] = <<>>

(* Where the controller shows that there is no connection. *)
ShowingNone == {"no_server", "no_server_menu", "no_server_clear", "no_server_button"}
ShowingLost == {"show_lost", "lost_menu", "lost_clear", "lost_button", "clear_DISCONNECTED"}

Threads ==
    /\ OldThreadsAreDone /\ NotYetUsed
    /\ "DISCONNECTED" \in systemMessages => thread[internetClient] \in {"none", "done"}
    /\ pc \in {"first", "greet", "greet_clear", "start_first", "no_server",
               "no_server_menu", "no_server_clear", "no_server_button"} =>
          internetClient = 1 /\ Told /\ ~MayReconnect
    /\ pc = "first" => receive_buffer[1] = <<>>
    /\ pc \in ShowingNone \cup ShowingLost => ~connected
    /\ pc \in ShowingLost => thread[internetClient] \in {"none", "done"}
    /\ pc \in {"create", "start"} => "RECONNECT" \in systemMessages
    /\ pc \notin {"shown", "shown_clear", "clear_RECONNECT", "clear_DISCONNECTED",
                  "dead", "done"} =>
          (MayReconnect => Told)
    /\ pc = "clear_RECONNECT" => (MayAsk => Told)

Views ==
    /\ menu \/ WillForget => Has("authenticated")
    /\ WillForget => ~menu
    /\ page = "admin" => Has("authenticated") \/ WillShowLogin \/ overtaken
    /\ pc = "welcome_page" => (Has("authenticated") /\ ~WillForget) \/ overtaken
    /\ LogOutInOrder
    /\ pc \notin {"start", "shown", "shown_clear", "clear_RECONNECT", "dead", "done"} =>
          (MayReconnect => ~connected /\ LoggedOut)
    /\ pc \in {"no_server_clear", "no_server_button", "lost_clear", "lost_button"} => LoggedOut
    /\ pc = "clear_RECONNECT" => (MayAsk => ~connected /\ LoggedOut)
    /\ pc \in {"accepted", "welcome", "welcome_page"} => ~MayReconnect

AtMostOne(S) == \A i, j \in S : i = j
Few(A, B, C, D) ==
    /\ AtMostOne(A) /\ AtMostOne(B) /\ AtMostOne(C) /\ AtMostOne(D)
    /\ A = {} \/ (B = {} /\ C = {} /\ D = {})
    /\ B = {} \/ (C = {} /\ D = {})
    /\ C = {} \/ D = {}
FewOf(c) == Few(Logins(send_buffer[c]), Logins(outbox[c]),
                AnswersIn(inbox[c]), AnswersIn(receive_buffer[c]))
GreetingFirst(c) ==
    /\ \A i \in 1..Len(inbox[c]) :
          inbox[c][i] = "LOGIN_REQUEST" => i = 1 /\ receive_buffer[c] = <<>>
    /\ \A i \in 1..Len(receive_buffer[c]) : receive_buffer[c][i] = "LOGIN_REQUEST" => i = 1
Mailboxes == \A c \in Conn : FewOf(c) /\ GreetingFirst(c)

(* No login on a connection waits for its answer. *)
AnsweredOn(c) == /\ Logins(send_buffer[c]) = {} /\ Logins(outbox[c]) = {}
                 /\ AnswersIn(inbox[c]) = {} /\ AnswersIn(receive_buffer[c]) = {}
Answered == AnsweredOn(internetClient)

(* The greeting of a connection has not been read. *)
Greets(ms) == \E i \in 1..Len(ms) : ms[i] = "LOGIN_REQUEST"
GreetingOn(c) == Greets(inbox[c]) \/ Greets(receive_buffer[c])
Greeting == GreetingOn(internetClient)

Turns ==
    /\ ~Answered => (Has("waiting") \/ pc = "wait") /\ LoggedOut
    /\ pc \in {"auto_data", "get_login", "get_password", "send_login",
               "rejected", "rejected_label", "accepted", "welcome", "welcome_page",
               "answered"} => Answered
    /\ pc \in {"auto_data", "get_login", "get_password", "send_login",
               "accepted", "welcome"} => LoggedOut
    /\ Greeting \/ pc \in {"login_page", "auto"} =>
          (Has("authenticated") => Answered /\ LoggedOut)
    /\ Greeting /\ pc \in {"get_login", "get_password", "send_login"} => ~Has("authenticated")
    /\ pc \in {"login_page", "auto", "auto_data", "accepted", "welcome", "welcome_page"} =>
          ~Greeting
    /\ pc = "welcome" => Has("authenticated")
    /\ pc = "first" => ~Has("authenticated")

IInv == Shape /\ Threads /\ Views /\ Mailboxes /\ Turns

-----------------------------------------------------------------------------
(* Messages and answers in the sequences they wait in.                       *)

LEMMA OneMoreMessage ==
    ASSUME NEW s \in Seq(Mail), NEW m \in Mail
    PROVE  /\ Append(s, m) \in Seq(Mail)
           /\ Logins(Append(s, m)) = Logins(s) \cup (IF m.kind = "LOGIN" THEN {Len(s) + 1} ELSE {})
<1>1. /\ Append(s, m) \in Seq(Mail) /\ DOMAIN s = 1..Len(s) /\ Len(s) \in Nat
      /\ DOMAIN Append(s, m) = 1..(Len(s) + 1)
      /\ \A i \in 1..Len(s) : Append(s, m)[i] = s[i]
      /\ Append(s, m)[Len(s) + 1] = m
  OBVIOUS
<1> HIDE DEF Mail
<1>2. \A i \in 1..(Len(s) + 1) : i \in 1..Len(s) \/ i = Len(s) + 1
  BY <1>1
<1> QED
  BY <1>1, <1>2 DEF Logins

LEMMA OneMoreAnswer ==
    ASSUME NEW s \in Seq(Answers), NEW a \in Answers
    PROVE  /\ Append(s, a) \in Seq(Answers)
           /\ AnswersIn(Append(s, a)) =
                  AnswersIn(s) \cup (IF a # "LOGIN_REQUEST" THEN {Len(s) + 1} ELSE {})
<1>1. /\ Append(s, a) \in Seq(Answers) /\ DOMAIN s = 1..Len(s) /\ Len(s) \in Nat
      /\ DOMAIN Append(s, a) = 1..(Len(s) + 1)
      /\ \A i \in 1..Len(s) : Append(s, a)[i] = s[i]
      /\ Append(s, a)[Len(s) + 1] = a
  OBVIOUS
<1>2. \A i \in 1..(Len(s) + 1) : i \in 1..Len(s) \/ i = Len(s) + 1
  BY <1>1
<1> QED
  BY <1>1, <1>2 DEF AnswersIn

LEMMA FirstMessageTaken ==
    ASSUME NEW s \in Seq(Mail), s # <<>>
    PROVE  /\ Tail(s) \in Seq(Mail) /\ Head(s) \in Mail
           /\ Logins(s) = {} => Logins(Tail(s)) = {} /\ Head(s).kind # "LOGIN"
           /\ AtMostOne(Logins(s)) => /\ AtMostOne(Logins(Tail(s)))
                                      /\ Head(s).kind = "LOGIN" => Logins(Tail(s)) = {}
<1>1. /\ Tail(s) \in Seq(Mail) /\ Head(s) = s[1] /\ s[1] \in Mail
      /\ Len(s) \in Nat /\ Len(s) >= 1 /\ DOMAIN s = 1..Len(s)
      /\ DOMAIN Tail(s) = 1..(Len(s) - 1)
      /\ \A i \in 1..(Len(s) - 1) : Tail(s)[i] = s[i + 1]
  OBVIOUS
<1>2. \A i \in Logins(Tail(s)) : i \in Nat /\ i >= 1 /\ i + 1 \in Logins(s)
  BY <1>1 DEF Logins
<1>3. Head(s).kind = "LOGIN" => 1 \in Logins(s)
  BY <1>1 DEF Logins
<1> QED
  BY <1>1, <1>2, <1>3 DEF AtMostOne

LEMMA FirstAnswerTaken ==
    ASSUME NEW s \in Seq(Answers), s # <<>>
    PROVE  /\ Tail(s) \in Seq(Answers) /\ Head(s) \in Answers
           /\ AnswersIn(s) = {} => AnswersIn(Tail(s)) = {} /\ Head(s) = "LOGIN_REQUEST"
           /\ AtMostOne(AnswersIn(s)) => /\ AtMostOne(AnswersIn(Tail(s)))
                                         /\ Head(s) # "LOGIN_REQUEST" => AnswersIn(Tail(s)) = {}
<1>1. /\ Tail(s) \in Seq(Answers) /\ Head(s) = s[1] /\ s[1] \in Answers
      /\ Len(s) \in Nat /\ Len(s) >= 1 /\ DOMAIN s = 1..Len(s)
      /\ DOMAIN Tail(s) = 1..(Len(s) - 1)
      /\ \A i \in 1..(Len(s) - 1) : Tail(s)[i] = s[i + 1]
  OBVIOUS
<1>2. \A i \in AnswersIn(Tail(s)) : i \in Nat /\ i >= 1 /\ i + 1 \in AnswersIn(s)
  BY <1>1 DEF AnswersIn
<1>3. Head(s) # "LOGIN_REQUEST" => 1 \in AnswersIn(s)
  BY <1>1 DEF AnswersIn
<1> QED
  BY <1>1, <1>2, <1>3 DEF AtMostOne

LEMMA NothingIn == Logins(<<>>) = {} /\ AnswersIn(<<>>) = {} /\ ~Greets(<<>>)
                   /\ <<>> \in Seq(Mail) /\ <<>> \in Seq(Answers)
BY DEF Logins, AnswersIn, Greets

(* The greeting is the first thing a connection brings.                      *)
LEMMA GreetingMoves ==
    ASSUME NEW s \in Seq(Answers), s # <<>>
    PROVE  /\ Head(s) = "LOGIN_REQUEST" => Greets(s)
           /\ (\A i \in 1..Len(s) : s[i] = "LOGIN_REQUEST" => i = 1) => ~Greets(Tail(s))
           /\ Greets(Tail(s)) => Greets(s)
<1>1. /\ Head(s) = s[1] /\ Len(s) \in Nat /\ Len(s) >= 1
      /\ Len(Tail(s)) = Len(s) - 1
      /\ \A i \in 1..(Len(s) - 1) : Tail(s)[i] = s[i + 1]
  OBVIOUS
<1> QED
  BY <1>1 DEF Greets

LEMMA GreetingArrives ==
    ASSUME NEW s \in Seq(Answers), NEW a \in Answers
    PROVE  /\ Greets(Append(s, a)) <=> Greets(s) \/ a = "LOGIN_REQUEST"
           /\ (\A i \in 1..Len(s) : s[i] = "LOGIN_REQUEST" => i = 1)
                /\ (a = "LOGIN_REQUEST" => s = <<>>)
                => \A i \in 1..Len(Append(s, a)) : Append(s, a)[i] = "LOGIN_REQUEST" => i = 1
<1>1. /\ Len(s) \in Nat /\ Len(Append(s, a)) = Len(s) + 1 /\ (s = <<>> => Len(s) = 0)
      /\ \A i \in 1..Len(s) : Append(s, a)[i] = s[i]
      /\ Append(s, a)[Len(s) + 1] = a
  OBVIOUS
<1>2. \A i \in 1..(Len(s) + 1) : i \in 1..Len(s) \/ i = Len(s) + 1
  BY <1>1
<1> QED
  BY <1>1, <1>2 DEF Greets

-----------------------------------------------------------------------------
(* What a step leaves alone keeps its meaning.                               *)

LEMMA SameTodo ==
    ASSUME todo' = todo
    PROVE  /\ WillAsk' <=> WillAsk
           /\ WillForget' <=> WillForget
           /\ WillShowLogin' <=> WillShowLogin
           /\ LogOutInOrder' <=> LogOutInOrder
BY DEF WillAsk, WillForget, WillShowLogin, LogOutInOrder, AsksAt, ForgetsAt

LEMMA NothingToDo ==
    ASSUME todo = <<>>
    PROVE  ~WillAsk /\ ~WillForget /\ ~WillShowLogin /\ LogOutInOrder
<1>1. Len(todo) = 0 /\ 1..0 = {}
  OBVIOUS
<1> QED
  BY <1>1 DEF WillAsk, WillForget, WillShowLogin, LogOutInOrder

LEMMA OtherConnection ==
    ASSUME NEW c \in Conn, NEW d \in Conn, c < d \/ c > d
    PROVE  c # d
BY BoundsAssumption DEF Conn

LEMMA SameMail ==
    ASSUME UNCHANGED <<bufs, inbox, outbox>>
    PROVE  /\ Mailboxes' <=> Mailboxes
           /\ internetClient' = internetClient =>
                (Answered' <=> Answered) /\ (Greeting' <=> Greeting)
BY DEF bufs, Mailboxes, FewOf, GreetingFirst, Answered, AnsweredOn, Greeting, GreetingOn

LEMMA SameThreads ==
    ASSUME UNCHANGED <<sock, bufs, wires>>
    PROVE  /\ OldThreadsAreDone' <=> OldThreadsAreDone
           /\ NotYetUsed' <=> NotYetUsed
BY DEF sock, bufs, wires, OldThreadsAreDone, NotYetUsed

(* Steps of the controller that only move it.                                *)
Unmoved ==
    /\ (MayAsk' <=> MayAsk) /\ (MayReconnect' <=> MayReconnect)
    /\ (LoggedOut' <=> LoggedOut) /\ (Told' <=> Told)
    /\ (Answered' <=> Answered) /\ (Greeting' <=> Greeting)
    /\ (WillForget' <=> WillForget) /\ (WillShowLogin' <=> WillShowLogin)
    /\ (Mailboxes' <=> Mailboxes) /\ (LogOutInOrder' <=> LogOutInOrder)
    /\ (OldThreadsAreDone' <=> OldThreadsAreDone) /\ (NotYetUsed' <=> NotYetUsed)
    /\ internetClient' = internetClient /\ thread' = thread /\ connected' = connected
    /\ systemMessages' = systemMessages /\ systemVariables' = systemVariables
    /\ menu' = menu /\ page' = page /\ overtaken' = overtaken

LEMMA ControllerMoves ==
    ASSUME UNCHANGED <<gui, shared, flags, sock, bufs, wires>>
    PROVE  Unmoved
<1>1. UNCHANGED <<todo, button, menu, page, overtaken, systemMessages, systemVariables,
                  connected, internetClient, thread, bufs, inbox, outbox>>
  BY DEF gui, shared, flags, sock, bufs, wires
<1>2. (Told' <=> Told)
  BY <1>1 DEF Told
<1> QED
  BY <1>1, <1>2, SameTodo, SameMail, SameThreads DEF Unmoved, MayAsk, MayReconnect, LoggedOut

LEMMA ControllerShape ==
    ASSUME Shape, UNCHANGED <<gui, shared, flags, sock, bufs, wires>>,
           pc' \in Labels, back' \in {"login", "clear_LOGIN"},
           request' \in Requests, data' \in Datas
    PROVE  Shape'
BY DEF Shape, TypeOK, Labels, Datas, gui, shared, flags, sock, bufs, wires, MidUpdate

LEMMA ShapeUnfolded ==
    ASSUME Shape
    PROVE  /\ open \in BOOLEAN /\ page \in {"start", "login", "admin"}
           /\ button \in BOOLEAN /\ menu \in BOOLEAN /\ overtaken \in BOOLEAN
           /\ systemMessages \subseteq Messages
           /\ systemVariables \in [Keys -> Accounts \cup {None}]
           /\ pc \in Labels /\ back \in {"login", "clear_LOGIN"} /\ request \in Requests
           /\ data \in Datas /\ internetClient \in Conn /\ connected \in BOOLEAN
           /\ thread \in [Conn -> {"none", "loop", "lost", "signal", "done"}]
           /\ up \in [Conn -> BOOLEAN]
           /\ inbox \in [Conn -> Seq(Answers)] /\ receive_buffer \in [Conn -> Seq(Answers)]
           /\ send_buffer \in [Conn -> Seq(Mail)] /\ outbox \in [Conn -> Seq(Mail)]
BY DEF Shape, TypeOK, Datas

(* The tests of the controller: where they lead, and what has been seen.     *)
LEMMA TestKeepsIInv ==
    ASSUME IInv, NEW label, NEW condition \in BOOLEAN, NEW yes \in Labels, NEW no \in Labels,
           Test(label, condition, yes, no),
           LET next == IF condition THEN yes ELSE no IN
           \/ <<label, next>> \in {<<"top", "lost">>, <<"top", "done">>, <<"lost", "read">>,
                                   <<"auto", "login">>, <<"login", "check_login">>,
                                   <<"login", "request">>, <<"check_login", "check_state">>,
                                   <<"check_login", "request">>}
           \/ <<label, next>> = <<"top", "create">> /\ ~connected /\ "RECONNECT" \in systemMessages
           \/ <<label, next>> = <<"lost", "show_lost">> /\ ~connected
                  /\ "DISCONNECTED" \in systemMessages
           \/ <<label, next>> = <<"auto", "auto_data">> /\ Has("authenticated")
    PROVE  IInv'
<1> DEFINE next == IF condition THEN yes ELSE no
<1>1. /\ pc = label /\ pc' = next /\ back' = back /\ request' = request /\ data' = data
      /\ UNCHANGED <<gui, shared, flags, sock, bufs, wires>>
  BY DEF Test, At, Goto, Keep
<1>2. next \in Labels
  OBVIOUS
<1>3. \/ pc = "top" /\ pc' \in {"lost", "done"}
      \/ pc = "lost" /\ pc' = "read"
      \/ pc = "auto" /\ pc' = "login"
      \/ pc = "login" /\ pc' \in {"check_login", "request"}
      \/ pc = "check_login" /\ pc' \in {"check_state", "request"}
      \/ pc = "top" /\ pc' = "create" /\ ~connected /\ "RECONNECT" \in systemMessages
      \/ pc = "lost" /\ pc' = "show_lost" /\ ~connected /\ "DISCONNECTED" \in systemMessages
      \/ pc = "auto" /\ pc' = "auto_data" /\ Has("authenticated")
  BY <1>1
<1> HIDE DEF next
<1>4. Shape'
  BY <1>1, <1>2, ControllerShape, ShapeUnfolded DEF IInv
<1>5. Unmoved
  BY <1>1, ControllerMoves
<1>6. Threads'
  BY <1>3, <1>5 DEF IInv, Threads, Unmoved, ShowingNone, ShowingLost
<1>7. Views'
  BY <1>3, <1>5 DEF IInv, Views, Has, Unmoved
<1>8. Turns'
  BY <1>3, <1>5 DEF IInv, Turns, Has, Unmoved
<1> QED
  BY <1>4, <1>5, <1>6, <1>7, <1>8 DEF IInv, Unmoved

(* An error ends the controller.                                             *)
LEMMA DyingKeepsIInv ==
    ASSUME IInv, UNCHANGED <<gui, shared, flags, sock, bufs, wires>>,
           pc # "wait", pc' = "dead", back' = back, request' = request, data' = data
    PROVE  IInv'
<1>1. Shape'
  BY ControllerShape, ShapeUnfolded DEF IInv, Labels, MidUpdate
<1>2. Unmoved
  BY ControllerMoves
<1>3. Threads'
  BY <1>2 DEF IInv, Threads, Unmoved, ShowingNone, ShowingLost
<1>4. Views'
  BY <1>2 DEF IInv, Views, Has, Unmoved
<1>5. Turns'
  BY <1>2 DEF IInv, Turns, Has, Unmoved
<1> QED
  BY <1>1, <1>2, <1>3, <1>4, <1>5 DEF IInv, Unmoved

(* Updates of the GUI: no callback runs, so nothing is left to do.           *)
ShownAt(label, next, onTop, withButton, withMenu) ==
    \/ <<label, next>> \in {<<"greet", "greet_clear">>, <<"shown", "shown_clear">>,
                            <<"no_server", "no_server_menu">>, <<"show_lost", "lost_menu">>}
       /\ onTop = "start" /\ withButton = button /\ withMenu = menu
    \/ <<label, next>> \in {<<"no_server_menu", "no_server_clear">>, <<"lost_menu", "lost_clear">>}
       /\ onTop = page /\ withButton = button /\ withMenu = FALSE
    \/ <<label, next>> \in {<<"greet_clear", "start_first">>,
                            <<"shown_clear", "clear_RECONNECT">>,
                            <<"no_server_clear", "no_server_button">>,
                            <<"lost_clear", "lost_button">>}
       /\ onTop = page /\ withButton = FALSE /\ withMenu = menu
    \/ <<label, next>> \in {<<"no_server_button", "top">>,
                            <<"lost_button", "clear_DISCONNECTED">>}
       /\ onTop = page /\ withButton = TRUE /\ withMenu = menu
    \/ <<label, next>> \in {<<"login_page", "auto">>, <<"rejected", "rejected_label">>}
       /\ onTop = "login" /\ withButton = button /\ withMenu = menu
    \/ <<label, next>> = <<"rejected_label", "answered">>
       /\ onTop = page /\ withButton = button /\ withMenu = menu
    \/ <<label, next>> = <<"welcome", "welcome_page">>
       /\ onTop = page /\ withButton = button /\ withMenu = TRUE
    \/ <<label, next>> = <<"welcome_page", "answered">>
       /\ onTop = "admin" /\ withButton = button /\ withMenu = menu

LEMMA ShowKeepsIInv ==
    ASSUME IInv, NEW label, NEW next, NEW onTop,
           NEW withButton \in BOOLEAN, NEW withMenu \in BOOLEAN,
           Show(label, next, onTop, withButton, withMenu),
           ShownAt(label, next, onTop, withButton, withMenu)
    PROVE  IInv'
<1>1. CASE ~open
  <2>1. /\ pc # "wait" /\ pc' = "dead" /\ back' = back /\ request' = request /\ data' = data
        /\ UNCHANGED <<gui, shared, flags, sock, bufs, wires>>
    BY <1>1 DEF Show, At, Goto, Keep, ShownAt
  <2> QED
    BY <2>1, DyingKeepsIInv
<1>2. CASE open
  <2>1. /\ pc = label /\ pc' = next /\ back' = back /\ request' = request /\ data' = data
        /\ page' = onTop /\ button' = withButton /\ menu' = withMenu
        /\ overtaken' = (overtaken /\ label \in MidUpdate)
        /\ UNCHANGED <<open, popups, todo, clicks, shared, flags, sock, bufs, wires>>
        /\ todo = <<>>
    BY <1>2 DEF Show, At, Goto, Keep, Idle
  <2>2. ShownAt(pc, pc', page', button', menu')
    BY <2>1
  <2>3. /\ overtaken' \in BOOLEAN
        /\ pc \notin {"login_page", "rejected", "welcome", "greet", "shown", "no_server",
                     "show_lost"} => (overtaken' <=> overtaken)
    BY <2>1, <2>2, ShapeUnfolded DEF IInv, MidUpdate, ShownAt
  <2>4. ~WillAsk /\ ~WillForget /\ ~WillShowLogin /\ LogOutInOrder
    BY <2>1, NothingToDo
  <2>5. ~WillAsk' /\ ~WillForget' /\ LogOutInOrder'
    BY <2>1, <2>4, SameTodo
  <2>6. /\ systemMessages' = systemMessages /\ systemVariables' = systemVariables
        /\ connected' = connected /\ thread' = thread /\ internetClient' = internetClient
    BY <2>1 DEF shared, flags, sock
  <2>7. /\ (MayAsk <=> button) /\ (MayAsk' <=> button')
        /\ (LoggedOut <=> ~menu) /\ (LoggedOut' <=> ~menu') /\ (Told' <=> Told)
    BY <2>4, <2>5, <2>6 DEF MayAsk, LoggedOut, Told
  <2>8. /\ (MayReconnect <=> button \/ "RECONNECT" \in systemMessages)
        /\ (MayReconnect' <=> button' \/ "RECONNECT" \in systemMessages)
    BY <2>6, <2>7 DEF MayReconnect
  <2>9. /\ (Answered' <=> Answered) /\ (Greeting' <=> Greeting) /\ (Mailboxes' <=> Mailboxes)
        /\ (OldThreadsAreDone' <=> OldThreadsAreDone) /\ (NotYetUsed' <=> NotYetUsed)
    BY <2>1, <2>6, SameMail, SameThreads DEF wires
  <2>10. Shape'
    <3>1. pc' \in Labels /\ page' \in {"start", "login", "admin"}
          /\ button' \in BOOLEAN /\ menu' \in BOOLEAN
      BY <2>2, ShapeUnfolded DEF IInv, Labels, MidUpdate, ShownAt
    <3> QED
      BY <2>1, <2>3, <3>1 DEF IInv, Shape, TypeOK, shared, flags, sock, bufs, wires
  <2>11. Threads'
    BY <2>2, <2>6, <2>7, <2>8, <2>9
       DEF IInv, Threads, Views, Told, ShownAt, ShowingNone, ShowingLost
  <2>12. Views'
    <3>1. Has("authenticated")' <=> Has("authenticated")
      BY <2>6 DEF Has
    <3>2. menu' => Has("authenticated")'
      BY <2>2, <3>1 DEF IInv, Views, Turns, ShownAt
    <3>3. /\ page' = "admin" => Has("authenticated")' \/ overtaken'
          /\ pc' = "welcome_page" => Has("authenticated")'
      <4>1. /\ page = "admin" => Has("authenticated") \/ overtaken
            /\ pc = "welcome" => Has("authenticated")
            /\ pc = "welcome_page" => Has("authenticated") \/ overtaken
        BY <2>4 DEF IInv, Views, Turns
      <4> HIDE DEF IInv
      <4>2. CASE pc = "welcome"
        BY <2>2, <3>1, <4>1, <4>2 DEF ShownAt
      <4>3. CASE pc # "welcome" /\ page' = page
        BY <2>2, <2>3, <3>1, <4>1, <4>3 DEF ShownAt
      <4>4. CASE pc # "welcome" /\ page' # page
        BY <2>2, <2>3, <3>1, <4>1, <4>4 DEF ShownAt
      <4> QED
        BY <4>2, <4>3, <4>4
    <3>4. pc' \notin {"start", "shown", "shown_clear", "clear_RECONNECT", "dead", "done"} =>
             (MayReconnect' => ~connected /\ LoggedOut')
      BY <2>2, <2>7, <2>8 DEF IInv, Threads, Views, ShownAt, ShowingNone, ShowingLost
    <3>5. /\ pc' \in {"no_server_clear", "no_server_button", "lost_clear", "lost_button"} =>
               LoggedOut'
          /\ pc' = "clear_RECONNECT" => ~MayAsk'
          /\ pc' \in {"accepted", "welcome", "welcome_page"} => ~MayReconnect'
      BY <2>2, <2>7, <2>8 DEF IInv, Views, ShownAt
    <3> QED
      BY <2>5, <2>6, <3>2, <3>3, <3>4, <3>5 DEF Views
  <2>13. Turns'
    BY <2>2, <2>6, <2>7, <2>9 DEF IInv, Turns, Has, ShownAt
  <2> QED
    BY <2>9, <2>10, <2>11, <2>12, <2>13 DEF IInv
<1> QED
  BY <1>1, <1>2

-----------------------------------------------------------------------------
(* Steps that change more.                                                   *)

LEMMA GreetedMail ==
    ASSUME Shape, Mailboxes, NEW c \in Conn, receive_buffer[c] = <<>>,
           UNCHANGED <<bufs, outbox>>, inbox' = [inbox EXCEPT ![c] = <<"LOGIN_REQUEST">>]
    PROVE  /\ inbox' \in [Conn -> Seq(Answers)] /\ Mailboxes'
           /\ AnsweredOn(c) => AnsweredOn(c)'
<1>1. <<"LOGIN_REQUEST">> \in Seq(Answers) /\ AnswersIn(<<"LOGIN_REQUEST">>) = {}
      /\ Len(<<"LOGIN_REQUEST">>) = 1
  BY DEF Answers, AnswersIn
<1>2. /\ inbox \in [Conn -> Seq(Answers)]
      /\ UNCHANGED <<send_buffer, receive_buffer, outbox>>
  BY DEF Shape, TypeOK, bufs
<1>3. inbox' \in [Conn -> Seq(Answers)]
  BY <1>1, <1>2
<1>4. ASSUME NEW d \in Conn PROVE FewOf(d)' /\ GreetingFirst(d)'
  <2>1. FewOf(d) /\ GreetingFirst(d)
    BY DEF Mailboxes
  <2>2. CASE d = c
    <3>1. inbox'[d] = <<"LOGIN_REQUEST">>
      BY <1>2, <2>2
    <3>2. FewOf(d)'
      BY <1>1, <1>2, <2>1, <3>1 DEF FewOf, Few, AtMostOne
    <3>3. GreetingFirst(d)'
      BY <1>1, <1>2, <2>1, <2>2, <3>1 DEF GreetingFirst
    <3> QED
      BY <3>2, <3>3
  <2>3. CASE d # c
    <3>1. inbox'[d] = inbox[d]
      BY <1>2, <2>3
    <3> QED
      BY <1>2, <2>1, <3>1 DEF FewOf, GreetingFirst
  <2> QED
    BY <2>2, <2>3
<1>5. AnsweredOn(c) => AnsweredOn(c)'
  BY <1>1, <1>2 DEF AnsweredOn
<1> QED
  BY <1>3, <1>4, <1>5 DEF Mailboxes

LEMMA FirstConnectKeepsIInv ==
    ASSUME IInv, FirstConnect
    PROVE  IInv'
<1>1. /\ pc = "first" /\ internetClient = 1 /\ 1 \in Conn /\ receive_buffer[1] = <<>>
      /\ back' = back /\ request' = request /\ data' = data
      /\ UNCHANGED <<gui, shared, running, sock, bufs, outbox>>
      /\ \/ connected' = TRUE /\ pc' = "greet" /\ up' = [up EXCEPT ![1] = TRUE]
              /\ inbox' = [inbox EXCEPT ![1] = <<"LOGIN_REQUEST">>]
         \/ connected' = FALSE /\ pc' = "no_server" /\ UNCHANGED <<up, inbox>>
  BY ShapeUnfolded DEF IInv, FirstConnect, Connects, At, Goto, Keep, Threads, ShowingNone,
                       ShowingLost
<1>2. UNCHANGED <<todo, button, menu, page, overtaken, systemMessages, systemVariables,
                  internetClient, thread, send_buffer, receive_buffer, outbox>>
  BY <1>1 DEF gui, shared, sock, bufs
<1>3. /\ (MayReconnect' <=> MayReconnect) /\ (LoggedOut' <=> LoggedOut) /\ (Told' <=> Told)
      /\ (WillForget' <=> WillForget) /\ (WillShowLogin' <=> WillShowLogin)
      /\ (LogOutInOrder' <=> LogOutInOrder)
  BY <1>2, SameTodo DEF MayAsk, MayReconnect, LoggedOut, Told
<1>4. inbox' \in [Conn -> Seq(Answers)] /\ Mailboxes' /\ (Answered => Answered')
  <2>1. CASE UNCHANGED inbox
    BY <1>1, <1>2, <2>1, SameMail DEF IInv, Shape, TypeOK
  <2>2. CASE inbox' = [inbox EXCEPT ![1] = <<"LOGIN_REQUEST">>]
    <3>1. /\ inbox' \in [Conn -> Seq(Answers)] /\ Mailboxes'
          /\ AnsweredOn(1) => AnsweredOn(1)'
      BY <1>1, <2>2, GreetedMail DEF IInv
    <3> QED
      BY <1>1, <1>2, <3>1 DEF Answered, AnsweredOn
  <2> QED
    BY <1>1, <2>1, <2>2
<1>5. up' \in [Conn -> BOOLEAN] /\ connected' \in BOOLEAN /\ pc' \in Labels
  BY <1>1, ShapeUnfolded DEF IInv, Labels, MidUpdate
<1>6. Shape'
  BY <1>1, <1>4, <1>5 DEF IInv, Shape, TypeOK, gui, shared, sock, bufs
<1>7. OldThreadsAreDone' /\ NotYetUsed'
  <2>1. ASSUME NEW c \in Conn, c > internetClient PROVE up'[c] = up[c] /\ inbox'[c] = inbox[c]
    <3>1. c # 1
      <4>1. internetClient = 1
        BY <1>1
      <4> QED
        BY <2>1, <4>1
    <3>2. up \in [Conn -> BOOLEAN] /\ inbox \in [Conn -> Seq(Answers)]
      BY ShapeUnfolded DEF IInv
    <3> QED
      BY <1>1, <3>1, <3>2
  <2> QED
    BY <1>2, <2>1 DEF IInv, Threads, OldThreadsAreDone, NotYetUsed, ShowingNone, ShowingLost
<1>8. Threads'
  BY <1>1, <1>2, <1>3, <1>7 DEF IInv, Threads, ShowingNone, ShowingLost
<1>9. Views'
  BY <1>1, <1>2, <1>3 DEF IInv, Threads, Views, Has, ShowingNone, ShowingLost
<1>10. Turns'
  BY <1>1, <1>2, <1>3, <1>4 DEF IInv, Turns, Has
<1> QED
  BY <1>4, <1>6, <1>8, <1>9, <1>10 DEF IInv

LEMMA ReconnectKeepsIInv ==
    ASSUME IInv, Reconnect
    PROVE  IInv'
<1>0. PICK new \in Conn : new = internetClient + 1 /\ new > internetClient
  <2>1. internetClient \in Conn /\ internetClient < MaxConnections
    BY ShapeUnfolded DEF IInv, Reconnect
  <2> QED
    BY <2>1, BoundsAssumption DEF Conn
<1>1. /\ pc = "create" /\ internetClient' = new /\ internetClient < MaxConnections
      /\ back' = back /\ request' = request /\ data' = data
      /\ UNCHANGED <<gui, shared, running, thread, work_end_flag, sent_keepalive, bufs, outbox>>
      /\ \/ connected' = TRUE /\ pc' = "start" /\ up' = [up EXCEPT ![new] = TRUE]
              /\ inbox' = [inbox EXCEPT ![new] = <<"LOGIN_REQUEST">>]
         \/ connected' = FALSE /\ pc' = "clear_RECONNECT" /\ UNCHANGED <<up, inbox>>
  BY <1>0 DEF Reconnect, Connects, At, Goto, Keep
<1>2. UNCHANGED <<todo, button, menu, page, overtaken, systemMessages, systemVariables,
                  thread, send_buffer, receive_buffer, outbox>>
  BY <1>1 DEF gui, shared, bufs
<1>3. internetClient \in Conn
  BY ShapeUnfolded DEF IInv
<1>4. /\ thread[new] = "none"
      /\ send_buffer[new] = <<>> /\ outbox[new] = <<>>
      /\ inbox[new] = <<>> /\ receive_buffer[new] = <<>>
  BY <1>0 DEF IInv, Threads, NotYetUsed, ShowingNone, ShowingLost
<1>5. "RECONNECT" \in systemMessages /\ MayReconnect /\ Told /\ LoggedOut
  BY <1>1 DEF IInv, Threads, Views, MayReconnect, ShowingNone, ShowingLost
<1>6. /\ (MayAsk' <=> MayAsk) /\ MayReconnect' /\ LoggedOut'
      /\ (WillForget' <=> WillForget) /\ (WillShowLogin' <=> WillShowLogin)
      /\ (LogOutInOrder' <=> LogOutInOrder)
  BY <1>2, <1>5, SameTodo DEF MayAsk, MayReconnect, LoggedOut
<1>7. Told'
  BY <1>1, <1>2, <1>4, <1>5 DEF Told
<1>8. AnsweredOn(new)
  BY <1>4, NothingIn DEF AnsweredOn
<1>9. inbox' \in [Conn -> Seq(Answers)] /\ Mailboxes' /\ AnsweredOn(new)'
  <2>1. CASE UNCHANGED inbox
    <3>1. Mailboxes'
      BY <1>1, <2>1, SameMail DEF IInv
    <3> QED
      BY <1>2, <1>8, <2>1, <3>1 DEF IInv, Shape, TypeOK, AnsweredOn
  <2>2. CASE inbox' = [inbox EXCEPT ![new] = <<"LOGIN_REQUEST">>]
    BY <1>1, <1>3, <1>4, <1>8, <2>2, GreetedMail DEF IInv
  <2> QED
    BY <1>1, <2>1, <2>2
<1>10. Answered'
  BY <1>1, <1>9 DEF Answered, AnsweredOn
<1>11. up' \in [Conn -> BOOLEAN] /\ connected' \in BOOLEAN /\ pc' \in Labels
  BY <1>1, ShapeUnfolded DEF IInv, Labels, MidUpdate
<1>12. Shape'
  BY <1>1, <1>3, <1>9, <1>11 DEF IInv, Shape, TypeOK, gui, shared, bufs
<1>13. OldThreadsAreDone'
  <2>1. \A c \in Conn : c < new => c < internetClient \/ c = internetClient
    BY <1>0, <1>3 DEF Conn
  <2> QED
    BY <1>1, <1>2, <1>5, <2>1 DEF IInv, Threads, OldThreadsAreDone, Told, ShowingNone, ShowingLost
<1>14. NotYetUsed'
  <2>1. ASSUME NEW c \in Conn, c > new
        PROVE  c > internetClient /\ up'[c] = up[c] /\ inbox'[c] = inbox[c]
    <3>1. c # new /\ c > internetClient
      BY <1>0, <1>3, <2>1, BoundsAssumption DEF Conn
    <3>2. up \in [Conn -> BOOLEAN] /\ inbox \in [Conn -> Seq(Answers)]
      BY ShapeUnfolded DEF IInv
    <3> QED
      BY <1>1, <3>1, <3>2
  <2> QED
    BY <1>1, <1>2, <2>1 DEF IInv, Threads, NotYetUsed, ShowingNone, ShowingLost
<1>15. Threads'
  BY <1>1, <1>2, <1>5, <1>6, <1>7, <1>13, <1>14 DEF Threads, Told, ShowingNone, ShowingLost
<1>16. Views'
  BY <1>1, <1>2, <1>6 DEF IInv, Views, Has
<1>17. Turns'
  BY <1>1, <1>6, <1>10 DEF Turns
<1> QED
  BY <1>9, <1>12, <1>15, <1>16, <1>17 DEF IInv

LEMMA StartThreadKeepsIInv ==
    ASSUME IInv, NEW label, NEW next, StartThread(label, next),
           \/ label = "start_first" /\ next = "top"
           \/ label = "start" /\ next = "shown"
    PROVE  IInv'
<1>1. /\ pc = label /\ pc' = next /\ back' = back /\ request' = request /\ data' = data
      /\ thread' = [thread EXCEPT ![internetClient] = "loop"]
      /\ UNCHANGED <<gui, shared, flags, internetClient, work_end_flag, sent_keepalive,
                     bufs, wires>>
  BY DEF StartThread, At, Goto, Keep
<1>2. \/ pc = "start_first" /\ pc' = "top"
      \/ pc = "start" /\ pc' = "shown"
  BY <1>1
<1>3. UNCHANGED <<todo, button, menu, page, overtaken, systemMessages, systemVariables, connected,
                  internetClient, up, bufs, inbox, outbox>>
  BY <1>1 DEF gui, shared, flags, wires
<1>4. /\ (MayReconnect' <=> MayReconnect) /\ (LoggedOut' <=> LoggedOut)
      /\ (Answered' <=> Answered) /\ (Greeting' <=> Greeting) /\ (Mailboxes' <=> Mailboxes)
      /\ (WillForget' <=> WillForget) /\ (WillShowLogin' <=> WillShowLogin)
      /\ (LogOutInOrder' <=> LogOutInOrder)
  BY <1>3, SameTodo, SameMail DEF MayAsk, MayReconnect, LoggedOut
<1>5. /\ "DISCONNECTED" \notin systemMessages
      /\ pc = "start_first" => ~MayReconnect
  BY <1>2 DEF IInv, Threads, Told, MayReconnect, ShowingNone, ShowingLost
<1>6. Shape'
  <2>1. pc' \in Labels /\ thread' \in [Conn -> {"none", "loop", "lost", "signal", "done"}]
    BY <1>1, <1>2, ShapeUnfolded DEF IInv, Labels, MidUpdate
  <2> QED
    BY <1>1, <2>1 DEF IInv, Shape, TypeOK, gui, shared, flags, bufs, wires
<1>7. OldThreadsAreDone' /\ NotYetUsed'
  <2>1. ASSUME NEW c \in Conn, c < internetClient \/ c > internetClient PROVE thread'[c] = thread[c]
    <3>1. c # internetClient
      <4>1. internetClient \in Conn
        BY ShapeUnfolded DEF IInv
      <4> QED
        BY <2>1, <4>1, OtherConnection
    <3>2. thread \in [Conn -> {"none", "loop", "lost", "signal", "done"}]
      BY ShapeUnfolded DEF IInv
    <3> QED
      BY <1>1, <3>1, <3>2
  <2> QED
    BY <1>3, <2>1 DEF IInv, Threads, OldThreadsAreDone, NotYetUsed, bufs, ShowingNone, ShowingLost
<1>8. Threads'
  BY <1>2, <1>3, <1>4, <1>5, <1>7 DEF Threads, ShowingNone, ShowingLost
<1>9. Views'
  BY <1>2, <1>3, <1>4, <1>5 DEF IInv, Views, Has
<1>10. Turns'
  BY <1>2, <1>3, <1>4 DEF IInv, Turns, Has
<1> QED
  BY <1>4, <1>6, <1>8, <1>9, <1>10 DEF IInv

(* A message is taken off: what it has asked for is done.                    *)
LEMMA RemoveKeepsIInv ==
    ASSUME IInv, NEW label, NEW m, NEW next, Remove(label, m, next),
           \/ label = "clear_RECONNECT" /\ m = "RECONNECT" /\ next = "lost"
           \/ label = "clear_DISCONNECTED" /\ m = "DISCONNECTED" /\ next = "read"
           \/ label = "clear_LOGIN" /\ m = "LOGIN" /\ next = "request"
    PROVE  IInv'
<1>1. /\ pc = label /\ pc' = next /\ back' = back /\ request' = request /\ data' = data
      /\ systemMessages' = systemMessages \ {m}
      /\ UNCHANGED <<gui, systemVariables, flags, sock, bufs, wires>>
  BY DEF Remove, At, Goto, Keep, Without
<1>2. \/ pc = "clear_RECONNECT" /\ pc' = "lost" /\ systemMessages' = systemMessages \ {"RECONNECT"}
      \/ pc = "clear_DISCONNECTED" /\ pc' = "read"
           /\ systemMessages' = systemMessages \ {"DISCONNECTED"}
      \/ pc = "clear_LOGIN" /\ pc' = "request" /\ systemMessages' = systemMessages \ {"LOGIN"}
  BY <1>1
<1>3. UNCHANGED <<todo, button, menu, page, overtaken, systemVariables, connected,
                  internetClient, thread, bufs, inbox, outbox>>
  BY <1>1 DEF gui, flags, sock, wires
<1>4. /\ (MayAsk' <=> MayAsk) /\ (LoggedOut' <=> LoggedOut)
      /\ (Answered' <=> Answered) /\ (Greeting' <=> Greeting) /\ (Mailboxes' <=> Mailboxes)
      /\ (WillForget' <=> WillForget) /\ (WillShowLogin' <=> WillShowLogin)
      /\ (LogOutInOrder' <=> LogOutInOrder)
      /\ (OldThreadsAreDone' <=> OldThreadsAreDone) /\ (NotYetUsed' <=> NotYetUsed)
  BY <1>1, <1>3, SameTodo, SameMail, SameThreads DEF MayAsk, LoggedOut
<1>5. Shape'
  <2>1. pc' \in Labels /\ systemMessages' \subseteq Messages
    BY <1>2, ShapeUnfolded DEF IInv, Labels, MidUpdate
  <2> QED
    BY <1>1, <2>1 DEF IInv, Shape, TypeOK, gui, flags, sock, bufs, wires
<1>6. Threads'
  BY <1>2, <1>3, <1>4 DEF IInv, Threads, MayReconnect, Told, ShowingNone, ShowingLost
<1>7. Views'
  BY <1>2, <1>3, <1>4 DEF IInv, Threads, Views, MayReconnect, Has, ShowingNone, ShowingLost
<1>8. Turns'
  BY <1>2, <1>3, <1>4 DEF IInv, Turns, Has
<1> QED
  BY <1>4, <1>5, <1>6, <1>7, <1>8 DEF IInv

(* An answer read is no longer waited for, and nothing is behind it.         *)
LEMMA ReadMail ==
    ASSUME Shape, Mailboxes, NEW c \in Conn, receive_buffer[c] # <<>>,
           UNCHANGED <<send_buffer, inbox, outbox>>,
           receive_buffer' = [receive_buffer EXCEPT ![c] = Tail(@)]
    PROVE  /\ receive_buffer' \in [Conn -> Seq(Answers)] /\ Mailboxes'
           /\ Head(receive_buffer[c]) \in Answers
           /\ AnsweredOn(c) => AnsweredOn(c)'
           /\ ~GreetingOn(c)'
           /\ IF Head(receive_buffer[c]) = "LOGIN_REQUEST" THEN GreetingOn(c)
              ELSE ~AnsweredOn(c) /\ AnsweredOn(c)'
<1> DEFINE s == receive_buffer[c]
<1>1. /\ s \in Seq(Answers) /\ s # <<>> /\ receive_buffer \in [Conn -> Seq(Answers)]
      /\ receive_buffer'[c] = Tail(s)
      /\ \A d \in Conn : d # c => receive_buffer'[d] = receive_buffer[d]
  BY ShapeUnfolded
<1>2. FewOf(c) /\ GreetingFirst(c)
  BY DEF Mailboxes
<1> HIDE DEF s
<1>3. /\ Tail(s) \in Seq(Answers) /\ Head(s) \in Answers
      /\ AnswersIn(s) = {} => AnswersIn(Tail(s)) = {} /\ Head(s) = "LOGIN_REQUEST"
      /\ AtMostOne(AnswersIn(s)) => /\ AtMostOne(AnswersIn(Tail(s)))
                                    /\ Head(s) # "LOGIN_REQUEST" => AnswersIn(Tail(s)) = {}
  BY <1>1, FirstAnswerTaken
<1>4. Head(s) = "LOGIN_REQUEST" => Greets(s)
  BY <1>1, GreetingMoves
<1>5. ~Greets(Tail(s)) /\ ~Greets(inbox[c])
  <2>1. \A i \in 1..Len(s) : s[i] = "LOGIN_REQUEST" => i = 1
    BY <1>2 DEF GreetingFirst, s
  <2>2. ~Greets(inbox[c])
    BY <1>1, <1>2 DEF GreetingFirst, Greets, s
  <2>3. ~Greets(Tail(s))
    <3> HIDE DEF s
    <3> QED
      BY <1>1, <2>1, GreetingMoves
  <2> QED
    BY <2>2, <2>3
<1>6. IF Head(s) = "LOGIN_REQUEST" THEN Greets(s)
      ELSE AnswersIn(s) # {} /\ AnswersIn(Tail(s)) = {}
  BY <1>2, <1>3, <1>4 DEF FewOf, Few, s
<1>7. FewOf(c)' /\ GreetingFirst(c)'
  <2>1. FewOf(c)'
    BY <1>1, <1>2, <1>3 DEF FewOf, Few, s
  <2>2. \A i \in 1..Len(inbox[c]) : inbox[c][i] # "LOGIN_REQUEST"
    BY <1>5 DEF Greets
  <2>3. \A i \in 1..Len(Tail(s)) : Tail(s)[i] # "LOGIN_REQUEST"
    BY <1>5 DEF Greets
  <2> QED
    BY <1>1, <2>1, <2>2, <2>3 DEF GreetingFirst
<1>8. Mailboxes'
  <2>1. ASSUME NEW d \in Conn, d # c PROVE FewOf(d)' /\ GreetingFirst(d)'
    BY <1>1, <2>1 DEF Mailboxes, FewOf, GreetingFirst
  <2> QED
    BY <1>7, <2>1 DEF Mailboxes
<1>9. receive_buffer' \in [Conn -> Seq(Answers)]
  BY <1>1, <1>3
<1>10. AnsweredOn(c) => AnsweredOn(c)'
  BY <1>1, <1>3 DEF AnsweredOn, s
<1>11. ~GreetingOn(c)'
  BY <1>1, <1>5 DEF GreetingOn
<1>12. Head(receive_buffer[c]) = "LOGIN_REQUEST" => GreetingOn(c)
  BY <1>6 DEF GreetingOn, s
<1>13. Head(receive_buffer[c]) # "LOGIN_REQUEST" => ~AnsweredOn(c) /\ AnsweredOn(c)'
  <2> SUFFICES ASSUME Head(s) # "LOGIN_REQUEST" PROVE ~AnsweredOn(c) /\ AnsweredOn(c)'
    BY DEF s
  <2>1. AnswersIn(s) # {} /\ AnswersIn(Tail(s)) = {}
    BY <1>6
  <2> QED
    BY <1>1, <1>2, <2>1 DEF AnsweredOn, FewOf, Few, s
<1> QED
  BY <1>3, <1>8, <1>9, <1>10, <1>11, <1>12, <1>13 DEF s

LEMMA ReadKeepsIInv ==
    ASSUME IInv, Read
    PROVE  IInv'
<1>1. /\ pc = "read" /\ back' = back /\ request' = request /\ data' = data
      /\ UNCHANGED <<gui, shared, flags, sock, send_buffer, wires>>
  BY DEF Read, At, Keep
<1>2. UNCHANGED <<todo, button, menu, page, overtaken, systemMessages, systemVariables, connected,
                  internetClient, thread, up, send_buffer, inbox, outbox>>
  BY <1>1 DEF gui, shared, flags, sock, wires
<1>3. internetClient \in Conn /\ connected \in BOOLEAN
  BY ShapeUnfolded DEF IInv
<1>4. /\ (MayAsk' <=> MayAsk) /\ (MayReconnect' <=> MayReconnect)
      /\ (LoggedOut' <=> LoggedOut) /\ (Told' <=> Told)
      /\ (WillForget' <=> WillForget) /\ (WillShowLogin' <=> WillShowLogin)
      /\ (LogOutInOrder' <=> LogOutInOrder)
  BY <1>2, SameTodo DEF MayAsk, MayReconnect, LoggedOut, Told
<1>5. CASE ~(connected /\ receive_buffer[internetClient] # <<>>)
  <2>1. /\ UNCHANGED receive_buffer
        /\ pc' = "login" \/ (~connected /\ pc' = "top")
    <3>1. IF connected /\ receive_buffer[internetClient] # <<>>
          THEN TRUE ELSE Goto(IF connected THEN "login" ELSE "top") /\ UNCHANGED receive_buffer
      BY DEF Read
    <3>2. Goto(IF connected THEN "login" ELSE "top") /\ UNCHANGED receive_buffer
      BY <1>5, <3>1
    <3> QED
      BY <3>2 DEF Goto
  <2>2. /\ (Answered' <=> Answered) /\ (Greeting' <=> Greeting) /\ (Mailboxes' <=> Mailboxes)
        /\ (OldThreadsAreDone' <=> OldThreadsAreDone) /\ (NotYetUsed' <=> NotYetUsed)
    BY <1>1, <1>2, <2>1, SameMail, SameThreads DEF bufs
  <2>3. Shape'
    <3>1. pc' \in Labels /\ back' \in {"login", "clear_LOGIN"} /\ request' \in Requests
          /\ data' \in Datas
      BY <1>1, <2>1, ShapeUnfolded DEF IInv, Labels, MidUpdate
    <3> QED
      BY <1>1, <2>1, <3>1, ControllerShape DEF IInv, bufs
  <2>4. Threads'
    BY <1>1, <1>2, <1>4, <2>1, <2>2 DEF IInv, Threads, ShowingNone, ShowingLost
  <2>5. Views'
    BY <1>1, <1>2, <1>4, <2>1 DEF IInv, Views, Has
  <2>6. Turns'
    BY <1>1, <1>2, <1>4, <2>1, <2>2 DEF IInv, Turns, Has
  <2> QED
    BY <2>2, <2>3, <2>4, <2>5, <2>6 DEF IInv
<1>6. CASE connected /\ receive_buffer[internetClient] # <<>>
  <2> DEFINE answer == Head(receive_buffer[internetClient])
  <2>1. /\ pc' = MessageLabel(answer)
        /\ receive_buffer' = [receive_buffer EXCEPT ![internetClient] = Tail(@)]
    BY <1>6 DEF Read, Goto
  <2>2. PICK c \in Conn : c = internetClient
    BY <1>3
  <2>3. /\ receive_buffer' \in [Conn -> Seq(Answers)] /\ Mailboxes'
        /\ answer \in Answers
        /\ AnsweredOn(c) => AnsweredOn(c)'
        /\ ~GreetingOn(c)'
        /\ IF answer = "LOGIN_REQUEST" THEN GreetingOn(c) ELSE ~AnsweredOn(c) /\ AnsweredOn(c)'
    BY <1>2, <1>6, <2>1, <2>2, ReadMail DEF IInv
  <2>4. /\ Answered => Answered'
        /\ ~Greeting'
        /\ IF answer = "LOGIN_REQUEST" THEN Greeting ELSE ~Answered /\ Answered'
    <3>1. /\ Answered <=> AnsweredOn(c)
          /\ Greeting <=> GreetingOn(c)
      BY <2>2 DEF Answered, Greeting
    <3>2. /\ Answered' <=> AnsweredOn(c)'
          /\ Greeting' <=> GreetingOn(c)'
      BY <1>2, <2>2 DEF Answered, Greeting, AnsweredOn, GreetingOn
    <3> QED
      BY <2>3, <3>1, <3>2
  <2>5. \/ answer = "LOGIN_REQUEST" /\ pc' = "login_page"
        \/ answer = "LOGIN_REJECTED" /\ pc' = "rejected"
        \/ answer = "CLIENT_ID" /\ pc' = "accepted"
    <3>1. CASE answer = "LOGIN_REQUEST"
      BY <2>1, <3>1 DEF MessageLabel
    <3>2. CASE answer = "LOGIN_REJECTED"
      BY <2>1, <3>2 DEF MessageLabel
    <3>3. CASE answer = "CLIENT_ID"
      BY <2>1, <3>3 DEF MessageLabel
    <3> QED
      BY <2>3, <3>1, <3>2, <3>3 DEF Answers
  <2> HIDE DEF answer
  <2>6. Shape'
    <3>1. pc' \in Labels
      BY <2>5 DEF Labels, MidUpdate
    <3> QED
      BY <1>1, <2>3, <3>1 DEF IInv, Shape, TypeOK, gui, shared, flags, sock, wires
  <2>7. NotYetUsed'
    <3>1. ASSUME NEW d \in Conn, d > internetClient PROVE receive_buffer'[d] = receive_buffer[d]
      <4>1. d # internetClient
        BY <1>3, <3>1, BoundsAssumption DEF Conn
      <4> QED
        BY <2>1, <4>1, ShapeUnfolded DEF IInv
    <3> QED
      BY <1>2, <3>1 DEF IInv, Threads, NotYetUsed, ShowingNone, ShowingLost
  <2>8. Threads'
    BY <1>1, <1>2, <1>4, <2>5, <2>7 DEF IInv, Threads, OldThreadsAreDone, ShowingNone, ShowingLost
  <2>9. Views'
    BY <1>1, <1>2, <1>4, <1>6, <2>5 DEF IInv, Views, Has
  <2>10. Turns'
    BY <1>1, <1>2, <1>4, <2>4, <2>5 DEF IInv, Turns, Has
  <2> QED
    BY <2>3, <2>6, <2>8, <2>9, <2>10 DEF IInv
<1> QED
  BY <1>5, <1>6

-----------------------------------------------------------------------------
(* Logging in.                                                               *)

LEMMA Written ==
    ASSUME Shape, NEW key \in Keys, NEW value \in Accounts \cup {None}, Write(key, value)
    PROVE  /\ systemVariables' \in [Keys -> Accounts \cup {None}]
           /\ \A k \in Keys : Has(k)' <=> IF k = key THEN value # None ELSE Has(k)
BY ShapeUnfolded DEF Write, Has

LEMMA YesIsThere == Yes \in Accounts /\ Yes # None
BY AccountsAssumption DEF Yes

LEMMA TheKeys == {"authenticated", "waiting", "login", "password"} \subseteq Keys
BY DEF Keys

(* What is put down while nothing else moves.                                *)
LEMMA SetVariableKeepsIInv ==
    ASSUME IInv, NEW key \in {"authenticated", "waiting"}, NEW value \in {Yes, None},
           UNCHANGED <<gui, systemMessages, flags, sock, bufs, wires>>,
           Write(key, value), request' = request, back' = back, data' \in Datas,
           \/ pc = "accepted" /\ pc' = "welcome" /\ key = "authenticated" /\ value = Yes
           \/ pc = "answered" /\ pc' = "login" /\ key = "waiting" /\ value = None
           \/ pc = "wait" /\ pc' = back /\ key = "waiting" /\ value = Yes
    PROVE  IInv'
<1>1. UNCHANGED <<todo, button, menu, page, overtaken, systemMessages, connected,
                  internetClient, thread, bufs, inbox, outbox>>
  BY DEF gui, flags, sock, wires
<1>2. back \in {"login", "clear_LOGIN"} /\ key \in Keys /\ value \in Accounts \cup {None}
  BY ShapeUnfolded, YesIsThere DEF IInv, Keys
<1>3. /\ systemVariables' \in [Keys -> Accounts \cup {None}]
      /\ \A k \in Keys : Has(k)' <=> IF k = key THEN value # None ELSE Has(k)
  BY <1>2, Written DEF IInv
<1>4. \/ /\ pc = "accepted" /\ pc' = "welcome" /\ Has("authenticated")'
         /\ (Has("waiting")' <=> Has("waiting"))
      \/ /\ pc = "answered" /\ pc' = "login" /\ (Has("authenticated")' <=> Has("authenticated"))
      \/ /\ pc = "wait" /\ pc' \in {"login", "clear_LOGIN"} /\ Has("waiting")'
         /\ (Has("authenticated")' <=> Has("authenticated"))
  BY <1>2, <1>3, YesIsThere, TheKeys
<1>5. /\ (MayAsk' <=> MayAsk) /\ (MayReconnect' <=> MayReconnect)
      /\ (LoggedOut' <=> LoggedOut) /\ (Told' <=> Told)
      /\ (Answered' <=> Answered) /\ (Greeting' <=> Greeting) /\ (Mailboxes' <=> Mailboxes)
      /\ (WillForget' <=> WillForget) /\ (WillShowLogin' <=> WillShowLogin)
      /\ (LogOutInOrder' <=> LogOutInOrder)
      /\ (OldThreadsAreDone' <=> OldThreadsAreDone) /\ (NotYetUsed' <=> NotYetUsed)
  BY <1>1, SameTodo, SameMail, SameThreads DEF MayAsk, MayReconnect, LoggedOut, Told
<1>6. Shape'
  <2>1. pc' \in Labels
    BY <1>4 DEF Labels, MidUpdate
  <2> QED
    BY <1>3, <2>1 DEF IInv, Shape, TypeOK, Datas, gui, flags, sock, bufs, wires
<1>7. Threads'
  BY <1>1, <1>4, <1>5 DEF IInv, Threads, ShowingNone, ShowingLost
<1>8. Views'
  BY <1>1, <1>4, <1>5 DEF IInv, Views
<1>9. Turns'
  BY <1>1, <1>4, <1>5 DEF IInv, Turns
<1> QED
  BY <1>5, <1>6, <1>7, <1>8, <1>9 DEF IInv

LEMMA LoginFromKeepsIInv ==
    ASSUME IInv, NEW label, NEW condition, NEW caller, NEW no,
           LoginFrom(label, condition, caller, no),
           \/ label = "auto_data" /\ caller = "login" /\ no = "login"
           \/ /\ label = "check_state" /\ caller = "clear_LOGIN" /\ no = "clear_LOGIN"
              /\ condition => MayLogIn
    PROVE  IInv'
<1>1. /\ UNCHANGED <<gui, shared, flags, sock, bufs, wires>>
      /\ request' = request /\ data' = data
      /\ \/ pc = "auto_data" /\ pc' = "get_login" /\ back' = "login"
         \/ pc = "auto_data" /\ pc' = "login" /\ back' = back
         \/ /\ pc = "check_state" /\ pc' = "get_login" /\ back' = "clear_LOGIN"
            /\ ~Has("waiting") /\ ~Has("authenticated")
         \/ pc = "check_state" /\ pc' = "clear_LOGIN" /\ back' = back
  BY DEF LoginFrom, At, Goto, MayLogIn
<1>2. Unmoved
  BY <1>1, ControllerMoves
<1>3. Shape'
  <2>1. pc' \in Labels /\ back' \in {"login", "clear_LOGIN"}
    BY <1>1, ShapeUnfolded DEF IInv, Labels, MidUpdate
  <2> QED
    BY <1>1, <2>1, ControllerShape, ShapeUnfolded DEF IInv
<1>4. Threads'
  BY <1>1, <1>2 DEF IInv, Threads, Unmoved, ShowingNone, ShowingLost
<1>5. Views'
  BY <1>1, <1>2 DEF IInv, Views, Has, Unmoved
<1>6. Turns'
  BY <1>1, <1>2 DEF IInv, Views, Turns, Has, LoggedOut, Unmoved
<1> QED
  BY <1>2, <1>3, <1>4, <1>5, <1>6 DEF IInv, Unmoved

LEMMA GetElementKeepsIInv ==
    ASSUME IInv, NEW label, NEW key \in Keys, NEW field, NEW next,
           GetElement(label, key, field, next),
           \/ label = "get_login" /\ next = "get_password"
           \/ label = "get_password" /\ next = "send_login",
           field \in {"login", "what"}
    PROVE  IInv'
<1>1. /\ UNCHANGED <<gui, shared, flags, sock, bufs, wires>>
      /\ back' = back /\ request' = request
      /\ \/ /\ pc = "get_login" /\ pc' = "get_password"
            /\ data' = [data EXCEPT ![field] = systemVariables[key]]
         \/ /\ pc = "get_password" /\ pc' = "send_login"
            /\ data' = [data EXCEPT ![field] = systemVariables[key]]
         \/ pc \in {"get_login", "get_password"} /\ pc' = "dead" /\ data' = data
  BY DEF GetElement, At, Goto
<1>2. data' \in Datas
  BY <1>1, ShapeUnfolded DEF IInv, Datas
<1>3. Unmoved
  BY <1>1, ControllerMoves
<1>4. Shape'
  <2>1. pc' \in Labels
    BY <1>1 DEF Labels, MidUpdate
  <2> QED
    BY <1>1, <1>2, <2>1, ControllerShape, ShapeUnfolded DEF IInv
<1>5. Threads'
  BY <1>1, <1>3 DEF IInv, Threads, Unmoved, ShowingNone, ShowingLost
<1>6. Views'
  BY <1>1, <1>3 DEF IInv, Views, Has, Unmoved
<1>7. Turns'
  BY <1>1, <1>3 DEF IInv, Turns, Has, Unmoved
<1> QED
  BY <1>3, <1>4, <1>5, <1>6, <1>7 DEF IInv, Unmoved

-----------------------------------------------------------------------------
(* Sending: a login only when none waits for its answer.                     *)

LEMMA SentMail ==
    ASSUME Shape, Mailboxes, NEW m \in Mail, Send(internetClient, m),
           m.kind = "LOGIN" => Answered,
           UNCHANGED <<internetClient, receive_buffer, inbox, outbox>>
    PROVE  /\ send_buffer' \in [Conn -> Seq(Mail)] /\ Mailboxes'
           /\ \A d \in Conn : d # internetClient => send_buffer'[d] = send_buffer[d]
           /\ m.kind # "LOGIN" => (Answered' <=> Answered)
           /\ Greeting' <=> Greeting
<1>1. PICK c \in Conn : c = internetClient
  BY ShapeUnfolded
<1>2. /\ send_buffer \in [Conn -> Seq(Mail)]
      /\ \/ send_buffer' = send_buffer
         \/ send_buffer' = [send_buffer EXCEPT ![c] = Append(@, m)]
  BY <1>1, ShapeUnfolded DEF Send
<1>3. Greeting' <=> Greeting
  BY DEF Greeting, GreetingOn
<1>4. CASE send_buffer' = send_buffer
  BY <1>2, <1>3, <1>4, SameMail DEF bufs
<1>5. CASE send_buffer' = [send_buffer EXCEPT ![c] = Append(@, m)]
  <2> DEFINE s == send_buffer[c]
  <2>1. /\ s \in Seq(Mail) /\ send_buffer'[c] = Append(s, m)
        /\ \A d \in Conn : d # c => send_buffer'[d] = send_buffer[d]
    BY <1>2, <1>5
  <2> HIDE DEF s
  <2>2. /\ Append(s, m) \in Seq(Mail)
        /\ Logins(Append(s, m)) = Logins(s) \cup (IF m.kind = "LOGIN" THEN {Len(s) + 1} ELSE {})
    BY <2>1, OneMoreMessage
  <2>3. send_buffer' \in [Conn -> Seq(Mail)]
    BY <1>2, <1>5, <2>1, <2>2 DEF s
  <2>4. FewOf(c) /\ GreetingFirst(c)
    BY DEF Mailboxes
  <2>5. FewOf(c)'
    <3>1. CASE m.kind # "LOGIN"
      <4>1. Logins(send_buffer'[c]) = Logins(send_buffer[c])
        BY <2>1, <2>2, <3>1 DEF s
      <4> QED
        BY <2>4, <4>1 DEF FewOf
    <3>2. CASE m.kind = "LOGIN"
      <4>1. /\ Logins(send_buffer'[c]) = {Len(s) + 1} /\ Logins(outbox[c]) = {}
            /\ AnswersIn(inbox[c]) = {} /\ AnswersIn(receive_buffer[c]) = {}
        BY <1>1, <2>1, <2>2, <3>2 DEF s, Answered, AnsweredOn
      <4> QED
        BY <4>1 DEF FewOf, Few, AtMostOne
    <3> QED
      BY <3>1, <3>2
  <2>6. Mailboxes'
    <3>1. ASSUME NEW d \in Conn PROVE FewOf(d)' /\ GreetingFirst(d)'
      <4>1. GreetingFirst(d)'
        BY DEF Mailboxes, GreetingFirst
      <4>2. CASE d # c
        BY <2>1, <4>1, <4>2 DEF Mailboxes, FewOf
      <4> QED
        BY <2>5, <4>1, <4>2
    <3> QED
      BY <3>1 DEF Mailboxes
  <2>7. m.kind # "LOGIN" => (Answered' <=> Answered)
    <3> SUFFICES ASSUME m.kind # "LOGIN" PROVE Answered' <=> Answered
      OBVIOUS
    <3>1. Logins(send_buffer'[c]) = Logins(send_buffer[c])
      BY <2>1, <2>2 DEF s
    <3> QED
      BY <1>1, <3>1 DEF Answered, AnsweredOn
  <2> QED
    BY <1>1, <1>3, <2>1, <2>3, <2>6, <2>7
<1> QED
  BY <1>2, <1>4, <1>5

LEMMA SentUnused ==
    ASSUME Shape, NotYetUsed,
           \A d \in Conn : d # internetClient => send_buffer'[d] = send_buffer[d],
           UNCHANGED <<internetClient, thread, up, receive_buffer, inbox, outbox>>
    PROVE  NotYetUsed'
<1>1. ASSUME NEW d \in Conn, d > internetClient PROVE send_buffer'[d] = send_buffer[d]
  BY <1>1, OtherConnection, ShapeUnfolded
<1> QED
  BY <1>1 DEF NotYetUsed

(* The controller sends a login or a request.                                *)
LEMMA ControllerSendsKeepsIInv ==
    ASSUME IInv, NEW m \in Mail, Send(internetClient, m),
           UNCHANGED <<gui, shared, flags, sock, receive_buffer, wires>>,
           back' = back, request' = request, data' \in Datas,
           \/ pc = "send_login" /\ pc' = "wait"
           \/ pc = "send" /\ pc' = "clear" /\ m.kind # "LOGIN"
    PROVE  IInv'
<1>1. UNCHANGED <<todo, button, menu, page, overtaken, systemMessages, systemVariables, connected,
                  internetClient, thread, up, receive_buffer, inbox, outbox>>
  BY DEF gui, shared, flags, sock, wires
<1>2. m.kind = "LOGIN" => Answered
  BY DEF IInv, Turns
<1>3. /\ send_buffer' \in [Conn -> Seq(Mail)] /\ Mailboxes'
      /\ \A d \in Conn : d # internetClient => send_buffer'[d] = send_buffer[d]
      /\ m.kind # "LOGIN" => (Answered' <=> Answered)
      /\ Greeting' <=> Greeting
  BY <1>1, <1>2, SentMail DEF IInv
<1>4. NotYetUsed'
  BY <1>1, <1>3, SentUnused DEF IInv, Threads, ShowingNone, ShowingLost
<1>5. /\ (MayAsk' <=> MayAsk) /\ (MayReconnect' <=> MayReconnect)
      /\ (LoggedOut' <=> LoggedOut) /\ (Told' <=> Told)
      /\ (WillForget' <=> WillForget) /\ (WillShowLogin' <=> WillShowLogin)
      /\ (LogOutInOrder' <=> LogOutInOrder)
  BY <1>1, SameTodo DEF MayAsk, MayReconnect, LoggedOut, Told
<1>6. Shape'
  <2>1. pc' \in Labels
    BY DEF Labels, MidUpdate
  <2> QED
    BY <1>3, <2>1 DEF IInv, Shape, TypeOK, Datas, gui, shared, flags, sock, wires
<1>7. Threads'
  BY <1>1, <1>4, <1>5 DEF IInv, Threads, OldThreadsAreDone, ShowingNone, ShowingLost
<1>8. Views'
  BY <1>1, <1>5 DEF IInv, Views, Has
<1>9. Turns'
  BY <1>1, <1>3, <1>5 DEF IInv, Turns, Has
<1> QED
  BY <1>3, <1>6, <1>7, <1>8, <1>9 DEF IInv

(* Looking for a request and passing it on.                                  *)
LEMMA AccountOperationsKeepIInv ==
    ASSUME IInv, AccountOperations
    PROVE  IInv'
<1>0. /\ request \in Requests /\ After(request) \in Requests /\ data \in Datas
      /\ pc \in Labels /\ back \in {"login", "clear_LOGIN"}
  BY ShapeUnfolded DEF IInv, Requests, After
<1>1. CASE LookFor
  <2>1. /\ UNCHANGED <<gui, shared, flags, sock, bufs, wires>>
        /\ back' = back /\ data' = data /\ pc = "request"
        /\ pc' \in {"pop", "top", "request"} /\ request' \in Requests
    BY <1>0, <1>1 DEF LookFor, GoOn, At, Goto
  <2>2. Unmoved
    BY <2>1, ControllerMoves
  <2>3. Shape'
    <3>1. pc' \in Labels
      BY <2>1 DEF Labels, MidUpdate
    <3> QED
      BY <1>0, <2>1, <3>1, ControllerShape DEF IInv
  <2>4. Threads'
    BY <2>1, <2>2 DEF IInv, Threads, Unmoved, ShowingNone, ShowingLost
  <2>5. Views'
    BY <2>1, <2>2 DEF IInv, Views, Has, Unmoved
  <2>6. Turns'
    BY <2>1, <2>2 DEF IInv, Turns, Has, Unmoved
  <2> QED
    BY <2>2, <2>3, <2>4, <2>5, <2>6 DEF IInv, Unmoved
<1>2. CASE PopData
  <2>1. /\ UNCHANGED <<gui, systemMessages, flags, sock, bufs, wires>>
        /\ back' = back /\ request' = request /\ pc = "pop" /\ pc' \in {"send", "dead"}
    BY <1>2 DEF PopData, At, Goto
  <2>2. /\ data' \in Datas /\ systemVariables' \in [Keys -> Accounts \cup {None}]
        /\ \A k \in {"authenticated", "waiting"} : systemVariables'[k] = systemVariables[k]
    <3>1. CASE request = "REFRESH"
      BY <1>0, <1>2, <3>1, ShapeUnfolded DEF IInv, PopData
    <3>2. CASE request # "REFRESH"
      <4>1. request \in Keys /\ request \notin {"authenticated", "waiting"}
        BY <1>0, <3>2 DEF Keys, Requests
      <4>2. /\ systemVariables' = [systemVariables EXCEPT ![request] = None]
            /\ data' = [data EXCEPT !.what = systemVariables[request]]
        BY <1>2, <3>2 DEF PopData, Pop, Write
      <4>3. systemVariables \in [Keys -> Accounts \cup {None}]
        BY ShapeUnfolded DEF IInv
      <4> QED
        BY <1>0, <4>1, <4>2, <4>3, TheKeys DEF Datas
    <3> QED
      BY <3>1, <3>2
  <2>3. UNCHANGED <<todo, button, menu, page, overtaken, systemMessages, connected,
                    internetClient, thread, bufs, inbox, outbox>>
    BY <2>1 DEF gui, flags, sock, wires
  <2>4. /\ (MayAsk' <=> MayAsk) /\ (MayReconnect' <=> MayReconnect)
        /\ (LoggedOut' <=> LoggedOut) /\ (Told' <=> Told)
        /\ (Answered' <=> Answered) /\ (Greeting' <=> Greeting) /\ (Mailboxes' <=> Mailboxes)
        /\ (WillForget' <=> WillForget) /\ (WillShowLogin' <=> WillShowLogin)
        /\ (LogOutInOrder' <=> LogOutInOrder)
        /\ (OldThreadsAreDone' <=> OldThreadsAreDone) /\ (NotYetUsed' <=> NotYetUsed)
    BY <2>1, <2>3, SameTodo, SameMail, SameThreads DEF MayAsk, MayReconnect, LoggedOut, Told
  <2>5. Shape'
    <3>1. pc' \in Labels
      BY <2>1 DEF Labels, MidUpdate
    <3> QED
      BY <2>1, <2>2, <3>1 DEF IInv, Shape, TypeOK, Datas, gui, flags, sock, bufs, wires
  <2>6. (Has("authenticated")' <=> Has("authenticated")) /\ (Has("waiting")' <=> Has("waiting"))
    BY <2>2 DEF Has
  <2>7. Threads'
    BY <2>1, <2>3, <2>4 DEF IInv, Threads, ShowingNone, ShowingLost
  <2>8. Views'
    BY <2>1, <2>3, <2>4, <2>6 DEF IInv, Views
  <2>9. Turns'
    BY <2>1, <2>4, <2>6 DEF IInv, Turns
  <2> QED
    BY <2>4, <2>5, <2>7, <2>8, <2>9 DEF IInv
<1>3. CASE SendRequest
  <2>1. /\ Nothing \in Datas /\ Message(request, data.what) \in Mail
        /\ Message(request, data.what).kind # "LOGIN"
    BY <1>0 DEF Nothing, Datas, Message, Mail, Messages, Requests
  <2> QED
    BY <1>3, <2>1, ControllerSendsKeepsIInv DEF SendRequest, At, Goto
<1>4. CASE ClearRequest
  <2>1. /\ UNCHANGED <<gui, systemVariables, flags, sock, bufs, wires>>
        /\ back' = back /\ data' = data /\ pc = "clear"
        /\ pc' \in {"top", "request"} /\ request' \in Requests
        /\ systemMessages' = systemMessages \ {request}
    BY <1>0, <1>4 DEF ClearRequest, GoOn, At, Goto, Without
  <2>2. UNCHANGED <<todo, button, menu, page, overtaken, systemVariables, connected,
                    internetClient, thread, bufs, inbox, outbox>>
    BY <2>1 DEF gui, flags, sock, wires
  <2>3. /\ "RECONNECT" \in systemMessages' <=> "RECONNECT" \in systemMessages
        /\ "DISCONNECTED" \in systemMessages' <=> "DISCONNECTED" \in systemMessages
    BY <1>0, <2>1 DEF Requests
  <2>4. /\ (MayAsk' <=> MayAsk) /\ (MayReconnect' <=> MayReconnect)
        /\ (LoggedOut' <=> LoggedOut) /\ (Told' <=> Told)
        /\ (Answered' <=> Answered) /\ (Greeting' <=> Greeting) /\ (Mailboxes' <=> Mailboxes)
        /\ (WillForget' <=> WillForget) /\ (WillShowLogin' <=> WillShowLogin)
        /\ (LogOutInOrder' <=> LogOutInOrder)
        /\ (OldThreadsAreDone' <=> OldThreadsAreDone) /\ (NotYetUsed' <=> NotYetUsed)
    BY <2>1, <2>2, <2>3, SameTodo, SameMail, SameThreads DEF MayAsk, MayReconnect, LoggedOut, Told
  <2>5. Shape'
    <3>1. pc' \in Labels /\ systemMessages' \subseteq Messages
      BY <2>1, ShapeUnfolded DEF IInv, Labels, MidUpdate
    <3> QED
      BY <2>1, <3>1 DEF IInv, Shape, TypeOK, gui, flags, sock, bufs, wires
  <2>6. Threads'
    BY <2>1, <2>2, <2>3, <2>4 DEF IInv, Threads, ShowingNone, ShowingLost
  <2>7. Views'
    BY <2>1, <2>2, <2>4 DEF IInv, Views, Has
  <2>8. Turns'
    BY <2>1, <2>2, <2>4 DEF IInv, Turns, Has
  <2> QED
    BY <2>4, <2>5, <2>6, <2>7, <2>8 DEF IInv
<1> QED
  BY <1>1, <1>2, <1>3, <1>4 DEF AccountOperations

LEMMA LoginKeepsIInv ==
    ASSUME IInv, Login
    PROVE  IInv'
<1>1. Nothing \in Datas /\ data \in Datas /\ back \in {"login", "clear_LOGIN"}
  BY ShapeUnfolded DEF IInv, Nothing, Datas
<1>2. CASE \/ Show("login_page", "auto", "login", button, menu)
           \/ update_on_failed_login("rejected", "rejected_label", "answered")
           \/ update_on_successful_login("welcome", "welcome_page", "answered")
  BY <1>2, ShowKeepsIInv, ShapeUnfolded
     DEF IInv, update_on_failed_login, update_on_successful_login, ShownAt
<1>3. CASE \/ Test("auto", Has("authenticated"), "auto_data", "login")
           \/ Test("login", "LOGIN" \in systemMessages, "check_login", "request")
           \/ Test("check_login", HasLogin, "check_state", "request")
  <2>1. {"auto_data", "login", "check_login", "request", "check_state"} \subseteq Labels
    BY DEF Labels, MidUpdate
  <2>2. /\ Has("authenticated") \in BOOLEAN /\ HasLogin \in BOOLEAN
        /\ ("LOGIN" \in systemMessages) \in BOOLEAN
    BY DEF Has, HasLogin
  <2>3. CASE Test("auto", Has("authenticated"), "auto_data", "login")
    BY <2>1, <2>2, <2>3, TestKeepsIInv
  <2>4. CASE Test("login", "LOGIN" \in systemMessages, "check_login", "request")
    BY <2>1, <2>2, <2>4, TestKeepsIInv
  <2>5. CASE Test("check_login", HasLogin, "check_state", "request")
    BY <2>1, <2>2, <2>5, TestKeepsIInv
  <2> QED
    BY <1>3, <2>3, <2>4, <2>5
<1>4. CASE \/ SetVariable("accepted", "authenticated", Yes, "welcome")
           \/ SetVariable("answered", "waiting", None, "login")
           \/ Return("wait")
  BY <1>1, <1>4, SetVariableKeepsIInv DEF SetVariable, Return, At, Goto, Keep
<1>5. CASE \/ LoginFrom("auto_data", HasLogin, "login", "login")
           \/ LoginFrom("check_state", MayLogIn, "clear_LOGIN", "clear_LOGIN")
  BY <1>5, LoginFromKeepsIInv
<1>6. CASE \/ GetElement("get_login", "login", "login", "get_password")
           \/ GetElement("get_password", "password", "what", "send_login")
  BY <1>6, TheKeys, GetElementKeepsIInv
<1>7. CASE SendLogin
  <2>1. Message("LOGIN", data) \in Mail
    BY <1>1 DEF Message, Mail, Messages
  <2> QED
    BY <1>1, <1>7, <2>1, ControllerSendsKeepsIInv DEF SendLogin, At, Goto, Keep
<1>8. CASE Remove("clear_LOGIN", "LOGIN", "request")
  BY <1>8, RemoveKeepsIInv
<1> QED
  BY <1>2, <1>3, <1>4, <1>5, <1>6, <1>7, <1>8 DEF Login

LEMMA ConnectionKeepsIInv ==
    ASSUME IInv, Connection
    PROVE  IInv'
<1>1. CASE FirstConnect \/ Reconnect
  BY <1>1, FirstConnectKeepsIInv, ReconnectKeepsIInv
<1>2. CASE \/ update_on_connection("greet", "greet_clear", "start_first")
           \/ update_on_connection("shown", "shown_clear", "clear_RECONNECT")
  BY <1>2, ShowKeepsIInv, ShapeUnfolded DEF IInv, update_on_connection, ShownAt
<1>6. CASE \/ update_on_no_server_connection("no_server", "no_server_menu", "no_server_clear",
                                             "no_server_button", "top")
           \/ update_on_no_server_connection("show_lost", "lost_menu", "lost_clear",
                                             "lost_button", "clear_DISCONNECTED")
  BY <1>6, ShowKeepsIInv, ShapeUnfolded DEF IInv, update_on_no_server_connection, ShownAt
<1>7. CASE SocketFails
  BY <1>7, DyingKeepsIInv DEF SocketFails, At, Goto, Keep
<1>3. CASE StartThread("start_first", "top") \/ StartThread("start", "shown")
  BY <1>3, StartThreadKeepsIInv
<1>4. CASE \/ Test("top", ~connected /\ "RECONNECT" \in systemMessages, "create", "lost")
           \/ Test("top", TRUE, "done", "done")
           \/ Test("lost", MustShowLoss, "show_lost", "read")
  <2>1. {"create", "lost", "done", "show_lost", "read"} \subseteq Labels
    BY DEF Labels, MidUpdate
  <2>2. /\ MustShowLoss \in BOOLEAN /\ (~connected /\ "RECONNECT" \in systemMessages) \in BOOLEAN
        /\ MustShowLoss => ~connected /\ "DISCONNECTED" \in systemMessages
    BY DEF MustShowLoss
  <2> QED
    BY <1>4, <2>1, <2>2, TestKeepsIInv
<1>5. CASE \/ Remove("clear_RECONNECT", "RECONNECT", "lost")
           \/ Remove("clear_DISCONNECTED", "DISCONNECTED", "read")
  BY <1>5, RemoveKeepsIInv
<1> QED
  BY <1>1, <1>2, <1>3, <1>4, <1>5, <1>6, <1>7 DEF Connection

-----------------------------------------------------------------------------
(* The GUI.                                                                  *)

(* What a step of the GUI may do to the invariant.                           *)
LEMMA GuiKeeps ==
    ASSUME IInv, Shape', Mailboxes', NotYetUsed', LogOutInOrder',
           UNCHANGED <<connected, pc, internetClient, thread, receive_buffer>>,
           Answered' <=> Answered, Greeting' <=> Greeting,
           MayAsk' => MayAsk, MayReconnect' => MayReconnect,
           "RECONNECT" \in systemMessages => "RECONNECT" \in systemMessages',
           "DISCONNECTED" \in systemMessages' <=> "DISCONNECTED" \in systemMessages,
           LoggedOut => LoggedOut' /\ (Has("authenticated")' <=> Has("authenticated")),
           Has("authenticated")' => Has("authenticated"), Has("waiting")' <=> Has("waiting"),
           menu' \/ WillForget' => Has("authenticated")', WillForget' => ~menu',
           page' = "admin" => Has("authenticated")' \/ WillShowLogin' \/ overtaken',
           pc = "welcome_page" => (Has("authenticated")' /\ ~WillForget') \/ overtaken'
    PROVE  IInv'
<1>1. Told' <=> Told
  BY DEF Told
<1>2. Threads'
  BY <1>1 DEF IInv, Threads, OldThreadsAreDone, ShowingNone, ShowingLost
<1>3. Views'
  BY DEF IInv, Views
<1>4. Turns'
  BY DEF IInv, Turns
<1> QED
  BY <1>2, <1>3, <1>4 DEF IInv

LEMMA CallbackKeepsIInv ==
    ASSUME IInv, Idle, UNCHANGED <<shared, flags, ctl, sock, bufs, wires>>,
           todo' \in Seq(Ops), open' \in BOOLEAN, page' \in {"start", "login", "admin"},
           button' \in BOOLEAN, menu' \in BOOLEAN, popups' \subseteq Requests,
           clicks' \in 0..MaxClicks, overtaken' \in BOOLEAN, overtaken => overtaken',
           button' => button, menu' => menu, page' = "admin" => page = "admin",
           WillAsk' => button, WillForget' => menu /\ ~menu', LogOutInOrder',
           WillForget' /\ pc \in MidUpdate => overtaken'
    PROVE  IInv'
<1>1. UNCHANGED <<systemMessages, systemVariables, connected, pc, internetClient, thread,
                  up, bufs, inbox, outbox, receive_buffer>>
  BY DEF shared, flags, ctl, sock, wires, bufs
<1>2. ~WillAsk /\ ~WillForget /\ ~WillShowLogin
  BY NothingToDo DEF Idle
<1>3. /\ (Answered' <=> Answered) /\ (Greeting' <=> Greeting) /\ Mailboxes' /\ NotYetUsed'
  BY <1>1, SameMail, SameThreads DEF IInv, Threads, ShowingNone, ShowingLost
<1>4. Shape'
  BY DEF IInv, Shape, TypeOK, shared, flags, ctl, sock, bufs, wires
<1>5. /\ MayAsk' => MayAsk
      /\ MayReconnect' => MayReconnect
      /\ LoggedOut => LoggedOut'
  BY <1>1, <1>2 DEF MayAsk, MayReconnect, LoggedOut
<1>6. /\ Has("authenticated")' <=> Has("authenticated")
      /\ Has("waiting")' <=> Has("waiting")
  BY <1>1 DEF Has
<1>7. /\ menu' \/ WillForget' => Has("authenticated")'
      /\ page' = "admin" => Has("authenticated")' \/ overtaken'
      /\ pc = "welcome_page" => (Has("authenticated")' /\ ~WillForget') \/ overtaken'
  BY <1>2, <1>6 DEF IInv, Views, MidUpdate
<1> QED
  BY <1>1, <1>3, <1>4, <1>5, <1>6, <1>7, GuiKeeps

LEMMA OpsOfCallbacks ==
    /\ \A k \in {"login", "password", "CREATE_ACCOUNT", "EDIT_ACCOUNT", "DELETE_ACCOUNT"} :
          \A a \in Accounts : PutVar(k, a) \in Ops /\ PutVar(k, a).op = "put"
    /\ \A k \in {"authenticated", "login", "password"} :
          PopVar(k) \in Ops /\ PopVar(k).op = "pop" /\ PopVar(k).key = k
    /\ \A m \in Messages \ {"DISCONNECTED"} :
          Signal(m) \in Ops /\ Signal(m).op = "signal" /\ Signal(m).message = m
    /\ \A o \in {"log_out", "login_page", "stop", "end_work"} : [op |-> o] \in Ops
<1>1. /\ {"login", "password", "CREATE_ACCOUNT", "EDIT_ACCOUNT", "DELETE_ACCOUNT"}
             \subseteq Keys \ {"authenticated", "waiting"}
      /\ {"authenticated", "login", "password"} \subseteq Keys \ {"waiting"}
  BY DEF Keys, Requests
<1> QED
  BY <1>1 DEF Ops, Puts, Pops, Signals, Others, PutVar, PopVar, Signal

LEMMA OneThing ==
    ASSUME NEW S, NEW x \in S
    PROVE  <<x>> \in Seq(S) /\ \A i \in 1..Len(<<x>>) : <<x>>[i] = x
OBVIOUS

LEMMA TwoThings ==
    ASSUME NEW S, NEW x \in S, NEW y \in S
    PROVE  /\ <<x, y>> \in Seq(S) /\ 1..Len(<<x, y>>) = {1, 2}
           /\ <<x, y>>[1] = x /\ <<x, y>>[2] = y
OBVIOUS

LEMMA ThreeThings ==
    ASSUME NEW S, NEW x \in S, NEW y \in S, NEW z \in S
    PROVE  <<x, y, z>> \in Seq(S) /\ \A i \in 1..Len(<<x, y, z>>) : <<x, y, z>>[i] \in {x, y, z}
OBVIOUS

LEMMA FiveThings ==
    ASSUME NEW S, NEW v \in S, NEW w \in S, NEW x \in S, NEW y \in S, NEW z \in S
    PROVE  /\ <<v, w, x, y, z>> \in Seq(S)
           /\ 1..Len(<<v, w, x, y, z>>) = {1, 2, 3, 4, 5}
           /\ <<v, w, x, y, z>>[1] = v /\ <<v, w, x, y, z>>[2] = w /\ <<v, w, x, y, z>>[3] = x
           /\ <<v, w, x, y, z>>[4] = y /\ <<v, w, x, y, z>>[5] = z
OBVIOUS

(* Callbacks that neither reconnect nor log out.                             *)
LEMMA Harmless ==
    ASSUME todo' \in Seq(Ops),
           \A i \in 1..Len(todo') : todo'[i].op = "signal" => todo'[i].message # "RECONNECT",
           \A i \in 1..Len(todo') : todo'[i].op # "pop"
    PROVE  ~WillAsk' /\ ~WillForget' /\ LogOutInOrder'
BY DEF WillAsk, WillForget, LogOutInOrder, AsksAt, ForgetsAt

LEMMA ClicksKeepIInv ==
    ASSUME IInv,
           \/ \E a, b \in Accounts : ClickLogin(a, b)
           \/ ClickReconnect \/ ClickRefresh \/ ClickLogOut \/ CloseWindow \/ MainloopReturns
           \/ \E r \in {"CREATE_ACCOUNT", "EDIT_ACCOUNT"} : OpenPopup(r) \/ ClosePopup(r)
           \/ \E a \in Accounts : ClickCreate(a) \/ ClickEdit(a) \/ ClickDelete(a)
    PROVE  IInv'
<1>1. /\ open \in BOOLEAN /\ page \in {"start", "login", "admin"}
      /\ button \in BOOLEAN /\ menu \in BOOLEAN /\ popups \subseteq Requests
      /\ clicks \in 0..MaxClicks /\ overtaken \in BOOLEAN
  BY DEF IInv, Shape, TypeOK
<1>2. Counted => clicks' \in 0..MaxClicks
  BY <1>1, BoundsAssumption DEF Counted
<1>3. {"LOGIN", "RECONNECT", "REFRESH", "CREATE_ACCOUNT", "EDIT_ACCOUNT", "DELETE_ACCOUNT"}
          \subseteq Messages \ {"DISCONNECTED"}
  BY DEF Messages, Requests
<1>4. ASSUME NEW a \in Accounts, NEW b \in Accounts, ClickLogin(a, b) PROVE IInv'
  <2>1. /\ Idle /\ todo' = <<PutVar("login", a), PutVar("password", b), Signal("LOGIN")>>
        /\ UNCHANGED <<shared, flags, ctl, sock, bufs, wires, open, page, button, menu, popups,
                       overtaken>>
        /\ Counted
    BY <1>4 DEF ClickLogin, Callback, Window, Idle
  <2>2. /\ PutVar("login", a) \in Ops /\ PutVar("login", a).op = "put"
        /\ PutVar("password", b) \in Ops /\ PutVar("password", b).op = "put"
        /\ Signal("LOGIN") \in Ops /\ Signal("LOGIN").op = "signal"
        /\ Signal("LOGIN").message = "LOGIN"
    BY <1>3, OpsOfCallbacks
  <2>3. todo' \in Seq(Ops) /\ ~WillAsk' /\ ~WillForget' /\ LogOutInOrder'
    BY <2>1, <2>2, ThreeThings, Harmless
  <2> QED
    BY <1>1, <1>2, <2>1, <2>3, CallbackKeepsIInv
<1>5. ASSUME ClickReconnect PROVE IInv'
  <2>1. /\ Idle /\ todo' = <<Signal("RECONNECT")>> /\ button
        /\ UNCHANGED <<shared, flags, ctl, sock, bufs, wires, open, page, button, menu, popups,
                       clicks, overtaken>>
    BY <1>5 DEF ClickReconnect, Callback, Window, Idle
  <2>2. Signal("RECONNECT") \in Ops /\ Signal("RECONNECT").op = "signal"
    BY <1>3, OpsOfCallbacks
  <2>3. todo' \in Seq(Ops) /\ \A i \in 1..Len(todo') : todo'[i].op = "signal"
    BY <2>1, <2>2, OneThing
  <2>4. ~WillForget' /\ LogOutInOrder'
    BY <2>3 DEF WillForget, LogOutInOrder, ForgetsAt
  <2> QED
    BY <1>1, <2>1, <2>3, <2>4, CallbackKeepsIInv
<1>6. ASSUME ClickRefresh PROVE IInv'
  <2>1. /\ Idle /\ todo' = <<Signal("REFRESH")>>
        /\ UNCHANGED <<shared, flags, ctl, sock, bufs, wires, open, page, button, menu, popups,
                       overtaken>>
        /\ Counted
    BY <1>6 DEF ClickRefresh, Callback, Window, Idle
  <2>2. /\ Signal("REFRESH") \in Ops /\ Signal("REFRESH").op = "signal"
        /\ Signal("REFRESH").message = "REFRESH"
    BY <1>3, OpsOfCallbacks
  <2>3. todo' \in Seq(Ops) /\ ~WillAsk' /\ ~WillForget' /\ LogOutInOrder'
    BY <2>1, <2>2, OneThing, Harmless
  <2> QED
    BY <1>1, <1>2, <2>1, <2>3, CallbackKeepsIInv
<1>7. ASSUME ClickLogOut PROVE IInv'
  <2>1. /\ Idle /\ todo' = LogOut /\ menu /\ menu' = FALSE
        /\ UNCHANGED <<shared, flags, ctl, sock, bufs, wires, open, page, button, popups>>
        /\ overtaken' = (overtaken \/ pc \in MidUpdate) /\ Counted
    BY <1>7 DEF ClickLogOut, Callback, Idle
  <2>2. /\ PopVar("authenticated") \in Ops /\ PopVar("authenticated").op = "pop"
        /\ PopVar("login") \in Ops /\ PopVar("login").op = "pop" /\ PopVar("login").key = "login"
        /\ PopVar("password") \in Ops /\ PopVar("password").op = "pop"
        /\ PopVar("password").key = "password"
        /\ [op |-> "log_out"] \in Ops /\ [op |-> "login_page"] \in Ops
    BY OpsOfCallbacks
  <2>3. /\ todo' \in Seq(Ops) /\ 1..Len(todo') = {1, 2, 3, 4, 5}
        /\ todo'[1].op = "pop" /\ todo'[2].op = "pop" /\ todo'[2].key = "login"
        /\ todo'[3].op = "pop" /\ todo'[3].key = "password"
        /\ todo'[4].op = "log_out" /\ todo'[5].op = "login_page"
    BY <2>1, <2>2, FiveThings DEF LogOut
  <2>5. ~WillAsk'
    BY <2>3 DEF WillAsk, AsksAt
  <2>6. LogOutInOrder'
    <3>1. WillShowLogin'
      BY <2>3 DEF WillShowLogin
    <3> QED
      BY <2>3, <3>1 DEF LogOutInOrder, ForgetsAt
  <2> QED
    BY <1>1, <1>2, <2>1, <2>3, <2>5, <2>6, CallbackKeepsIInv
<1>8. ASSUME MainloopReturns PROVE IInv'
  <2>1. /\ Idle /\ todo' = <<[op |-> "stop"], [op |-> "end_work"]>>
        /\ UNCHANGED <<shared, flags, ctl, sock, bufs, wires, open, page, button, menu, popups,
                       clicks, overtaken>>
    BY <1>8 DEF MainloopReturns, Callback, Window, Idle
  <2>2. /\ [op |-> "stop"] \in Ops /\ [op |-> "stop"].op = "stop"
        /\ [op |-> "end_work"] \in Ops /\ [op |-> "end_work"].op = "end_work"
    BY OpsOfCallbacks
  <2>3. /\ todo' \in Seq(Ops) /\ 1..Len(todo') = {1, 2}
        /\ todo'[1].op = "stop" /\ todo'[2].op = "end_work"
    BY <2>1, <2>2, TwoThings
  <2>4. ~WillAsk' /\ ~WillForget' /\ LogOutInOrder'
    BY <2>3, Harmless
  <2> QED
    BY <1>1, <2>1, <2>3, <2>4, CallbackKeepsIInv
<1>9. ASSUME \/ CloseWindow
             \/ \E r \in {"CREATE_ACCOUNT", "EDIT_ACCOUNT"} : OpenPopup(r) \/ ClosePopup(r)
      PROVE  IInv'
  <2>1. /\ Idle /\ todo' = <<>>
        /\ UNCHANGED <<shared, flags, ctl, sock, bufs, wires, clicks, overtaken>>
        /\ popups' \subseteq Requests /\ open' \in BOOLEAN
        /\ \/ UNCHANGED <<page, button, menu>>
           \/ page' = "start" /\ button' = FALSE /\ menu' = FALSE
    BY <1>1, <1>9 DEF CloseWindow, OpenPopup, ClosePopup, Callback, Window, Requests, Idle
  <2>2. todo' \in Seq(Ops) /\ Len(todo') = 0
    BY <2>1
  <2>3. ~WillAsk' /\ ~WillForget' /\ LogOutInOrder'
    BY <2>2, Harmless
  <2>4. clicks' \in 0..MaxClicks /\ overtaken' \in BOOLEAN /\ (overtaken => overtaken')
    BY <1>1, <2>1
  <2>5. CASE UNCHANGED <<page, button, menu>>
    BY <1>1, <2>1, <2>2, <2>3, <2>4, <2>5, CallbackKeepsIInv
  <2>6. CASE page' = "start" /\ button' = FALSE /\ menu' = FALSE
    BY <1>1, <2>1, <2>2, <2>3, <2>4, <2>6, CallbackKeepsIInv
  <2> QED
    BY <2>1, <2>5, <2>6
<1>10. ASSUME NEW a \in Accounts, ClickCreate(a) \/ ClickEdit(a) \/ ClickDelete(a) PROVE IInv'
  <2>1. /\ Idle
        /\ UNCHANGED <<shared, flags, ctl, sock, bufs, wires, open, page, button, menu,
                       overtaken>>
        /\ Counted /\ popups' \subseteq popups
        /\ \E r \in {"CREATE_ACCOUNT", "EDIT_ACCOUNT", "DELETE_ACCOUNT"} :
              todo' = <<PutVar(r, a), Signal(r)>> \/ todo' = <<Signal(r), PutVar(r, a)>>
    BY <1>10 DEF ClickCreate, ClickEdit, ClickDelete, Callback, Window, Idle
  <2>2. PICK r \in {"CREATE_ACCOUNT", "EDIT_ACCOUNT", "DELETE_ACCOUNT"} :
              todo' = <<PutVar(r, a), Signal(r)>> \/ todo' = <<Signal(r), PutVar(r, a)>>
    BY <2>1
  <2>3. /\ PutVar(r, a) \in Ops /\ PutVar(r, a).op = "put"
        /\ Signal(r) \in Ops /\ Signal(r).op = "signal" /\ Signal(r).message = r
    BY <1>3, OpsOfCallbacks
  <2>4. todo' \in Seq(Ops) /\ ~WillAsk' /\ ~WillForget' /\ LogOutInOrder'
    <3>1. /\ todo' \in Seq(Ops) /\ 1..Len(todo') = {1, 2}
          /\ \/ todo'[1] = PutVar(r, a) /\ todo'[2] = Signal(r)
             \/ todo'[1] = Signal(r) /\ todo'[2] = PutVar(r, a)
      <4>1. CASE todo' = <<PutVar(r, a), Signal(r)>>
        BY <2>3, <4>1, TwoThings
      <4>2. CASE todo' = <<Signal(r), PutVar(r, a)>>
        BY <2>3, <4>2, TwoThings
      <4> QED
        BY <2>2, <4>1, <4>2
    <3>2. r # "RECONNECT"
      OBVIOUS
    <3> QED
      BY <2>3, <3>1, <3>2, Harmless
  <2>5. popups' \subseteq Requests
    BY <1>1, <2>1
  <2> QED
    BY <1>1, <1>2, <2>1, <2>4, <2>5, CallbackKeepsIInv
<1> QED
  BY <1>4, <1>5, <1>6, <1>7, <1>8, <1>9, <1>10

LEMMA OneBefore ==
    ASSUME NEW n \in Nat, NEW i \in 1..n, i # 1
    PROVE  \E j \in 1..(n - 1) : i = j + 1
<1>1. i - 1 \in 1..(n - 1) /\ i = (i - 1) + 1
  OBVIOUS
<1> QED
  BY <1>1

(* The rest of a callback.                                                   *)
LEMMA TodoRest ==
    ASSUME todo \in Seq(Ops), todo # <<>>, todo' = Tail(todo), LogOutInOrder
    PROVE  /\ todo' \in Seq(Ops) /\ Head(todo) \in Ops
           /\ LogOutInOrder' /\ ~WillForget'
           /\ WillAsk' => WillAsk
           /\ Head(todo).op = "signal" /\ Head(todo).message = "RECONNECT" => WillAsk
           /\ Head(todo).op = "pop" /\ Head(todo).key = "authenticated"
                => WillForget /\ WillShowLogin
           /\ WillShowLogin => WillShowLogin' \/ Head(todo).op = "login_page"
<1>1. /\ Tail(todo) \in Seq(Ops) /\ Head(todo) = todo[1] /\ todo[1] \in Ops
      /\ Len(todo) \in Nat /\ Len(todo) >= 1 /\ Len(Tail(todo)) = Len(todo) - 1
      /\ \A i \in 1..(Len(todo) - 1) : Tail(todo)[i] = todo[i + 1]
  <2> HIDE DEF Ops
  <2> QED
    OBVIOUS
<1>2. \A i \in 1..Len(todo') : i + 1 \in 1..Len(todo) /\ i + 1 # 1 /\ todo'[i] = todo[i + 1]
  BY <1>1
<1>3. 1 \in 1..Len(todo)
  BY <1>1
<1>4. ~WillForget' /\ LogOutInOrder'
  <2>1. ASSUME NEW i \in 1..Len(todo'), ForgetsAt(i)' PROVE FALSE
    <3>1. ForgetsAt(i + 1)
      BY <1>2, <2>1 DEF ForgetsAt
    <3> QED
      BY <1>2, <3>1 DEF LogOutInOrder
  <2> QED
    BY <2>1 DEF WillForget, LogOutInOrder
<1>5. WillAsk' => WillAsk
  BY <1>2 DEF WillAsk, AsksAt
<1>6. /\ Head(todo).op = "signal" /\ Head(todo).message = "RECONNECT" => WillAsk
      /\ Head(todo).op = "pop" /\ Head(todo).key = "authenticated" => WillForget /\ WillShowLogin
  BY <1>1, <1>3 DEF WillAsk, AsksAt, WillForget, ForgetsAt, LogOutInOrder
<1>7. WillShowLogin => WillShowLogin' \/ Head(todo).op = "login_page"
  <2> SUFFICES ASSUME NEW i \in 1..Len(todo), todo[i].op = "login_page", i # 1
               PROVE  WillShowLogin'
    BY <1>1 DEF WillShowLogin
  <2>1. PICK j \in 1..(Len(todo) - 1) : i = j + 1
    BY <1>1, OneBefore
  <2>2. j \in 1..Len(todo')
    BY <1>1, <2>1
  <2> QED
    BY <1>2, <2>1, <2>2 DEF WillShowLogin
<1> QED
  BY <1>1, <1>4, <1>5, <1>6, <1>7

LEMMA GuiStepKeepsIInv ==
    ASSUME IInv, GuiStep
    PROVE  IInv'
<1> DEFINE do == Head(todo)
<1>1. /\ todo # <<>> /\ todo' = Tail(todo)
      /\ UNCHANGED <<open, button, menu, popups, clicks, overtaken, connected, ctl, wires,
                     internetClient, thread, sent_keepalive, receive_buffer>>
  BY DEF GuiStep, sock, bufs, EndWork
<1>2. /\ todo' \in Seq(Ops) /\ do \in Ops
      /\ LogOutInOrder' /\ ~WillForget'
      /\ WillAsk' => WillAsk
      /\ do.op = "signal" /\ do.message = "RECONNECT" => WillAsk
      /\ do.op = "pop" /\ do.key = "authenticated" => WillForget /\ WillShowLogin
      /\ WillShowLogin => WillShowLogin' \/ do.op = "login_page"
  BY <1>1, TodoRest DEF IInv, Shape, Views
<1>3. /\ do.op \in {"put", "pop"} => systemVariables' =
            [systemVariables EXCEPT ![do.key] = IF do.op = "put" THEN do.value ELSE None]
      /\ do.op \notin {"put", "pop"} => systemVariables' = systemVariables
      /\ do.op = "signal" => systemMessages' = systemMessages \cup {do.message}
      /\ do.op # "signal" => systemMessages' = systemMessages
      /\ IF do.op = "login_page" THEN page' = "login" ELSE page' = page
      /\ running' \in {running, FALSE}
      /\ work_end_flag' \in {work_end_flag, [work_end_flag EXCEPT ![internetClient] = TRUE]}
      /\ \/ send_buffer' = send_buffer
         \/ \E k \in {"LOG_OUT", "WORK_END"} : Send(internetClient, Message(k, None))
  BY DEF GuiStep, Write, Pop, EndWork, shared, sock, bufs
<1>4. /\ do.op = "put" => do.key \in Keys \ {"authenticated", "waiting"} /\ do.value \in Accounts
      /\ do.op = "pop" => do.key \in Keys \ {"waiting"}
      /\ do.op = "signal" => do.message \in Messages \ {"DISCONNECTED"}
  BY <1>2 DEF Ops, Puts, Pops, Signals, Others
<1> HIDE DEF do
<1>5. UNCHANGED <<pc, back, request, data, up, inbox, outbox>>
  BY <1>1 DEF ctl, wires
<1>6. /\ send_buffer' \in [Conn -> Seq(Mail)] /\ Mailboxes' /\ NotYetUsed'
      /\ (Answered' <=> Answered) /\ (Greeting' <=> Greeting)
  <2>1. Shape /\ Mailboxes /\ NotYetUsed /\ send_buffer \in [Conn -> Seq(Mail)]
    BY DEF IInv, Threads, Shape, ShowingNone, ShowingLost
  <2>2. CASE send_buffer' = send_buffer
    <3>1. Mailboxes' /\ (Answered' <=> Answered) /\ (Greeting' <=> Greeting)
      BY <1>1, <1>5, <2>1, <2>2, SameMail DEF bufs
    <3>2. NotYetUsed'
      BY <1>1, <1>5, <2>1, <2>2, SentUnused
    <3> QED
      BY <2>1, <2>2, <3>1, <3>2
  <2>3. ASSUME NEW k \in {"LOG_OUT", "WORK_END"}, Send(internetClient, Message(k, None))
        PROVE  /\ send_buffer' \in [Conn -> Seq(Mail)] /\ Mailboxes' /\ NotYetUsed'
               /\ (Answered' <=> Answered) /\ (Greeting' <=> Greeting)
    <3>1. Message(k, None) \in Mail /\ Message(k, None).kind # "LOGIN"
      BY DEF Message, Mail
    <3>2. /\ send_buffer' \in [Conn -> Seq(Mail)] /\ Mailboxes'
          /\ \A d \in Conn : d # internetClient => send_buffer'[d] = send_buffer[d]
          /\ (Answered' <=> Answered) /\ (Greeting' <=> Greeting)
      BY <1>1, <1>5, <2>1, <2>3, <3>1, SentMail
    <3>3. NotYetUsed'
      BY <1>1, <1>5, <2>1, <3>2, SentUnused
    <3> QED
      BY <3>2, <3>3
  <2> QED
    BY <1>3, <2>2, <2>3
<1>7. /\ systemVariables' \in [Keys -> Accounts \cup {None}]
      /\ Has("waiting")' <=> Has("waiting")
      /\ Has("authenticated")' => Has("authenticated")
      /\ ~WillForget => (Has("authenticated")' <=> Has("authenticated"))
  <2>1. /\ systemVariables \in [Keys -> Accounts \cup {None}]
        /\ "waiting" \in Keys /\ "authenticated" \in Keys
    BY ShapeUnfolded DEF IInv, Keys
  <2> QED
    BY <1>2, <1>3, <1>4, <2>1 DEF Has
<1>8. /\ systemMessages' \subseteq Messages
      /\ "RECONNECT" \in systemMessages => "RECONNECT" \in systemMessages'
      /\ "RECONNECT" \in systemMessages' => "RECONNECT" \in systemMessages \/ WillAsk
      /\ "DISCONNECTED" \in systemMessages' <=> "DISCONNECTED" \in systemMessages
  <2>1. systemMessages \subseteq Messages
    BY ShapeUnfolded DEF IInv
  <2> QED
    BY <1>2, <1>3, <1>4, <2>1
<1>9. page' \in {"start", "login", "admin"} /\ running' \in BOOLEAN
      /\ work_end_flag' \in [Conn -> BOOLEAN]
  BY <1>3 DEF IInv, Shape, TypeOK
<1>10. Shape'
  BY <1>1, <1>2, <1>5, <1>6, <1>7, <1>8, <1>9 DEF IInv, Shape, TypeOK
<1>11. /\ MayAsk' => MayAsk
       /\ MayReconnect' => MayReconnect
  BY <1>1, <1>2, <1>8 DEF MayAsk, MayReconnect
<1>12. LoggedOut => LoggedOut' /\ ~WillForget
  BY <1>1, <1>2 DEF LoggedOut
<1>13. menu' => Has("authenticated")'
  BY <1>1, <1>7 DEF IInv, Views
<1>15. overtaken' = overtaken /\ overtaken \in BOOLEAN
  BY <1>1, ShapeUnfolded DEF IInv
<1>16. pc = "welcome_page" => (Has("authenticated")' /\ ~WillForget') \/ overtaken'
  BY <1>2, <1>7, <1>15 DEF IInv, Views
<1>14. page' = "admin" => Has("authenticated")' \/ WillShowLogin' \/ overtaken'
  <2>1. do.op # "login_page" => page' = page
    BY <1>3
  <2>2. do.op = "login_page" => page' = "login"
    BY <1>3
  <2>3. Has("authenticated")' \/ ~Has("authenticated") \/ WillShowLogin'
    BY <1>2, <1>3, <1>4, <1>7, TheKeys DEF IInv, Shape, TypeOK, Has
  <2> QED
    BY <1>2, <1>15, <2>1, <2>2, <2>3 DEF IInv, Views
<1> QED
  BY <1>1, <1>2, <1>5, <1>6, <1>7, <1>8, <1>10, <1>11, <1>12, <1>13, <1>14, <1>16, GuiKeeps

-----------------------------------------------------------------------------
(* The socket threads and the server.                                        *)

LEMMA ConnectionsAreNumbers == \A c \in Conn : c \in Int
BY BoundsAssumption DEF Conn

(* The thread that has not ended is the latest connection's.                 *)
LEMMA LiveThread ==
    ASSUME IInv, NEW c \in Conn, thread[c] \notin {"none", "done"}
    PROVE  c = internetClient
<1>1. c \in Int /\ internetClient \in Int
  BY ShapeUnfolded, ConnectionsAreNumbers DEF IInv
<1>2. ~(c < internetClient) /\ ~(c > internetClient)
  BY DEF IInv, Threads, OldThreadsAreDone, NotYetUsed, ShowingNone, ShowingLost
<1> QED
  BY <1>1, <1>2

Elsewhere(c) ==
    \A d \in Conn : d # c =>
        /\ thread'[d] = thread[d] /\ up'[d] = up[d]
        /\ send_buffer'[d] = send_buffer[d] /\ outbox'[d] = outbox[d]
        /\ inbox'[d] = inbox[d] /\ receive_buffer'[d] = receive_buffer[d]

LEMMA OneConnectionsMail ==
    ASSUME Mailboxes, NEW c \in Conn, Elsewhere(c), FewOf(c)', GreetingFirst(c)'
    PROVE  Mailboxes'
<1>1. ASSUME NEW d \in Conn, d # c PROVE FewOf(d)' /\ GreetingFirst(d)'
  <2>1. /\ send_buffer'[d] = send_buffer[d] /\ outbox'[d] = outbox[d]
        /\ inbox'[d] = inbox[d] /\ receive_buffer'[d] = receive_buffer[d]
    BY <1>1 DEF Elsewhere
  <2>2. FewOf(d) /\ GreetingFirst(d)
    BY DEF Mailboxes
  <2>3. FewOf(d)'
    BY <2>1, <2>2 DEF FewOf
  <2>4. GreetingFirst(d)'
    BY <2>1, <2>2 DEF GreetingFirst
  <2> QED
    BY <2>3, <2>4
<1> QED
  BY <1>1 DEF Mailboxes

(* What a step on one connection may do to the invariant.                    *)
LEMMA ConnectionStep ==
    ASSUME IInv, Shape', NEW c \in Conn, Elsewhere(c), FewOf(c)', GreetingFirst(c)',
           UNCHANGED <<gui, ctl, systemVariables, internetClient>>,
           "RECONNECT" \in systemMessages' <=> "RECONNECT" \in systemMessages,
           connected' => connected, ~(c > internetClient),
           thread[c] \in {"none", "done"} =>
               UNCHANGED <<systemMessages, thread, receive_buffer>>,
           "DISCONNECTED" \in systemMessages' =>
               "DISCONNECTED" \in systemMessages \/ thread'[c] = "done",
           AnsweredOn(c) => AnsweredOn(c)', GreetingOn(c)' => GreetingOn(c)
    PROVE  IInv'
<1>1. UNCHANGED <<todo, button, menu, page, overtaken, systemVariables, pc, internetClient>>
  BY DEF gui, ctl
<1>2. Mailboxes'
  BY OneConnectionsMail DEF IInv
<1>3. PICK i \in Conn : i = internetClient
  BY ShapeUnfolded DEF IInv
<1>4. /\ Answered => Answered'
      /\ Greeting' => Greeting
  <2>1. CASE i = c
    BY <1>1, <1>3, <2>1 DEF Answered, Greeting
  <2>2. CASE i # c
    BY <1>1, <1>3, <2>2 DEF Elsewhere, Answered, AnsweredOn, Greeting, GreetingOn
  <2> QED
    BY <2>1, <2>2
<1>5. NotYetUsed'
  <2>1. ASSUME NEW d \in Conn, d > internetClient
        PROVE  /\ thread'[d] = "none" /\ ~up'[d]
               /\ send_buffer'[d] = <<>> /\ outbox'[d] = <<>>
               /\ inbox'[d] = <<>> /\ receive_buffer'[d] = <<>>
    <3>1. d # c
      BY <2>1
    <3> QED
      BY <2>1, <3>1 DEF IInv, Threads, NotYetUsed, Elsewhere, ShowingNone, ShowingLost
  <2> QED
    BY <1>1, <2>1 DEF NotYetUsed
<1>6. thread[c] \notin {"none", "done"} => c = internetClient
  BY LiveThread
<1>7. OldThreadsAreDone'
  <2>1. ASSUME NEW d \in Conn, d < internetClient PROVE thread'[d] \in {"none", "done"}
    <3>1. thread[d] \in {"none", "done"}
      BY <2>1 DEF IInv, Threads, OldThreadsAreDone, ShowingNone, ShowingLost
    <3>2. CASE d = c
      BY <3>1, <3>2
    <3>3. CASE d # c
      BY <3>1, <3>3 DEF Elsewhere
    <3> QED
      BY <3>2, <3>3
  <2> QED
    BY <1>1, <2>1 DEF OldThreadsAreDone
<1>8. \/ thread[i] \notin {"none", "done"} /\ i = c
      \/ thread'[i] = thread[i] /\ receive_buffer'[i] = receive_buffer[i]
         /\ ("DISCONNECTED" \in systemMessages' <=> "DISCONNECTED" \in systemMessages)
  <2>1. CASE thread[c] \in {"none", "done"}
    BY <2>1
  <2>2. CASE thread[c] \notin {"none", "done"}
    BY <1>3, <1>6, <2>2
  <2> QED
    BY <2>1, <2>2
<1>9. "DISCONNECTED" \in systemMessages' => thread'[internetClient] \in {"none", "done"}
  BY <1>1, <1>3, <1>8 DEF IInv, Threads, ShowingNone, ShowingLost
<1>10. /\ Told => Told'
       /\ thread[internetClient] \in {"none", "done"} =>
            thread'[internetClient] \in {"none", "done"}
  BY <1>1, <1>3, <1>8 DEF Told
<1>11. /\ (MayAsk' <=> MayAsk) /\ (MayReconnect' <=> MayReconnect)
       /\ (LoggedOut' <=> LoggedOut)
       /\ (WillForget' <=> WillForget) /\ (WillShowLogin' <=> WillShowLogin)
       /\ (LogOutInOrder' <=> LogOutInOrder)
  BY <1>1, SameTodo DEF MayAsk, MayReconnect, LoggedOut
<1>12. Threads'
  <2>1. pc = "first" => receive_buffer'[1] = <<>>
    BY <1>3, <1>8 DEF IInv, Threads, Told, ShowingNone, ShowingLost
  <2> QED
    BY <1>1, <1>5, <1>7, <1>9, <1>10, <1>11, <2>1 DEF IInv, Threads, ShowingNone, ShowingLost
<1>13. Views'
  BY <1>1, <1>11 DEF IInv, Views, Has
<1>14. Turns'
  BY <1>1, <1>4, <1>11 DEF IInv, Turns, Has
<1> QED
  BY <1>2, <1>12, <1>13, <1>14 DEF IInv

(* What a socket thread and the server move on a connection is still mail.   *)
LEMMA SocketThreadKeepsIInv ==
    ASSUME IInv, NEW c \in Conn, SocketThread(c)
    PROVE  IInv'
<1>1. /\ thread[c] \notin {"none", "done"}
      /\ UNCHANGED <<gui, ctl, systemVariables, internetClient>>
  BY DEF SocketThread, KeepAlive, Receive, SendOne, WorkEnd, Lost, SignalLost, Loops, shared
<1>2. c = internetClient /\ ~(c > internetClient)
  <2>1. c = internetClient
    BY <1>1, LiveThread
  <2> QED
    BY <2>1, ConnectionsAreNumbers
<1>3. /\ Shape /\ Mailboxes /\ FewOf(c) /\ GreetingFirst(c)
  BY DEF IInv, Mailboxes
<1>4. /\ thread \in [Conn -> {"none", "loop", "lost", "signal", "done"}]
      /\ up \in [Conn -> BOOLEAN] /\ systemMessages \subseteq Messages /\ connected \in BOOLEAN
      /\ inbox \in [Conn -> Seq(Answers)] /\ receive_buffer \in [Conn -> Seq(Answers)]
      /\ send_buffer \in [Conn -> Seq(Mail)] /\ outbox \in [Conn -> Seq(Mail)]
      /\ outbox \in [Conn -> Seq(Asked)] /\ sent_keepalive \in [Conn -> BOOLEAN]
  BY <1>3 DEF Shape, TypeOK
<1>5. CASE KeepAlive(c)
  <2>1. /\ UNCHANGED <<shared, flags, work_end_flag, receive_buffer, up, inbox, outbox>>
        /\ \/ /\ thread' = [thread EXCEPT ![c] = "lost"]
              /\ UNCHANGED <<sent_keepalive, send_buffer>>
           \/ /\ sent_keepalive' = [sent_keepalive EXCEPT ![c] = TRUE]
              /\ thread' = thread /\ Send(internetClient, Message("KEEP_ALIVE", None))
    BY <1>2, <1>5 DEF KeepAlive, Then, wires
  <2>2. Message("KEEP_ALIVE", None) \in Mail /\ Message("KEEP_ALIVE", None).kind # "LOGIN"
    BY DEF Message, Mail
  <2>3. /\ send_buffer' \in [Conn -> Seq(Mail)] /\ Mailboxes'
        /\ \A d \in Conn : d # c => send_buffer'[d] = send_buffer[d]
        /\ (Answered' <=> Answered) /\ (Greeting' <=> Greeting)
    <3>1. CASE send_buffer' = send_buffer
      BY <1>1, <1>3, <1>4, <2>1, <3>1, SameMail DEF bufs
    <3>2. CASE Send(internetClient, Message("KEEP_ALIVE", None))
      BY <1>1, <1>2, <1>3, <2>1, <2>2, <3>2, SentMail
    <3> QED
      BY <2>1, <3>1, <3>2
  <2>4. FewOf(c)' /\ GreetingFirst(c)'
    BY <2>3 DEF Mailboxes
  <2>5. (AnsweredOn(c)' <=> AnsweredOn(c)) /\ (GreetingOn(c)' <=> GreetingOn(c))
    BY <1>1, <1>2, <2>3 DEF Answered, Greeting
  <2>6. /\ Elsewhere(c) /\ sent_keepalive' \in [Conn -> BOOLEAN]
        /\ thread' \in [Conn -> {"none", "loop", "lost", "signal", "done"}]
    BY <1>4, <2>1, <2>3 DEF Elsewhere
  <2>7. Shape'
    BY <1>1, <2>1, <2>3, <2>6 DEF IInv, Shape, TypeOK, gui, shared, flags, ctl
  <2>8. UNCHANGED <<systemMessages, connected>>
    BY <2>1 DEF shared, flags
  <2> QED
    BY <1>1, <1>2, <2>4, <2>5, <2>6, <2>7, <2>8, ConnectionStep
<1>6. CASE WorkEnd(c)
  <2>1. /\ UNCHANGED <<shared, flags, work_end_flag, sent_keepalive, bufs, up, inbox, outbox>>
        /\ thread' = [thread EXCEPT ![c] = "done"]
    BY <1>6 DEF WorkEnd, Then, wires
  <2>2. /\ Elsewhere(c) /\ thread' \in [Conn -> {"none", "loop", "lost", "signal", "done"}]
    BY <1>4, <2>1 DEF Elsewhere, bufs
  <2>3. Shape'
    BY <1>1, <2>1, <2>2 DEF IInv, Shape, TypeOK, gui, shared, flags, ctl, bufs
  <2>4. /\ FewOf(c)' /\ GreetingFirst(c)'
        /\ (AnsweredOn(c)' <=> AnsweredOn(c)) /\ (GreetingOn(c)' <=> GreetingOn(c))
    BY <1>3, <2>1 DEF FewOf, GreetingFirst, AnsweredOn, GreetingOn, bufs
  <2>5. UNCHANGED <<systemMessages, connected>>
    BY <2>1 DEF shared, flags
  <2> QED
    BY <1>1, <1>2, <2>2, <2>3, <2>4, <2>5, ConnectionStep
<1>7. CASE SignalLost(c)
  <2>1. /\ UNCHANGED <<flags, work_end_flag, sent_keepalive, bufs, up, inbox, outbox>>
        /\ thread' = [thread EXCEPT ![c] = "done"]
        /\ systemMessages' = systemMessages \cup {"DISCONNECTED"}
    BY <1>7 DEF SignalLost, Then, wires
  <2>2. /\ Elsewhere(c) /\ thread' \in [Conn -> {"none", "loop", "lost", "signal", "done"}]
        /\ thread'[c] = "done" /\ systemMessages' \subseteq Messages
        /\ "RECONNECT" \in systemMessages' <=> "RECONNECT" \in systemMessages
    BY <1>4, <2>1 DEF Elsewhere, bufs, Messages
  <2>3. Shape'
    BY <1>1, <2>1, <2>2 DEF IInv, Shape, TypeOK, gui, flags, ctl, bufs
  <2>4. /\ FewOf(c)' /\ GreetingFirst(c)'
        /\ (AnsweredOn(c)' <=> AnsweredOn(c)) /\ (GreetingOn(c)' <=> GreetingOn(c))
    BY <1>3, <2>1 DEF FewOf, GreetingFirst, AnsweredOn, GreetingOn, bufs
  <2>5. connected' = connected
    BY <2>1 DEF flags
  <2> QED
    BY <1>1, <1>2, <2>2, <2>3, <2>4, <2>5, ConnectionStep
<1>8. CASE Lost(c)
  <2>1. /\ UNCHANGED <<shared, running, work_end_flag>> /\ connected' = FALSE
        /\ thread' = [thread EXCEPT ![c] = "signal"]
        /\ up' = [up EXCEPT ![c] = FALSE]
        /\ sent_keepalive' = [sent_keepalive EXCEPT ![c] = FALSE]
        /\ send_buffer' = [send_buffer EXCEPT ![c] = <<>>]
        /\ receive_buffer' = [receive_buffer EXCEPT ![c] = <<>>]
        /\ inbox' = [inbox EXCEPT ![c] = <<>>] /\ outbox' = [outbox EXCEPT ![c] = <<>>]
    BY <1>8 DEF Lost, Then
  <2>2. /\ Elsewhere(c) /\ thread' \in [Conn -> {"none", "loop", "lost", "signal", "done"}]
        /\ up' \in [Conn -> BOOLEAN] /\ sent_keepalive' \in [Conn -> BOOLEAN]
        /\ send_buffer'[c] = <<>> /\ outbox'[c] = <<>>
        /\ inbox'[c] = <<>> /\ receive_buffer'[c] = <<>>
    BY <1>4, <2>1 DEF Elsewhere
  <2>3. /\ send_buffer' \in [Conn -> Seq(Mail)] /\ outbox' \in [Conn -> Seq(Mail)]
        /\ outbox' \in [Conn -> Seq(Asked)] /\ inbox' \in [Conn -> Seq(Answers)]
        /\ receive_buffer' \in [Conn -> Seq(Answers)]
    BY <1>4, <2>1
  <2>4. Shape'
    BY <1>1, <2>1, <2>2, <2>3 DEF IInv, Shape, TypeOK, gui, shared, ctl
  <2>5. FewOf(c)' /\ AnsweredOn(c)' /\ ~GreetingOn(c)'
    BY <2>2, NothingIn DEF FewOf, Few, AtMostOne, AnsweredOn, GreetingOn
  <2>6. GreetingFirst(c)'
    <3>1. Len(inbox'[c]) = 0 /\ Len(receive_buffer'[c]) = 0 /\ 1..0 = {}
      BY <2>2
    <3> QED
      BY <3>1 DEF GreetingFirst
  <2>7. systemMessages' = systemMessages
    BY <2>1 DEF shared
  <2> QED
    BY <1>1, <1>2, <2>1, <2>2, <2>4, <2>5, <2>6, <2>7, ConnectionStep
<1>9. CASE Receive(c)
  <2>1. UNCHANGED <<shared, flags, work_end_flag, send_buffer, up, outbox>>
    BY <1>9 DEF Receive
  <2>2. UNCHANGED <<systemMessages, connected>>
    BY <2>1 DEF shared, flags
  <2>3. CASE UNCHANGED <<inbox, receive_buffer, sent_keepalive>>
              /\ thread' = [thread EXCEPT ![c] = "lost"]
    <3>1. /\ Elsewhere(c) /\ thread' \in [Conn -> {"none", "loop", "lost", "signal", "done"}]
      BY <1>4, <2>1, <2>3 DEF Elsewhere
    <3>2. Shape'
      BY <1>1, <2>1, <2>3, <3>1 DEF IInv, Shape, TypeOK, gui, shared, flags, ctl
    <3>3. /\ FewOf(c)' /\ GreetingFirst(c)'
          /\ (AnsweredOn(c)' <=> AnsweredOn(c)) /\ (GreetingOn(c)' <=> GreetingOn(c))
      BY <1>3, <2>1, <2>3 DEF FewOf, GreetingFirst, AnsweredOn, GreetingOn
    <3> QED
      BY <1>1, <1>2, <2>2, <3>1, <3>2, <3>3, ConnectionStep
  <2>4. CASE /\ inbox[c] # <<>> /\ thread' = thread
             /\ inbox' = [inbox EXCEPT ![c] = Tail(@)]
             /\ receive_buffer' = [receive_buffer EXCEPT ![c] = Append(@, Head(inbox[c]))]
             /\ sent_keepalive' = [sent_keepalive EXCEPT ![c] = FALSE]
    <3> DEFINE s == inbox[c]  r == receive_buffer[c]  a == Head(inbox[c])
    <3>1. /\ s \in Seq(Answers) /\ r \in Seq(Answers) /\ s # <<>>
          /\ inbox'[c] = Tail(s) /\ receive_buffer'[c] = Append(r, a)
      BY <1>4, <2>4
    <3>2. /\ Tail(s) \in Seq(Answers) /\ a \in Answers
          /\ AnswersIn(s) = {} => AnswersIn(Tail(s)) = {} /\ a = "LOGIN_REQUEST"
          /\ AtMostOne(AnswersIn(s)) => /\ AtMostOne(AnswersIn(Tail(s)))
                                        /\ a # "LOGIN_REQUEST" => AnswersIn(Tail(s)) = {}
      BY <3>1, FirstAnswerTaken
    <3>3. /\ Append(r, a) \in Seq(Answers)
          /\ a = "LOGIN_REQUEST" => AnswersIn(Append(r, a)) = AnswersIn(r)
          /\ a # "LOGIN_REQUEST" => AnswersIn(Append(r, a)) = AnswersIn(r) \cup {Len(r) + 1}
      BY <3>1, <3>2, OneMoreAnswer
    <3>4. /\ Elsewhere(c) /\ inbox' \in [Conn -> Seq(Answers)]
          /\ receive_buffer' \in [Conn -> Seq(Answers)] /\ sent_keepalive' \in [Conn -> BOOLEAN]
      BY <1>4, <2>1, <2>4, <3>1, <3>2, <3>3 DEF Elsewhere
    <3>5. Shape'
      BY <1>1, <2>1, <2>4, <3>4 DEF IInv, Shape, TypeOK, gui, shared, flags, ctl
    <3>6. /\ \A i \in 1..Len(s) : s[i] = "LOGIN_REQUEST" => i = 1 /\ r = <<>>
          /\ \A i \in 1..Len(r) : r[i] = "LOGIN_REQUEST" => i = 1
      BY <1>3 DEF GreetingFirst
    <3>7. /\ a = "LOGIN_REQUEST" => Greets(s) /\ r = <<>>
          /\ ~Greets(Tail(s))
      <4>1. /\ a = "LOGIN_REQUEST" => Greets(s)
            /\ (\A i \in 1..Len(s) : s[i] = "LOGIN_REQUEST" => i = 1) => ~Greets(Tail(s))
        BY <3>1, GreetingMoves
      <4> QED
        BY <3>6, <4>1 DEF Greets
    <3>8. /\ Greets(Append(r, a)) <=> Greets(r) \/ a = "LOGIN_REQUEST"
          /\ \A i \in 1..Len(Append(r, a)) : Append(r, a)[i] = "LOGIN_REQUEST" => i = 1
      BY <3>1, <3>2, <3>6, <3>7, GreetingArrives
    <3>9. FewOf(c)'
      <4>1. Few(Logins(send_buffer[c]), Logins(outbox[c]), AnswersIn(s), AnswersIn(r))
        BY <1>3 DEF FewOf
      <4>2. CASE a = "LOGIN_REQUEST"
        <5>1. Few(Logins(send_buffer[c]), Logins(outbox[c]), AnswersIn(Tail(s)), AnswersIn(r))
          BY <3>2, <4>1 DEF Few
        <5> QED
          BY <2>1, <3>1, <3>3, <4>2, <5>1 DEF FewOf
      <4>3. CASE a # "LOGIN_REQUEST"
        <5>1. Few(Logins(send_buffer[c]), Logins(outbox[c]), AnswersIn(Tail(s)), {Len(r) + 1})
          BY <3>2, <4>1, <4>3 DEF Few, AtMostOne
        <5>2. AnswersIn(Append(r, a)) = {Len(r) + 1}
          BY <3>2, <3>3, <4>1, <4>3 DEF Few
        <5> QED
          BY <2>1, <3>1, <5>1, <5>2 DEF FewOf
      <4> QED
        BY <4>2, <4>3
    <3> HIDE DEF s, r, a
    <3>10. GreetingFirst(c)'
      BY <3>1, <3>7, <3>8 DEF GreetingFirst, Greets
    <3>11. GreetingOn(c)' => GreetingOn(c)
      BY <3>1, <3>7, <3>8 DEF GreetingOn, s, r
    <3>12. AnsweredOn(c) => AnsweredOn(c)'
      BY <2>1, <3>1, <3>2, <3>3 DEF AnsweredOn, s, r
    <3> QED
      BY <1>1, <1>2, <2>2, <3>4, <3>5, <3>9, <3>10, <3>11, <3>12, ConnectionStep
  <2> QED
    BY <1>9, <2>3, <2>4 DEF Receive, Then
<1>10. CASE SendOne(c)
  <2>1. UNCHANGED <<shared, flags, work_end_flag, sent_keepalive, receive_buffer, up, inbox>>
    BY <1>10 DEF SendOne
  <2>2. UNCHANGED <<systemMessages, connected>>
    BY <2>1 DEF shared, flags
  <2>3. CASE UNCHANGED <<send_buffer, outbox>> /\ thread' = [thread EXCEPT ![c] = "lost"]
    <3>1. /\ Elsewhere(c) /\ thread' \in [Conn -> {"none", "loop", "lost", "signal", "done"}]
      BY <1>4, <2>1, <2>3 DEF Elsewhere
    <3>2. Shape'
      BY <1>1, <2>1, <2>3, <3>1 DEF IInv, Shape, TypeOK, gui, shared, flags, ctl
    <3>3. /\ FewOf(c)' /\ GreetingFirst(c)'
          /\ (AnsweredOn(c)' <=> AnsweredOn(c)) /\ (GreetingOn(c)' <=> GreetingOn(c))
      BY <1>3, <2>1, <2>3 DEF FewOf, GreetingFirst, AnsweredOn, GreetingOn
    <3> QED
      BY <1>1, <1>2, <2>2, <3>1, <3>2, <3>3, ConnectionStep
  <2>4. CASE /\ send_buffer[c] # <<>> /\ thread' = thread
             /\ send_buffer' = [send_buffer EXCEPT ![c] = Tail(@)]
             /\ \/ outbox' = outbox
                \/ /\ Head(send_buffer[c]).kind = "LOGIN"
                   /\ outbox' = [outbox EXCEPT ![c] = Append(@, Head(send_buffer[c]))]
    <3> DEFINE s == send_buffer[c]  o == outbox[c]  m == Head(send_buffer[c])
    <3>1. /\ s \in Seq(Mail) /\ o \in Seq(Mail) /\ o \in Seq(Asked) /\ s # <<>>
          /\ send_buffer'[c] = Tail(s)
          /\ outbox' = outbox \/ (m.kind = "LOGIN" /\ outbox' = [outbox EXCEPT ![c] = Append(o, m)])
      BY <1>4, <2>4
    <3>2. /\ Tail(s) \in Seq(Mail) /\ m \in Mail
          /\ Logins(s) = {} => Logins(Tail(s)) = {} /\ m.kind # "LOGIN"
          /\ AtMostOne(Logins(s)) => /\ AtMostOne(Logins(Tail(s)))
                                     /\ m.kind = "LOGIN" => Logins(Tail(s)) = {}
      BY <3>1, FirstMessageTaken
    <3>3. /\ Append(o, m) \in Seq(Mail)
          /\ m.kind = "LOGIN" => Logins(Append(o, m)) = Logins(o) \cup {Len(o) + 1}
      BY <3>1, <3>2, OneMoreMessage
    <3>4. m.kind = "LOGIN" => Append(o, m) \in Seq(Asked)
      <4>1. m.kind = "LOGIN" => m \in Asked
        BY <3>2 DEF Asked
      <4> HIDE DEF o, m, Asked
      <4> QED
        BY <3>1, <4>1
    <3>5. Few(Logins(s), Logins(o), AnswersIn(inbox[c]), AnswersIn(receive_buffer[c]))
      BY <1>3 DEF FewOf
    <3> HIDE DEF s, o, m
    <3>6. /\ send_buffer' \in [Conn -> Seq(Mail)]
          /\ outbox' \in [Conn -> Seq(Mail)] /\ outbox' \in [Conn -> Seq(Asked)]
          /\ Elsewhere(c)
          /\ outbox'[c] = o \/ (m.kind = "LOGIN" /\ outbox'[c] = Append(o, m))
      <4>1. send_buffer' \in [Conn -> Seq(Mail)]
        BY <1>4, <2>4, <3>2 DEF s
      <4>2. outbox' \in [Conn -> Seq(Mail)] /\ outbox' \in [Conn -> Seq(Asked)]
        BY <1>4, <3>1, <3>3, <3>4
      <4>3. outbox'[c] = o \/ (m.kind = "LOGIN" /\ outbox'[c] = Append(o, m))
        BY <1>4, <3>1 DEF o
      <4>4. Elsewhere(c)
        BY <1>4, <2>1, <2>4, <3>1 DEF Elsewhere
      <4> QED
        BY <4>1, <4>2, <4>3, <4>4
    <3>7. Shape'
      BY <1>1, <2>1, <2>4, <3>6 DEF IInv, Shape, TypeOK, gui, shared, flags, ctl
    <3>8. FewOf(c)'
      <4>1. CASE outbox'[c] = o
        <5>1. Few(Logins(Tail(s)), Logins(o), AnswersIn(inbox[c]), AnswersIn(receive_buffer[c]))
          BY <3>2, <3>5 DEF Few
        <5> QED
          BY <2>1, <3>1, <4>1, <5>1 DEF FewOf
      <4>2. CASE m.kind = "LOGIN" /\ outbox'[c] = Append(o, m)
        <5>1. Few(Logins(Tail(s)), {Len(o) + 1}, AnswersIn(inbox[c]), AnswersIn(receive_buffer[c]))
          BY <3>2, <3>5, <4>2 DEF Few, AtMostOne
        <5>2. Logins(Append(o, m)) = {Len(o) + 1}
          BY <3>2, <3>3, <3>5, <4>2 DEF Few
        <5> QED
          BY <2>1, <3>1, <4>2, <5>1, <5>2 DEF FewOf
      <4> QED
        BY <3>6, <4>1, <4>2
    <3>9. GreetingFirst(c)' /\ (GreetingOn(c)' <=> GreetingOn(c))
      BY <1>3, <2>1 DEF GreetingFirst, GreetingOn
    <3>10. AnsweredOn(c) => AnsweredOn(c)'
      BY <2>1, <3>1, <3>2, <3>6 DEF AnsweredOn, s, o
    <3> QED
      BY <1>1, <1>2, <2>2, <3>6, <3>7, <3>8, <3>9, <3>10, ConnectionStep
  <2> QED
    BY <1>10, <2>3, <2>4 DEF SendOne, Then
<1> QED
  BY <1>5, <1>6, <1>7, <1>8, <1>9, <1>10 DEF SocketThread

LEMMA ServerReadsKeepsIInv ==
    ASSUME IInv, NEW c \in Conn, ServerReads(c)
    PROVE  IInv'
<1>1. /\ up[c] /\ outbox[c] # <<>> /\ outbox' = [outbox EXCEPT ![c] = Tail(@)]
      /\ UNCHANGED <<gui, shared, flags, ctl, sock, bufs, up>>
      /\ \/ inbox' = inbox
         \/ \E answer \in {"LOGIN_REJECTED", "CLIENT_ID"} :
               inbox' = [inbox EXCEPT ![c] = Append(@, answer)]
  BY DEF ServerReads
<1>2. UNCHANGED <<systemMessages, systemVariables, connected, internetClient, thread,
                  send_buffer, receive_buffer>>
  BY <1>1 DEF shared, flags, sock, bufs
<1>3. /\ Shape /\ Mailboxes /\ FewOf(c) /\ GreetingFirst(c)
      /\ inbox \in [Conn -> Seq(Answers)] /\ outbox \in [Conn -> Seq(Mail)]
      /\ outbox \in [Conn -> Seq(Asked)]
  BY DEF IInv, Mailboxes, Shape, TypeOK
<1>4. ~(c > internetClient)
  BY <1>1 DEF IInv, Threads, NotYetUsed, ShowingNone, ShowingLost
<1> DEFINE o == outbox[c]  s == inbox[c]
<1>5. /\ o \in Seq(Mail) /\ o \in Seq(Asked) /\ o # <<>> /\ s \in Seq(Answers)
      /\ outbox'[c] = Tail(o)
  BY <1>1, <1>3
<1>6. Head(o) \in Asked /\ Tail(o) \in Seq(Asked)
  <2> HIDE DEF o, Asked
  <2> QED
    BY <1>5
<1>7. /\ Tail(o) \in Seq(Mail) /\ Logins(o) # {} /\ Head(o).kind = "LOGIN"
      /\ AtMostOne(Logins(o)) => Logins(Tail(o)) = {}
  BY <1>5, <1>6, FirstMessageTaken DEF Asked
<1>8. /\ Logins(send_buffer[c]) = {} /\ Logins(Tail(o)) = {}
      /\ AnswersIn(s) = {} /\ AnswersIn(receive_buffer[c]) = {}
  BY <1>3, <1>7 DEF FewOf, Few
<1>9. ~AnsweredOn(c)
  BY <1>7 DEF AnsweredOn
<1>10. /\ inbox' \in [Conn -> Seq(Answers)]
       /\ AtMostOne(AnswersIn(inbox'[c]))
       /\ Greets(inbox'[c]) <=> Greets(s)
       /\ \A i \in 1..Len(inbox'[c]) :
             inbox'[c][i] = "LOGIN_REQUEST" => i = 1 /\ receive_buffer[c] = <<>>
       /\ \A d \in Conn : d # c => inbox'[d] = inbox[d]
  <2>1. CASE inbox' = inbox
    BY <1>3, <1>8, <2>1 DEF AtMostOne, GreetingFirst
  <2>2. ASSUME NEW a \in {"LOGIN_REJECTED", "CLIENT_ID"},
               inbox' = [inbox EXCEPT ![c] = Append(@, a)]
        PROVE  /\ inbox' \in [Conn -> Seq(Answers)]
               /\ AtMostOne(AnswersIn(inbox'[c]))
               /\ Greets(inbox'[c]) <=> Greets(s)
               /\ \A i \in 1..Len(inbox'[c]) :
                     inbox'[c][i] = "LOGIN_REQUEST" => i = 1 /\ receive_buffer[c] = <<>>
               /\ \A d \in Conn : d # c => inbox'[d] = inbox[d]
    <3>1. a \in Answers /\ a # "LOGIN_REQUEST" /\ inbox'[c] = Append(s, a)
      BY <1>3, <2>2 DEF Answers
    <3>2. /\ Append(s, a) \in Seq(Answers) /\ AnswersIn(Append(s, a)) = {Len(s) + 1}
      BY <1>5, <1>8, <3>1, OneMoreAnswer
    <3>3. \A i \in 1..Len(s) : s[i] = "LOGIN_REQUEST" => i = 1 /\ receive_buffer[c] = <<>>
      BY <1>3 DEF GreetingFirst
    <3>4. /\ Greets(Append(s, a)) <=> Greets(s)
          /\ \A i \in 1..Len(Append(s, a)) : Append(s, a)[i] = "LOGIN_REQUEST" => i = 1
      BY <1>5, <3>1, <3>3, GreetingArrives
    <3>5. /\ inbox' \in [Conn -> Seq(Answers)]
          /\ \A d \in Conn : d # c => inbox'[d] = inbox[d]
      BY <1>3, <2>2, <3>2
    <3>6. AtMostOne(AnswersIn(inbox'[c]))
      BY <3>1, <3>2 DEF AtMostOne
    <3> HIDE DEF s
    <3>7. \A i \in 1..Len(inbox'[c]) :
             inbox'[c][i] = "LOGIN_REQUEST" => i = 1 /\ receive_buffer[c] = <<>>
      BY <3>1, <3>3, <3>4 DEF Greets
    <3> QED
      BY <3>1, <3>4, <3>5, <3>6, <3>7
  <2> QED
    BY <1>1, <2>1, <2>2
<1>11. /\ outbox' \in [Conn -> Seq(Mail)] /\ outbox' \in [Conn -> Seq(Asked)]
       /\ \A d \in Conn : d # c => outbox'[d] = outbox[d]
  BY <1>1, <1>3, <1>6, <1>7
<1>12. Elsewhere(c)
  BY <1>1, <1>2, <1>10, <1>11 DEF Elsewhere
<1>13. Shape'
  BY <1>1, <1>10, <1>11 DEF IInv, Shape, TypeOK, gui, shared, flags, ctl, sock, bufs
<1>14. FewOf(c)'
  BY <1>2, <1>5, <1>8, <1>10 DEF FewOf, Few, AtMostOne
<1>15. GreetingFirst(c)' /\ (GreetingOn(c)' <=> GreetingOn(c))
  BY <1>2, <1>3, <1>10 DEF GreetingFirst, GreetingOn
<1> QED
  BY <1>1, <1>2, <1>4, <1>9, <1>12, <1>13, <1>14, <1>15, ConnectionStep

LEMMA ServerClosesKeepsIInv ==
    ASSUME IInv, NEW c \in Conn, ServerCloses(c)
    PROVE  IInv'
<1>1. /\ up[c] /\ up' = [up EXCEPT ![c] = FALSE]
      /\ UNCHANGED <<gui, shared, flags, ctl, sock, bufs, inbox, outbox>>
  BY DEF ServerCloses
<1>2. UNCHANGED <<systemMessages, systemVariables, connected, internetClient, thread,
                  send_buffer, receive_buffer>>
  BY <1>1 DEF shared, flags, sock, bufs
<1>3. ~(c > internetClient)
  BY <1>1 DEF IInv, Threads, NotYetUsed, ShowingNone, ShowingLost
<1>4. up' \in [Conn -> BOOLEAN] /\ \A d \in Conn : d # c => up'[d] = up[d]
  BY <1>1, ShapeUnfolded DEF IInv
<1>5. Elsewhere(c)
  BY <1>1, <1>2, <1>4 DEF Elsewhere
<1>6. Shape'
  BY <1>1, <1>4 DEF IInv, Shape, TypeOK, gui, shared, flags, ctl, sock, bufs
<1>7. FewOf(c) /\ GreetingFirst(c)
  BY DEF IInv, Mailboxes
<1>8. /\ FewOf(c)' /\ GreetingFirst(c)'
      /\ (AnsweredOn(c)' <=> AnsweredOn(c)) /\ (GreetingOn(c)' <=> GreetingOn(c))
  BY <1>1, <1>2, <1>7 DEF FewOf, GreetingFirst, AnsweredOn, GreetingOn
<1> QED
  BY <1>1, <1>2, <1>3, <1>5, <1>6, <1>8, ConnectionStep

-----------------------------------------------------------------------------
(* The theorems.                                                             *)

LEMMA InitIInv ==
    ASSUME Init
    PROVE  IInv
<1>1. 1 \in Conn
  BY BoundsAssumption DEF Conn
<1>2. ~WillAsk /\ ~WillForget /\ ~WillShowLogin /\ LogOutInOrder
  BY NothingToDo DEF Init
<1>3. \A c \in Conn : /\ thread[c] = "none" /\ ~up[c]
                      /\ send_buffer[c] = <<>> /\ receive_buffer[c] = <<>>
                      /\ inbox[c] = <<>> /\ outbox[c] = <<>>
  BY DEF Init
<1>4. Shape
  <2>1. TypeOK
    <3>1. /\ open \in BOOLEAN /\ page \in {"start", "login", "admin"} /\ button \in BOOLEAN
          /\ menu \in BOOLEAN /\ popups \subseteq Requests /\ overtaken \in BOOLEAN
          /\ systemMessages \subseteq Messages /\ running \in BOOLEAN /\ connected \in BOOLEAN
      BY DEF Init
    <3>6. clicks \in 0..MaxClicks
      <4>1. 0 \in 0..MaxClicks
        BY BoundsAssumption
      <4> QED
        BY <4>1 DEF Init
    <3>2. pc \in Labels /\ back \in Labels /\ request \in Requests
      BY DEF Init, Labels, Requests, MidUpdate
    <3>3. /\ systemVariables \in [Keys -> Accounts \cup {None}] /\ internetClient \in Conn
          /\ data \in [login : Accounts \cup {None}, what : Accounts \cup {None}]
      BY <1>1 DEF Init, Nothing
    <3>4. /\ thread \in [Conn -> {"none", "loop", "lost", "signal", "done"}]
          /\ work_end_flag \in [Conn -> BOOLEAN] /\ sent_keepalive \in [Conn -> BOOLEAN]
          /\ up \in [Conn -> BOOLEAN]
      BY DEF Init
    <3>5. inbox \in [Conn -> Seq(Answers)] /\ receive_buffer \in [Conn -> Seq(Answers)]
      BY DEF Init
    <3> QED
      BY <3>1, <3>2, <3>3, <3>4, <3>5, <3>6 DEF TypeOK
  <2>2. todo \in Seq(Ops)
    BY DEF Init
  <2>3. /\ send_buffer \in [Conn -> Seq(Mail)] /\ outbox \in [Conn -> Seq(Mail)]
        /\ outbox \in [Conn -> Seq(Asked)]
    BY DEF Init
  <2> QED
    BY <2>1, <2>2, <2>3 DEF Shape, Init
<1>5. /\ "authenticated" \in Keys /\ "waiting" \in Keys
  BY DEF Keys
<1>6. ~Has("authenticated") /\ ~Has("waiting")
  BY <1>5 DEF Init, Has
<1>7. Told /\ ~MayAsk /\ ~MayReconnect /\ LoggedOut
  BY <1>1, <1>2, <1>3 DEF Init, Told, MayAsk, MayReconnect, LoggedOut
<1>8. Threads
  BY <1>1, <1>3, <1>7 DEF Init, Threads, OldThreadsAreDone, NotYetUsed, ShowingNone, ShowingLost
<1>9. Views
  BY <1>2, <1>7 DEF Init, Views
<1>10. Mailboxes
  <2>1. \A c \in Conn : FewOf(c)
    BY <1>3, NothingIn DEF FewOf, Few, AtMostOne
  <2>2. ASSUME NEW c \in Conn PROVE GreetingFirst(c)
    <3>1. Len(inbox[c]) = 0 /\ Len(receive_buffer[c]) = 0 /\ 1..0 = {}
      BY <1>3
    <3> QED
      BY <3>1 DEF GreetingFirst
  <2> QED
    BY <2>1, <2>2 DEF Mailboxes
<1>11. Answered
  BY <1>1, <1>3, NothingIn DEF Init, Answered, AnsweredOn
<1>12. Turns
  BY <1>6, <1>11 DEF Init, Turns
<1> QED
  BY <1>4, <1>8, <1>9, <1>10, <1>12 DEF IInv

LEMMA StutteringKeepsIInv ==
    ASSUME IInv, UNCHANGED vars
    PROVE  IInv'
<1>1. /\ UNCHANGED <<gui, shared, flags, sock, bufs, wires>>
      /\ pc' = pc /\ back' = back /\ request' = request /\ data' = data
  BY DEF vars, ctl
<1>2. Unmoved
  BY <1>1, ControllerMoves
<1>3. Shape'
  BY <1>1, ControllerShape, ShapeUnfolded DEF IInv
<1>4. Threads'
  BY <1>1, <1>2 DEF IInv, Threads, Unmoved, bufs, ShowingNone, ShowingLost
<1>5. Views'
  BY <1>1, <1>2 DEF IInv, Views, Has, Unmoved
<1>6. Turns'
  BY <1>1, <1>2 DEF IInv, Turns, Has, Unmoved
<1> QED
  BY <1>2, <1>3, <1>4, <1>5, <1>6 DEF IInv, Unmoved

LEMMA NextKeepsIInv ==
    ASSUME IInv, [Next]_vars
    PROVE  IInv'
<1>1. CASE GuiStep
  BY <1>1, GuiStepKeepsIInv
<1>2. CASE \/ \E a, b \in Accounts : ClickLogin(a, b)
           \/ ClickReconnect \/ ClickRefresh \/ ClickLogOut \/ CloseWindow \/ MainloopReturns
           \/ \E r \in {"CREATE_ACCOUNT", "EDIT_ACCOUNT"} : OpenPopup(r) \/ ClosePopup(r)
           \/ \E a \in Accounts : ClickCreate(a) \/ ClickEdit(a) \/ ClickDelete(a)
  BY <1>2, ClicksKeepIInv
<1>3. CASE Connection
  BY <1>3, ConnectionKeepsIInv
<1>4. CASE Read
  BY <1>4, ReadKeepsIInv
<1>5. CASE Login
  BY <1>5, LoginKeepsIInv
<1>6. CASE AccountOperations
  BY <1>6, AccountOperationsKeepIInv
<1>7. ASSUME NEW c \in Conn, SocketThread(c) PROVE IInv'
  BY <1>7, SocketThreadKeepsIInv
<1>8. ASSUME NEW c \in Conn, ServerReads(c) PROVE IInv'
  BY <1>8, ServerReadsKeepsIInv
<1>9. ASSUME NEW c \in Conn, ServerCloses(c) PROVE IInv'
  BY <1>9, ServerClosesKeepsIInv
<1>10. CASE UNCHANGED vars
  BY <1>10, StutteringKeepsIInv
<1> QED
  BY <1>1, <1>2, <1>3, <1>4, <1>5, <1>6, <1>7, <1>8, <1>9, <1>10 DEF Next, Gui, Controller

THEOREM Inductive == Spec => []IInv
<1>1. Init => IInv
  BY InitIInv
<1>2. IInv /\ [Next]_vars => IInv'
  BY NextKeepsIInv
<1> QED
  BY <1>1, <1>2, PTL DEF Spec

(* The variables keep their types, however many connections are made.       *)
THEOREM TypeCorrect == Spec => []TypeOK
<1>1. IInv => TypeOK
  BY DEF IInv, Shape
<1> QED
  BY <1>1, Inductive, PTL

(* A new connection never meets what the thread of an old one still had to  *)
(* tell: socket_client.run signals DISCONNECTED before the controller can   *)
(* be asked to reconnect.                                                   *)
THEOREM OldThreads == Spec => []OldThreadsAreDone
<1>1. IInv => OldThreadsAreDone
  BY DEF IInv, Threads, ShowingNone, ShowingLost
<1> QED
  BY <1>1, Inductive, PTL

(* No LOGIN is sent while another one waits for its answer: the waiting flag *)
(* and the two ways to a login (check_if_already_logged_in, handle_login)   *)
(* exclude each other.                                                      *)
THEOREM OneLogin == Spec => []OneLoginOutstanding
<1>1. ASSUME Mailboxes PROVE OneLoginOutstanding
  <2>1. ASSUME NEW c \in Conn, NEW p \in Outstanding(c), NEW q \in Outstanding(c) PROVE p = q
    <3> DEFINE A == Logins(send_buffer[c])  B == Logins(outbox[c])
               C == AnswersIn(inbox[c])     D == AnswersIn(receive_buffer[c])
    <3>1. Few(A, B, C, D)
      BY <1>1 DEF Mailboxes, FewOf
    <3>2. ASSUME NEW x \in Outstanding(c)
          PROVE  \/ \E i \in A : x = <<"unsent", i>>
                 \/ \E i \in B : x = <<"sent", i>>
                 \/ \E i \in C : x = <<"answered", i>>
                 \/ \E i \in D : x = <<"received", i>>
      <4>1. \/ x \in {"unsent"} \X A  \/ x \in {"sent"} \X B
            \/ x \in {"answered"} \X C \/ x \in {"received"} \X D
        BY DEF Outstanding
      <4> HIDE DEF A, B, C, D
      <4>2. x \in {"unsent"} \X A => \E i \in A : x = <<"unsent", i>>
        OBVIOUS
      <4>3. x \in {"sent"} \X B => \E i \in B : x = <<"sent", i>>
        OBVIOUS
      <4>4. x \in {"answered"} \X C => \E i \in C : x = <<"answered", i>>
        OBVIOUS
      <4>5. x \in {"received"} \X D => \E i \in D : x = <<"received", i>>
        OBVIOUS
      <4> QED
        BY <4>1, <4>2, <4>3, <4>4, <4>5
    <3> HIDE DEF A, B, C, D
    <3> QED
      BY <3>1, <3>2 DEF Few, AtMostOne
  <2> QED
    BY <2>1 DEF OneLoginOutstanding
<1>2. IInv => OneLoginOutstanding
  BY <1>1 DEF IInv
<1> QED
  BY <1>2, Inductive, PTL

(* Only a client that is logged in shows the administration page, whatever  *)
(* log_out, in the GUI's thread, and the controller do together, unless     *)
(* LogOut was clicked between the two calls of update_on_successful_login.  *)
THEOREM Administration == Spec => []AdministrationNeedsLogin
<1>1. ASSUME IInv, Idle PROVE ~WillShowLogin
  BY <1>1, NothingToDo DEF Idle
<1>2. IInv => AdministrationNeedsLogin
  BY <1>1 DEF IInv, Views, AdministrationNeedsLogin
<1> QED
  BY <1>2, Inductive, PTL
=============================================================================
