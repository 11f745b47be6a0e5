----------------------------- MODULE AdminClient -----------------------------
(***************************************************************************)
(* The administrator's client: the GUI in the main thread, the controller, *)
(* and a socket thread for each connection, over the buffers and the       *)
(* dictionary of utilities/locked_resources.py.                            *)
(*                                                                         *)
(* A step is one access to what the threads share.  A callback of the GUI  *)
(* is a list of such accesses; an update of the GUI by the controller is a *)
(* row of Tk calls, each of which waits until no callback runs, as Tk does *)
(* with calls from other threads: a callback may come between two.         *)
(*                                                                         *)
(* Messages travel whole: how SendBuffer and ReceiveBuffer cut them is not *)
(* modelled.  Time is not either: KeepAlive may find any time has passed.  *)
(*                                                                         *)
(* An operator X_Y is X with the fault Y put in; no specification uses it. *)
(***************************************************************************)
EXTENDS Integers, Sequences

CONSTANTS
    Accounts,        \* what is typed or selected: logins, passwords, accounts
    None,            \* Python's None
    MaxClicks,       \* bound: logins, logouts and requests clicked
    MaxConnections   \* bound: sockets created

ASSUME BoundsAssumption == MaxClicks \in Nat /\ MaxConnections \in Nat \ {0}
ASSUME AccountsAssumption == Accounts # {} /\ None \notin Accounts

Requests == {"CREATE_ACCOUNT", "EDIT_ACCOUNT", "DELETE_ACCOUNT", "REFRESH"}
Messages == Requests \cup {"LOGIN", "RECONNECT", "DISCONNECTED"}
Keys     == {"login", "password", "authenticated", "waiting"} \cup (Requests \ {"REFRESH"})
Yes      == CHOOSE a \in Accounts : TRUE  \* for True: only its presence counts

Conn == 1..MaxConnections

VARIABLES
    \* the GUI
    open,       \* the window is
    page,       \* the frame on top: start | login | admin
    button,     \* the reconnect button is on the start page
    menu,       \* the menu with LogOut is shown
    popups,     \* the popups that are open
    todo,       \* what the running callback has still to do
    clicks,     \* clicks so far
    overtaken,  \* history: LogOut was clicked amid the latest update of the GUI
    \* ClientController
    systemMessages, \* as a set: it is only asked for members and rid of them
    systemVariables,
    running, connected,
    pc, back,   \* where the controller is, and where it returns to
    request,    \* the request handle_account_operations has come to
    data,       \* what it has read
    \* socket_client, by connection
    internetClient, \* the latest
    thread,     \* none | loop | lost | signal | done
    work_end_flag, sent_keepalive, send_buffer, receive_buffer,
    \* the server's side
    up,         \* the server has the connection open
    inbox, outbox

gui    == <<open, page, button, menu, popups, todo, clicks, overtaken>>
shared == <<systemMessages, systemVariables>>
flags  == <<running, connected>>
ctl    == <<pc, back, request, data>>
sock   == <<internetClient, thread, work_end_flag, sent_keepalive>>
bufs   == <<send_buffer, receive_buffer>>
wires  == <<up, inbox, outbox>>
vars   == <<gui, shared, flags, ctl, sock, bufs, wires>>

Message(kind, what) == [kind |-> kind, what |-> what]
Answers == {"LOGIN_REQUEST", "LOGIN_REJECTED", "CLIENT_ID"}

(* Where an update of the GUI by the controller is under way. *)
MidUpdate == {"greet_clear", "shown_clear", "rejected_label", "welcome_page",
              "no_server_menu", "no_server_clear", "no_server_button",
              "lost_menu", "lost_clear", "lost_button"}

Labels == MidUpdate \cup
          {"first", "greet", "start_first", "no_server", "top", "create", "start",
           "shown", "clear_RECONNECT", "lost", "show_lost", "clear_DISCONNECTED",
           "read", "login_page", "auto", "auto_data", "rejected", "accepted", "welcome",
           "answered", "login", "check_login", "check_state", "get_login",
           "get_password", "send_login", "wait", "clear_LOGIN",
           "request", "pop", "send", "clear", "done", "dead"}

TypeOK ==
    /\ open \in BOOLEAN /\ page \in {"start", "login", "admin"}
    /\ button \in BOOLEAN /\ menu \in BOOLEAN /\ popups \subseteq Requests
    /\ clicks \in 0..MaxClicks /\ overtaken \in BOOLEAN
    /\ systemMessages \subseteq Messages
    /\ systemVariables \in [Keys -> Accounts \cup {None}]
    /\ running \in BOOLEAN /\ connected \in BOOLEAN
    /\ pc \in Labels /\ back \in Labels /\ request \in Requests
    /\ data \in [login : Accounts \cup {None}, what : Accounts \cup {None}]
    /\ internetClient \in Conn
    /\ thread \in [Conn -> {"none", "loop", "lost", "signal", "done"}]
    /\ work_end_flag \in [Conn -> BOOLEAN] /\ sent_keepalive \in [Conn -> BOOLEAN]
    /\ up \in [Conn -> BOOLEAN]
    /\ inbox \in [Conn -> Seq(Answers)] /\ receive_buffer \in [Conn -> Seq(Answers)]

Nothing == [login |-> None, what |-> None]

Init ==
    /\ open = TRUE /\ page = "start" /\ button = FALSE /\ menu = FALSE
    /\ popups = {} /\ todo = <<>> /\ clicks = 0 /\ overtaken = FALSE
    /\ systemMessages = {} /\ systemVariables = [k \in Keys |-> None]
    /\ running = TRUE /\ connected = FALSE
    /\ pc = "first" /\ back = "login"
    /\ request = "CREATE_ACCOUNT" /\ data = Nothing
    /\ internetClient = 1
    /\ thread = [c \in Conn |-> "none"]
    /\ work_end_flag = [c \in Conn |-> FALSE] /\ sent_keepalive = [c \in Conn |-> FALSE]
    /\ send_buffer = [c \in Conn |-> <<>>] /\ receive_buffer = [c \in Conn |-> <<>>]
    /\ up = [c \in Conn |-> FALSE]
    /\ inbox = [c \in Conn |-> <<>>] /\ outbox = [c \in Conn |-> <<>>]

Has(key) == systemVariables[key] # None
Write(key, value) == systemVariables' = [systemVariables EXCEPT ![key] = value]
Pop(key) == Write(key, None)

-----------------------------------------------------------------------------
(* The GUI.                                                                 *)

PutVar(key, value) == [op |-> "put", key |-> key, value |-> value]
PopVar(key)        == [op |-> "pop", key |-> key]
Signal(m)          == [op |-> "signal", message |-> m]

Idle == todo = <<>>

Callback(ops) ==
    /\ Idle
    /\ todo' = ops
    /\ UNCHANGED <<shared, flags, ctl, sock, bufs, wires>>

Counted == clicks < MaxClicks /\ clicks' = clicks + 1

Window == <<open, page, button, menu>>

ClickLogin(login, password) ==
    /\ open /\ page = "login" /\ Counted
    /\ Callback(<<PutVar("login", login), PutVar("password", password), Signal("LOGIN")>>)
    /\ UNCHANGED <<Window, popups, overtaken>>

ClickReconnect ==
    /\ open /\ page = "start" /\ button /\ "RECONNECT" \notin systemMessages
    /\ Callback(<<Signal("RECONNECT")>>)
    /\ UNCHANGED <<Window, popups, clicks, overtaken>>

(* A popup is a root of its own: it outlives the page it was opened from,   *)
(* and the window.  Bound: one at a time.                                   *)
OpenPopup(kind) ==
    /\ open /\ page = "admin" /\ popups = {} /\ popups' = {kind}
    /\ clicks < MaxClicks
    /\ Callback(<<>>)
    /\ UNCHANGED <<Window, clicks, overtaken>>

ClosePopup(kind) ==
    /\ kind \in popups /\ popups' = popups \ {kind}
    /\ Callback(<<>>)
    /\ UNCHANGED <<Window, clicks, overtaken>>

(* Creating puts the data first and signals then ... *)
ClickCreate(account) ==
    /\ "CREATE_ACCOUNT" \in popups /\ popups' = popups \ {"CREATE_ACCOUNT"} /\ Counted
    /\ Callback(<<PutVar("CREATE_ACCOUNT", account), Signal("CREATE_ACCOUNT")>>)
    /\ UNCHANGED <<Window, overtaken>>

(* ... editing and deleting signal first. *)
ClickEdit(account) ==
    /\ "EDIT_ACCOUNT" \in popups /\ popups' = popups \ {"EDIT_ACCOUNT"} /\ Counted
    /\ Callback(<<Signal("EDIT_ACCOUNT"), PutVar("EDIT_ACCOUNT", account)>>)
    /\ UNCHANGED <<Window, overtaken>>

ClickDelete(account) ==
    /\ open /\ page = "admin" /\ Counted
    /\ Callback(<<Signal("DELETE_ACCOUNT"), PutVar("DELETE_ACCOUNT", account)>>)
    /\ UNCHANGED <<Window, popups, overtaken>>

ClickRefresh ==
    /\ open /\ page = "admin" /\ Counted
    /\ Callback(<<Signal("REFRESH")>>)
    /\ UNCHANGED <<Window, popups, overtaken>>

LogOut_PageKept ==
    <<PopVar("authenticated"), PopVar("login"), PopVar("password"), [op |-> "log_out"]>>

(* ClientController.log_out, called from the GUI's thread. *)
LogOut ==
    <<PopVar("authenticated"), PopVar("login"), PopVar("password"),
      [op |-> "log_out"], [op |-> "login_page"]>>

ClickLogOut ==
    /\ open /\ menu /\ Counted
    /\ Callback(LogOut)
    /\ menu' = FALSE
    /\ overtaken' = (overtaken \/ pc \in MidUpdate)
    /\ UNCHANGED <<open, page, button, popups>>

CloseWindow ==
    /\ open /\ open' = FALSE
    /\ Callback(<<>>)
    /\ page' = "start" /\ button' = FALSE /\ menu' = FALSE
    /\ UNCHANGED <<popups, clicks, overtaken>>

(* mainloop(), that of a popup too, returns when the thread has no window   *)
(* left, and the program goes on with close_client_and_end_work, once.      *)
MainloopReturns ==
    /\ ~open /\ popups = {} /\ running
    /\ Callback(<<[op |-> "stop"], [op |-> "end_work"]>>)
    /\ UNCHANGED <<Window, popups, clicks, overtaken>>

(* A message for a thread that has ended goes where nobody reads it. *)
Ended(c) == thread[c] \in {"signal", "done"}
Send(c, m) ==
    send_buffer' = IF Ended(c) THEN send_buffer
                   ELSE [send_buffer EXCEPT ![c] = Append(@, m)]
Alive(c) == thread[c] \notin {"none", "done"}

(* Client.end_work; the client is the one of the moment it is called.       *)
EndWork(c) ==
    /\ work_end_flag' = [work_end_flag EXCEPT ![c] = TRUE]
    /\ IF Alive(c) THEN Send(c, Message("WORK_END", None)) ELSE UNCHANGED send_buffer

GuiStep ==
    /\ todo # <<>> /\ todo' = Tail(todo)
    /\ LET do == Head(todo) IN
       \/ /\ do.op = "put" /\ Write(do.key, do.value)
          /\ UNCHANGED <<page, systemMessages, running, sock, bufs>>
       \/ /\ do.op = "pop" /\ Pop(do.key)
          /\ UNCHANGED <<page, systemMessages, running, sock, bufs>>
       \/ /\ do.op = "signal" /\ systemMessages' = systemMessages \cup {do.message}
          /\ UNCHANGED <<page, systemVariables, running, sock, bufs>>
       \/ /\ do.op = "log_out" /\ Send(internetClient, Message("LOG_OUT", None))
          /\ UNCHANGED <<page, shared, running, sock, receive_buffer>>
       \/ /\ do.op = "login_page" /\ page' = "login"
          /\ UNCHANGED <<shared, running, sock, bufs>>
       \/ /\ do.op = "stop" /\ running' = FALSE
          /\ UNCHANGED <<page, shared, sock, bufs>>
       \/ /\ do.op = "end_work" /\ EndWork(internetClient)
          /\ UNCHANGED <<page, shared, running, internetClient, thread,
                         sent_keepalive, receive_buffer>>
    /\ UNCHANGED <<open, button, menu, popups, clicks, overtaken, connected, ctl, wires>>

Gui ==
    \/ GuiStep
    \/ \E a, b \in Accounts : ClickLogin(a, b)
    \/ ClickReconnect \/ ClickRefresh \/ ClickLogOut \/ CloseWindow \/ MainloopReturns
    \/ \E r \in {"CREATE_ACCOUNT", "EDIT_ACCOUNT"} : OpenPopup(r) \/ ClosePopup(r)
    \/ \E a \in Accounts : ClickCreate(a) \/ ClickEdit(a) \/ ClickDelete(a)

-----------------------------------------------------------------------------
(* The controller.                                                          *)

At(label)   == pc = label
Goto(label) == pc' = label
Keep        == UNCHANGED <<back, request, data>>

Test(label, condition, yes, no) ==
    /\ At(label) /\ Goto(IF condition THEN yes ELSE no) /\ Keep
    /\ UNCHANGED <<gui, shared, flags, sock, bufs, wires>>

(* A Tk call that updates the GUI, an error once the window is closed.  The *)
(* first call of an update begins its history anew.                         *)
Show(label, next, onTop, withButton, withMenu) ==
    /\ At(label) /\ (open => Idle) /\ Keep
    /\ IF open
       THEN /\ Goto(next)
            /\ page' = onTop /\ button' = withButton /\ menu' = withMenu
            /\ overtaken' = (overtaken /\ label \in MidUpdate)
            /\ UNCHANGED <<open, popups, todo, clicks>>
       ELSE Goto("dead") /\ UNCHANGED gui
    /\ UNCHANGED <<shared, flags, sock, bufs, wires>>

update_on_connection(label, clear, next) ==
    \/ Show(label, clear, "start", button, menu)
    \/ Show(clear, next, page, FALSE, menu)

update_on_no_server_connection(label, hide, clear, show, next) ==
    \/ Show(label, hide, "start", button, menu)
    \/ Show(hide, clear, page, button, FALSE)
    \/ Show(clear, show, page, FALSE, menu)
    \/ Show(show, next, page, TRUE, menu)

update_on_failed_login(label, clear, next) ==
    \/ Show(label, clear, "login", button, menu)
    \/ Show(clear, next, page, button, menu)

update_on_successful_login(label, show, next) ==
    \/ Show(label, show, page, button, TRUE)
    \/ Show(show, next, "admin", button, menu)

Without_Emptied(m) == {}

(* remove_all_occurences_of *)
Without(m) == systemMessages \ {m}

Remove(label, m, next) ==
    /\ At(label) /\ Goto(next) /\ Keep
    /\ systemMessages' = Without(m)
    /\ UNCHANGED <<gui, systemVariables, flags, sock, bufs, wires>>

(* connect(): the server greets whom it accepts. *)
Connects(c, success, failure) ==
    \/ /\ connected' = TRUE /\ Goto(success)
       /\ up' = [up EXCEPT ![c] = TRUE]
       /\ inbox' = [inbox EXCEPT ![c] = <<"LOGIN_REQUEST">>]
    \/ /\ connected' = FALSE /\ Goto(failure)
       /\ UNCHANGED <<up, inbox>>

FirstConnect ==
    /\ At("first") /\ Connects(1, "greet", "no_server") /\ Keep
    /\ UNCHANGED <<gui, shared, running, sock, bufs, outbox>>

(* No socket can be had: handle_failed_socket_creation ends the thread. *)
SocketFails ==
    /\ At("create") /\ Goto("dead") /\ Keep
    /\ UNCHANGED <<gui, shared, flags, sock, bufs, wires>>

(* reconnect(): create_internetClient and connect. *)
Reconnect ==
    /\ At("create") /\ internetClient < MaxConnections /\ Keep
    /\ internetClient' = internetClient + 1
    /\ Connects(internetClient + 1, "start", "clear_RECONNECT")
    /\ UNCHANGED <<gui, shared, running, thread, work_end_flag, sent_keepalive,
                   bufs, outbox>>

StartThread(label, next) ==
    /\ At(label) /\ Goto(next) /\ Keep
    /\ thread' = [thread EXCEPT ![internetClient] = "loop"]
    /\ UNCHANGED <<gui, shared, flags, internetClient, work_end_flag, sent_keepalive,
                   bufs, wires>>

MustShowLoss_FlagOnly == ~connected
MustShowLoss == ~connected /\ "DISCONNECTED" \in systemMessages

Connection_EndsWhenConnected ==
    \/ FirstConnect
    \/ update_on_connection("greet", "greet_clear", "start_first")
    \/ StartThread("start_first", "top")
    \/ update_on_no_server_connection("no_server", "no_server_menu", "no_server_clear",
                                      "no_server_button", "top")
    \/ /\ running \/ ~connected
       /\ Test("top", ~connected /\ "RECONNECT" \in systemMessages, "create", "lost")
    \/ ~running /\ connected /\ Test("top", TRUE, "done", "done")
    \/ Reconnect \/ SocketFails
    \/ StartThread("start", "shown")
    \/ update_on_connection("shown", "shown_clear", "clear_RECONNECT")
    \/ Remove("clear_RECONNECT", "RECONNECT", "lost")
    \/ Test("lost", MustShowLoss, "show_lost", "read")
    \/ update_on_no_server_connection("show_lost", "lost_menu", "lost_clear",
                                      "lost_button", "clear_DISCONNECTED")
    \/ Remove("clear_DISCONNECTED", "DISCONNECTED", "read")

(* run() and the first half of a pass of main_loop. *)
Connection ==
    \/ FirstConnect
    \/ update_on_connection("greet", "greet_clear", "start_first")
    \/ StartThread("start_first", "top")
    \/ update_on_no_server_connection("no_server", "no_server_menu", "no_server_clear",
                                      "no_server_button", "top")
    \/ /\ running
       /\ Test("top", ~connected /\ "RECONNECT" \in systemMessages, "create", "lost")
    \/ ~running /\ Test("top", TRUE, "done", "done")
    \/ Reconnect \/ SocketFails
    \/ StartThread("start", "shown")
    \/ update_on_connection("shown", "shown_clear", "clear_RECONNECT")
    \/ Remove("clear_RECONNECT", "RECONNECT", "lost")
    \/ Test("lost", MustShowLoss, "show_lost", "read")
    \/ update_on_no_server_connection("show_lost", "lost_menu", "lost_clear",
                                      "lost_button", "clear_DISCONNECTED")
    \/ Remove("clear_DISCONNECTED", "DISCONNECTED", "read")

MessageLabel(answer) == CASE answer = "LOGIN_REQUEST"  -> "login_page"
                          [] answer = "LOGIN_REJECTED" -> "rejected"
                          [] answer = "CLIENT_ID"      -> "accepted"

(* read_incoming_message_and_process *)
Read ==
    /\ At("read") /\ Keep
    /\ LET received == receive_buffer[internetClient] IN
       IF connected /\ received # <<>>
       THEN /\ Goto(MessageLabel(Head(received)))
            /\ receive_buffer' = [receive_buffer EXCEPT ![internetClient] = Tail(@)]
       ELSE /\ Goto(IF connected THEN "login" ELSE "top")
            /\ UNCHANGED receive_buffer
    /\ UNCHANGED <<gui, shared, flags, sock, send_buffer, wires>>

SetVariable(label, key, value, next) ==
    /\ At(label) /\ Goto(next) /\ Keep
    /\ Write(key, value)
    /\ UNCHANGED <<gui, systemMessages, flags, sock, bufs, wires>>

(* get_element: a KeyError, which ends the thread, when there is none.      *)
GetElement(label, key, field, next) ==
    /\ At(label) /\ UNCHANGED <<back, request>>
    /\ IF Has(key)
       THEN Goto(next) /\ data' = [data EXCEPT ![field] = systemVariables[key]]
       ELSE Goto("dead") /\ UNCHANGED data
    /\ UNCHANGED <<gui, shared, flags, sock, bufs, wires>>

Return(label) ==
    /\ At(label) /\ Goto(back) /\ data' = Nothing /\ UNCHANGED <<back, request>>
    /\ Write("waiting", Yes)
    /\ UNCHANGED <<gui, systemMessages, flags, sock, bufs, wires>>

SendLogin ==
    /\ At("send_login") /\ Goto("wait") /\ Keep
    /\ Send(internetClient, Message("LOGIN", data))
    /\ UNCHANGED <<gui, shared, flags, sock, receive_buffer, wires>>

(* The login and the password are put, and popped, one after the other and  *)
(* in the same order as they are looked for: one look is as good as two.    *)
HasLogin == Has("login") /\ Has("password")

LoginFrom(label, condition, caller, no) ==
    /\ At(label)
    /\ IF condition THEN Goto("get_login") /\ back' = caller
                    ELSE Goto(no) /\ UNCHANGED back
    /\ UNCHANGED <<request, data, gui, shared, flags, sock, bufs, wires>>

MayLogIn_Again == ~Has("authenticated")
MayLogIn == ~Has("waiting") /\ ~Has("authenticated")

(* The answers of the server, the login they may bring about by themselves  *)
(* (check_if_already_logged_in), and handle_login.                          *)
Login ==
    \/ Show("login_page", "auto", "login", button, menu)
    \/ Test("auto", Has("authenticated"), "auto_data", "login")
    \/ LoginFrom("auto_data", HasLogin, "login", "login")
    \/ update_on_failed_login("rejected", "rejected_label", "answered")
    \/ SetVariable("accepted", "authenticated", Yes, "welcome")
    \/ update_on_successful_login("welcome", "welcome_page", "answered")
    \/ SetVariable("answered", "waiting", None, "login")
    \/ Test("login", "LOGIN" \in systemMessages, "check_login", "request")
    \/ Test("check_login", HasLogin, "check_state", "request")
    \/ LoginFrom("check_state", MayLogIn, "clear_LOGIN", "clear_LOGIN")
    \/ GetElement("get_login", "login", "login", "get_password")
    \/ GetElement("get_password", "password", "what", "send_login")
    \/ SendLogin
    \/ Return("wait")
    \/ Remove("clear_LOGIN", "LOGIN", "request")

After_LoginToo(r) == CASE r = "CREATE_ACCOUNT" -> "EDIT_ACCOUNT"
                       [] r = "EDIT_ACCOUNT"   -> "DELETE_ACCOUNT"
                       [] r = "DELETE_ACCOUNT" -> "LOGIN"
                       [] r = "LOGIN"          -> "REFRESH"
                       [] r = "REFRESH"        -> "CREATE_ACCOUNT"

(* The order in which handle_account_operations looks for requests. *)
After(r) == CASE r = "CREATE_ACCOUNT" -> "EDIT_ACCOUNT"
              [] r = "EDIT_ACCOUNT"   -> "DELETE_ACCOUNT"
              [] r = "DELETE_ACCOUNT" -> "REFRESH"
              [] r = "REFRESH"        -> "CREATE_ACCOUNT"

GoOn ==
    /\ request' = After(request)
    /\ Goto(IF request = "REFRESH" THEN "top" ELSE "request")

LookFor ==
    /\ At("request") /\ UNCHANGED <<back, data>>
    /\ IF request \in systemMessages THEN Goto("pop") /\ UNCHANGED request ELSE GoOn
    /\ UNCHANGED <<gui, shared, flags, sock, bufs, wires>>

(* The data of a request.  Unpacking None is an error, which ends the       *)
(* thread; a deletion of None is sent as it is.                             *)
PopData ==
    /\ At("pop") /\ UNCHANGED <<back, request>>
    /\ IF request = "REFRESH"
       THEN Goto("send") /\ UNCHANGED <<data, systemVariables>>
       ELSE /\ data' = [data EXCEPT !.what = systemVariables[request]]
            /\ Pop(request)
            /\ Goto(IF request # "DELETE_ACCOUNT" /\ ~Has(request) THEN "dead" ELSE "send")
    /\ UNCHANGED <<gui, systemMessages, flags, sock, bufs, wires>>

SendRequest ==
    /\ At("send") /\ Goto("clear")
    /\ data' = Nothing /\ UNCHANGED <<back, request>>
    /\ Send(internetClient, Message(request, data.what))
    /\ UNCHANGED <<gui, shared, flags, sock, receive_buffer, wires>>

ClearRequest ==
    /\ At("clear") /\ GoOn /\ UNCHANGED <<back, data>>
    /\ systemMessages' = Without(request)
    /\ UNCHANGED <<gui, systemVariables, flags, sock, bufs, wires>>

(* handle_account_operations *)
AccountOperations == LookFor \/ PopData \/ SendRequest \/ ClearRequest

Controller == Connection \/ Read \/ Login \/ AccountOperations

-----------------------------------------------------------------------------
(* The socket threads.  A pass of send_receive_loop updates the KeepAlive,  *)
(* receives, sends and looks whether work ends; select() decides which of   *)
(* the two in the middle there is, so that a step is one of the four.       *)

Loops(c) == thread[c] = "loop"
Then(c, part) == thread' = [thread EXCEPT ![c] = part]

(* KeepAlive.update: half the time is over, or all of it. *)
KeepAlive(c) ==
    /\ Loops(c)
    /\ IF sent_keepalive[c]
       THEN Then(c, "lost") /\ UNCHANGED <<sent_keepalive, send_buffer>>
       ELSE /\ sent_keepalive' = [sent_keepalive EXCEPT ![c] = TRUE]
            /\ Send(c, Message("KEEP_ALIVE", None))
            /\ UNCHANGED thread
    /\ UNCHANGED <<gui, shared, flags, ctl, internetClient, work_end_flag,
                   receive_buffer, wires>>

Receive(c) ==
    /\ Loops(c)
    /\ \/ /\ inbox[c] # <<>>
          /\ inbox' = [inbox EXCEPT ![c] = Tail(@)]
          /\ receive_buffer' = [receive_buffer EXCEPT ![c] = Append(@, Head(inbox[c]))]
          /\ sent_keepalive' = [sent_keepalive EXCEPT ![c] = FALSE]
          /\ UNCHANGED thread
       \/ /\ inbox[c] = <<>> /\ ~up[c] /\ Then(c, "lost")
          /\ UNCHANGED <<inbox, receive_buffer, sent_keepalive>>
    /\ UNCHANGED <<gui, shared, flags, ctl, internetClient, work_end_flag,
                   send_buffer, up, outbox>>

(* What is sent to a server that has closed is lost, or is an error.  Of     *)
(* what the server gets, only a LOGIN makes a difference to this client.     *)
SendOne(c) ==
    /\ Loops(c) /\ send_buffer[c] # <<>>
    /\ \/ /\ send_buffer' = [send_buffer EXCEPT ![c] = Tail(@)]
          /\ outbox' = IF up[c] /\ Head(send_buffer[c]).kind = "LOGIN"
                       THEN [outbox EXCEPT ![c] = Append(@, Head(send_buffer[c]))]
                       ELSE outbox
          /\ UNCHANGED thread
       \/ ~up[c] /\ Then(c, "lost") /\ UNCHANGED <<send_buffer, outbox>>
    /\ UNCHANGED <<gui, shared, flags, ctl, internetClient, work_end_flag, sent_keepalive,
                   receive_buffer, up, inbox>>

WorkEnd(c) ==
    /\ Loops(c) /\ work_end_flag[c] /\ send_buffer[c] = <<>>
    /\ Then(c, "done")
    /\ UNCHANGED <<gui, shared, flags, ctl, internetClient, work_end_flag, sent_keepalive,
                   bufs, wires>>

(* run()'s handlers: the socket is closed and the controller told, in two   *)
(* steps.  Nobody reads the buffers after the first.                        *)
Lost(c) ==
    /\ thread[c] = "lost" /\ Then(c, "signal")
    /\ connected' = FALSE
    /\ up' = [up EXCEPT ![c] = FALSE]
    /\ sent_keepalive' = [sent_keepalive EXCEPT ![c] = FALSE]
    /\ send_buffer' = [send_buffer EXCEPT ![c] = <<>>]
    /\ receive_buffer' = [receive_buffer EXCEPT ![c] = <<>>]
    /\ inbox' = [inbox EXCEPT ![c] = <<>>] /\ outbox' = [outbox EXCEPT ![c] = <<>>]
    /\ UNCHANGED <<gui, shared, running, ctl, internetClient, work_end_flag>>

SignalLost(c) ==
    /\ thread[c] = "signal" /\ Then(c, "done")
    /\ systemMessages' = systemMessages \cup {"DISCONNECTED"}
    /\ UNCHANGED <<gui, systemVariables, flags, ctl, internetClient, work_end_flag,
                   sent_keepalive, bufs, wires>>

SocketThread(c) ==
    KeepAlive(c) \/ Receive(c) \/ SendOne(c) \/ WorkEnd(c) \/ Lost(c) \/ SignalLost(c)

-----------------------------------------------------------------------------
(* The server answers a login, or takes it without an answer, as the one in *)
(* src/server does when it has let the client in before; it may close at    *)
(* any time.                                                                *)

ServerReads(c) ==
    /\ up[c] /\ outbox[c] # <<>>
    /\ outbox' = [outbox EXCEPT ![c] = Tail(@)]
    /\ \/ \E answer \in {"LOGIN_REJECTED", "CLIENT_ID"} :
             inbox' = [inbox EXCEPT ![c] = Append(@, answer)]
       \/ UNCHANGED inbox
    /\ UNCHANGED <<gui, shared, flags, ctl, sock, bufs, up>>

ServerCloses(c) ==
    /\ up[c]
    /\ up' = [up EXCEPT ![c] = FALSE]
    /\ UNCHANGED <<gui, shared, flags, ctl, sock, bufs, inbox, outbox>>

-----------------------------------------------------------------------------
Next ==
    \/ Gui
    \/ Controller
    \/ \E c \in Conn : SocketThread(c) \/ ServerReads(c) \/ ServerCloses(c)

Spec == Init /\ [][Next]_vars

(* The threads are scheduled and callbacks run to their end; nobody has to  *)
(* click, the server need not answer, and no connection has to time out.    *)
Fairness ==
    /\ WF_vars(GuiStep \/ MainloopReturns)
    /\ WF_vars(Controller)
    /\ \A c \in Conn :
          WF_vars(Receive(c) \/ SendOne(c) \/ WorkEnd(c) \/ Lost(c) \/ SignalLost(c))

FairSpec == Spec /\ Fairness

-----------------------------------------------------------------------------
(* Safety.                                                                  *)

(* When a connection is made, the thread of the one before has told all it  *)
(* had to tell: a new connection is never taken for lost, nor the reconnect *)
(* button shown, because of an old one.                                     *)
OldThreadsAreDone ==
    \A c \in Conn : c < internetClient => thread[c] \in {"none", "done"}

Logins(ms)    == {i \in DOMAIN ms : ms[i].kind = "LOGIN"}
AnswersIn(ms) == {i \in DOMAIN ms : ms[i] # "LOGIN_REQUEST"}

(* The LOGINs of a connection that the controller has no answer to yet, and  *)
(* their answers, by the place where they are.                               *)
Outstanding(c) ==
    ({"unsent"} \X Logins(send_buffer[c])) \cup ({"sent"} \X Logins(outbox[c]))
    \cup ({"answered"} \X AnswersIn(inbox[c]))
    \cup ({"received"} \X AnswersIn(receive_buffer[c]))

(* However often the user clicks, and whatever the automatic login does, no *)
(* LOGIN is sent while another waits for its answer on the same connection. *)
OneLoginOutstanding == \A c \in Conn : \A p, q \in Outstanding(c) : p = q

(* The administration page is on top only for a client that is logged in,   *)
(* whatever log_out, in the GUI's thread, and the controller do together,   *)
(* unless the log-out came between the two calls of                         *)
(* update_on_successful_login, which raises the page afterwards.            *)
AdministrationNeedsLogin ==
    Idle /\ page = "admin" /\ ~overtaken => Has("authenticated")

-----------------------------------------------------------------------------
(* Liveness.                                                                *)

Offered == page = "start" /\ button

(* A lost connection is shown, and another one offered, however the loss    *)
(* falls together with the user's clicks and with a reconnection under way: *)
(* unless the window is closed, or an error has ended the controller, or a  *)
(* log-out amid the update has raised its own page over the button.         *)
LostIsOffered ==
    (running /\ ~connected) ~>
        (connected \/ Offered \/ (button /\ overtaken) \/ ~open \/ At("dead"))

(* Once the window and the popups are closed the controller comes to its    *)
(* end, wherever it was, and so does a socket thread that was told to end:  *)
(* end_work tells the client of the moment, and one that the controller,    *)
(* past its test of running, makes after that is told by nobody.            *)
ClosingEnds ==
    (~open /\ popups = {}) ~> /\ pc \in {"done", "dead"}
                              /\ \A c \in Conn : work_end_flag[c] => ~Loops(c)
=============================================================================
