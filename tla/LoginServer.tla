----------------------------- MODULE LoginServer -----------------------------
(***************************************************************************)
(* The server from accept() to the CLIENT_ID of a client that has logged   *)
(* in: the select loop of Server::run, the accept loop, client_login with  *)
(* its partial sends and receives, and the bookkeeping of ClientsMonitor,  *)
(* RecvBuffers, LoginHandler and Networking for each descriptor, with the  *)
(* clients at the other ends of the sockets.                               *)
(*                                                                         *)
(* The server has one thread.  One of its steps is one call on a socket    *)
(* and everything the program does before the next such call; between two  *)
(* of them only the network and the clients move.                          *)
(*                                                                         *)
(* What a client does once it has its CLIENT_ID, editing, is the subject   *)
(* of SharedNotepad: here it stays silent until it leaves.                 *)
(*                                                                         *)
(* Every accepted socket is non-blocking here.  In the program, when the   *)
(* ioctl() of an accepted socket fails (CallsMayFail), the socket stays    *)
(* open and blocking, and a later call on it may hold up all the others.   *)
(*                                                                         *)
(* An operator X_Y is X with the fault Y put in; no specification uses it. *)
(***************************************************************************)
EXTENDS Accounts, FiniteSets

CONSTANTS
    Fd,             \* the descriptors accept() may return
    Listening,      \* the descriptor of the listening socket
    HeaderSize,     \* Header::header_size: 6 in the code
    LoginLen,       \* the length of the body of a LOGIN message
    SndBuf,         \* the bytes a socket takes before send() would block
    MaxClients,     \* bound: clients connected or connecting at one time
    Attempts,       \* what clients present as login and password
    InitialUsers,   \* the lines of the users file at the start
    Late,           \* bound: the descriptors whose client may keep its
                    \* connection alive before it logs in
    CallsMayFail    \* whether accept and setsockopt may fail at any time

ASSUME FdAssumption ==
    /\ Fd \subseteq Nat /\ Fd # {}
    /\ Listening \in Nat
    /\ \A fd \in Fd : Listening < fd /\ fd < 1024
ASSUME SizeAssumption ==
    /\ HeaderSize \in Nat \ {0}
    /\ LoginLen \in Nat \ {0}
    /\ SndBuf \in Nat \ {0}
    /\ MaxClients \in Nat
ASSUME LoginAssumption ==
    /\ Attempts \subseteq LoginInfo
    /\ InitialUsers \in Seq(LoginInfo)
    /\ Late \subseteq Fd /\ CallsMayFail \in BOOLEAN

(* Message types and statements. *)
LOGIN     == 0
STATEMENT == 1
CLIENT_ID == 4
LOGIN_REQ == 1
LOGIN_REJ == 3

(* serv_func.cpp: the number of decimal digits, for n below FD_SETSIZE. *)
get_byte_width(n) ==
    IF n < 10 THEN 1 ELSE IF n < 100 THEN 2 ELSE IF n < 1000 THEN 3 ELSE 4

Header(type, len) == [kind |-> "HEADER", type |-> type, len |-> len]
Statement(info)   == [kind |-> "STATEMENT", info |-> info]
ClientID(id)      == [kind |-> "CLIENT_ID", info |-> id]
Login(attempt)    == [kind |-> "LOGIN", attempt |-> attempt]

(* The length of get_string_rep(), in bytes. *)
Size(m) ==
    CASE m.kind = "HEADER" -> HeaderSize
      [] m.kind = "LOGIN"  -> LoginLen
      [] OTHER             -> get_byte_width(m.info)

(* The bytes of a message: which message each is of, and its place in it. *)
Bytes(m) == [i \in 1..Size(m) |-> [msg |-> m, at |-> i]]

Smaller(a, b) == IF a <= b THEN a ELSE b
First(s, n) == SubSeq(s, 1, n)
Rest(s, n)  == SubSeq(s, n + 1, Len(s))

VARIABLES
    \* the process
    pc,           \* select | scan | accept | in | out | stopped | aborted
    current_desc, \* the descriptor a handler is working on
    read_set, write_set, \* what select() reported and the scan has not visited
    run_server, max_sd, master,
    \* ClientsMonitor::clients_state; read_state is "NONE" when there is no entry
    read_state, read_bytes, write_state, write_bytes,
    logged_clients,  \* the keys of logged_clients ...
    accept_sent,     \* ... and those whose value is true
    rejected_logins,
    buffers,      \* RecvBuffers
    netstate,     \* the keys of Networking::netstate
    users,        \* the users file
    \* the network and the clients
    backlog,      \* connections not accepted yet
    peer,         \* none | open | left | reset: the other end of a descriptor
    inbox,        \* bytes that have arrived at the server
    outbox,       \* bytes sent that the client has not read
    got,          \* what the client has read of the frame it is reading
    draft,        \* what it has still to write of the frame it is sending
    prompted,     \* clients that hold a LOGIN_REQ or LOGIN_REJ to answer
    kept,         \* ... and those that have kept the connection alive since
    members,      \* clients that hold a CLIENT_ID
    verified      \* auxiliary: connections on which check_login said CORRECT

process == <<pc, current_desc, read_set, write_set, run_server, max_sd, master>>
states  == <<read_state, read_bytes, write_state, write_bytes>>
logins  == <<logged_clients, accept_sent, rejected_logins, netstate, users, verified>>
wires   == <<backlog, peer, inbox, outbox>>
client  == <<got, draft, prompted, kept, members>>
vars    == <<process, states, logins, buffers, wires, client>>

-----------------------------------------------------------------------------
ReadStates  == {"NONE", "IDLE", "HEADER_TO_RECV", "HEADER_RECVD", "MSG_RECVD"}
WriteStates == {"NONE", "HEADER_TO_SEND", "HEADER_SENT", "MSG_SENT"}

Headers == [kind : {"HEADER"}, type : {LOGIN, STATEMENT, CLIENT_ID}, len : Nat]
ServerMsgs == Headers \cup [kind : {"STATEMENT"}, info : {LOGIN_REQ, LOGIN_REJ}]
                      \cup [kind : {"CLIENT_ID"}, info : Fd]
ClientMsgs == Headers \cup [kind : {"LOGIN"}, attempt : Attempts]
Byte(Msgs) == [msg : Msgs, at : Nat]

TypeOK ==
    /\ pc \in {"select", "scan", "accept", "in", "out", "stopped", "aborted"}
    /\ current_desc \in Fd \cup {Listening}
    /\ read_set \subseteq Fd \cup {Listening} /\ write_set \subseteq Fd
    /\ run_server \in BOOLEAN
    /\ max_sd \in Fd \cup {Listening}
    /\ master \subseteq Fd
    /\ read_state \in [Fd -> ReadStates] /\ read_bytes \in [Fd -> Nat]
    /\ write_state \in [Fd -> WriteStates] /\ write_bytes \in [Fd -> Nat]
    /\ logged_clients \subseteq Fd /\ accept_sent \subseteq Fd
    /\ rejected_logins \subseteq Fd
    /\ buffers \in [Fd -> Seq(Byte(ClientMsgs))]
    /\ netstate \subseteq Fd
    /\ users \in Seq(LoginInfo)
    /\ backlog \in 0..MaxClients
    /\ peer \in [Fd -> {"none", "open", "left", "reset"}]
    /\ inbox \in [Fd -> Seq(Byte(ClientMsgs))]
    /\ outbox \in [Fd -> Seq(Byte(ServerMsgs))]
    /\ got \in [Fd -> Seq(Byte(ServerMsgs))]
    /\ draft \in [Fd -> Seq(Byte(ClientMsgs))]
    /\ prompted \subseteq Fd /\ kept \subseteq Fd /\ members \subseteq Fd
    /\ verified \subseteq Fd

Init ==
    /\ pc = "select" /\ current_desc = Listening
    /\ read_set = {} /\ write_set = {}
    /\ run_server = TRUE /\ max_sd = Listening /\ master = {}
    /\ read_state = [fd \in Fd |-> "NONE"] /\ read_bytes = [fd \in Fd |-> 0]
    /\ write_state = [fd \in Fd |-> "NONE"] /\ write_bytes = [fd \in Fd |-> 0]
    /\ logged_clients = {} /\ accept_sent = {} /\ rejected_logins = {}
    /\ buffers = [fd \in Fd |-> <<>>]
    /\ netstate = {} /\ users = InitialUsers /\ verified = {}
    /\ backlog = 0 /\ peer = [fd \in Fd |-> "none"]
    /\ inbox = [fd \in Fd |-> <<>>] /\ outbox = [fd \in Fd |-> <<>>]
    /\ got = [fd \in Fd |-> <<>>] /\ draft = [fd \in Fd |-> <<>>]
    /\ prompted = {} /\ kept = {} /\ members = {}

-----------------------------------------------------------------------------
(* Server::run: one round of select() and the scan of what it reported.     *)

Readable_NoListening == {fd \in master : inbox[fd] # <<>> \/ peer[fd] \in {"left", "reset"}}

Readable == {fd \in master : inbox[fd] # <<>> \/ peer[fd] \in {"left", "reset"}}
            \cup (IF backlog > 0 THEN {Listening} ELSE {})

ToWrite_HeadersOnly == {fd \in Fd : /\ write_state[fd] = "HEADER_TO_SEND"
                                    /\ fd \notin accept_sent}

(* The descriptors run() puts in write_set.  A logged client is put there   *)
(* when it has something queued, which only editing brings about.            *)
ToWrite == {fd \in Fd : /\ write_state[fd] \in {"HEADER_TO_SEND", "HEADER_SENT"}
                        /\ fd \notin accept_sent}

Writable == {fd \in ToWrite : peer[fd] = "open" => Len(outbox[fd]) < SndBuf}

(* select() is asked about descriptors up to max_sd + 1. *)
Select ==
    /\ pc = "select" /\ run_server
    /\ \E fd \in Readable \cup Writable : fd <= max_sd + 1
    /\ read_set' = {fd \in Readable : fd <= max_sd + 1}
    /\ write_set' = {fd \in Writable : fd <= max_sd + 1}
    /\ pc' = "scan"
    /\ UNCHANGED <<current_desc, run_server, max_sd, master,
                   states, logins, buffers, wires, client>>

(* The scan goes up to max_sd, as it is when the scan gets there. *)
Ready == {fd \in read_set \cup write_set : fd <= max_sd}
IsNext(fd) == fd \in Ready /\ \A other \in Ready : fd <= other

VisitReadable(fd) ==
    /\ pc = "scan" /\ fd \in read_set /\ IsNext(fd)
    /\ read_set' = read_set \ {fd}
    /\ IF fd = Listening THEN pc' = "accept" /\ UNCHANGED current_desc
       ELSE IF fd \notin logged_clients \/ read_state[fd] # "IDLE"
            THEN pc' = "in" /\ current_desc' = fd
            ELSE UNCHANGED <<pc, current_desc>>
    /\ UNCHANGED <<write_set, run_server, max_sd, master,
                   states, logins, buffers, wires, client>>

VisitWritable(fd) ==
    /\ pc = "scan" /\ fd \in write_set \ read_set /\ IsNext(fd)
    /\ write_set' = write_set \ {fd}
    /\ IF write_state[fd] \in {"HEADER_TO_SEND", "HEADER_SENT"}
       THEN pc' = "out" /\ current_desc' = fd
       ELSE UNCHANGED <<pc, current_desc>>
    /\ UNCHANGED <<read_set, run_server, max_sd, master,
                   states, logins, buffers, wires, client>>

(* The scan is over; after a failed accept() the loop ends with cleanup(). *)
EndRound ==
    /\ pc = "scan" /\ Ready = {}
    /\ pc' = IF run_server THEN "select" ELSE "stopped"
    /\ read_set' = {} /\ write_set' = {}
    /\ UNCHANGED <<current_desc, run_server, max_sd, master,
                   states, logins, buffers, wires, client>>

-----------------------------------------------------------------------------
(* handle_new_connection: accept() until it would block.                    *)

Free == {fd \in Fd : peer[fd] = "none"}

(* add_new_cli: inserts, so that an entry that exists already is kept. *)
add_new_cli(fd) ==
    IF read_state[fd] = "NONE"
    THEN /\ read_state' = [read_state EXCEPT ![fd] = "IDLE"]
         /\ read_bytes' = [read_bytes EXCEPT ![fd] = 0]
         /\ write_state' = [write_state EXCEPT ![fd] = "HEADER_TO_SEND"]
         /\ write_bytes' = [write_bytes EXCEPT ![fd] = HeaderSize]
    ELSE UNCHANGED states

Accepted_MaxKept(fd) == pc' = "accept" /\ UNCHANGED max_sd

(* The options of the new socket are set: max_sd is raised, and accept() tried again. *)
Accepted(fd) ==
    /\ max_sd' = IF fd > max_sd THEN fd ELSE max_sd
    /\ pc' = "accept"

(* The kernel gives the lowest free descriptor.  When an option cannot be    *)
(* set the loop is left before max_sd is raised.                             *)
Accept(fd, optionsSet) ==
    /\ pc = "accept" /\ backlog > 0
    /\ fd \in Free /\ \A other \in Free : fd <= other
    /\ backlog' = backlog - 1
    /\ peer' = [peer EXCEPT ![fd] = "open"]
    /\ master' = master \cup {fd}
    /\ add_new_cli(fd)
    /\ IF optionsSet THEN Accepted(fd)
       ELSE CallsMayFail /\ pc' = "scan" /\ UNCHANGED max_sd
    /\ UNCHANGED <<current_desc, read_set, write_set, run_server,
                   logins, buffers, inbox, outbox, client>>

(* Any failure but EWOULDBLOCK stops the server: no descriptor is left, or   *)
(* the kernel has no memory for the connection.                              *)
AcceptFails ==
    /\ pc = "accept" /\ backlog > 0 /\ (Free = {} \/ CallsMayFail)
    /\ run_server' = FALSE
    /\ pc' = "scan"
    /\ UNCHANGED <<current_desc, read_set, write_set, max_sd, master,
                   states, logins, buffers, wires, client>>

AcceptedAll ==
    /\ pc = "accept" /\ backlog = 0
    /\ run_server' = TRUE
    /\ pc' = "scan"
    /\ UNCHANGED <<current_desc, read_set, write_set, max_sd, master,
                   states, logins, buffers, wires, client>>
-----------------------------------------------------------------------------
(* The handlers.  fd is current_desc; in the login branch both run          *)
(* client_login, which does what the read and write states ask for.         *)

Handling(fd) == pc \in {"in", "out"} /\ fd = current_desc
LoggingIn(fd) == Handling(fd) /\ fd \notin accept_sent

(* The handler returns to the scan. *)
Leave == pc' = "scan" /\ UNCHANGED current_desc
(* The handler goes round its loop. *)
Stay  == UNCHANGED <<pc, current_desc>>

UnchangedScan == UNCHANGED <<read_set, write_set, run_server, max_sd>>

(* RecvBuffers::clear_buff, and delete_buff, which leaves no bytes either.   *)
clear_buff(fd) == buffers' = [buffers EXCEPT ![fd] = <<>>]

(* ClientsMonitor::remove_socket. *)
remove_socket_KeepsLogin(fd) ==
    /\ read_state' = [read_state EXCEPT ![fd] = "NONE"]
    /\ read_bytes' = [read_bytes EXCEPT ![fd] = 0]
    /\ write_state' = [write_state EXCEPT ![fd] = "NONE"]
    /\ write_bytes' = [write_bytes EXCEPT ![fd] = 0]
    /\ rejected_logins' = rejected_logins \ {fd}
    /\ UNCHANGED <<logged_clients, accept_sent>>

remove_socket(fd) ==
    /\ read_state' = [read_state EXCEPT ![fd] = "NONE"]
    /\ read_bytes' = [read_bytes EXCEPT ![fd] = 0]
    /\ write_state' = [write_state EXCEPT ![fd] = "NONE"]
    /\ write_bytes' = [write_bytes EXCEPT ![fd] = 0]
    /\ logged_clients' = logged_clients \ {fd}
    /\ accept_sent' = accept_sent \ {fd}
    /\ rejected_logins' = rejected_logins \ {fd}

(* The socket is closed, and what it held and its client are gone.           *)
Disconnect(fd) ==
    /\ peer' = [peer EXCEPT ![fd] = "none"]
    /\ inbox' = [inbox EXCEPT ![fd] = <<>>]
    /\ outbox' = [outbox EXCEPT ![fd] = <<>>]
    /\ got' = [got EXCEPT ![fd] = <<>>]
    /\ draft' = [draft EXCEPT ![fd] = <<>>]
    /\ prompted' = prompted \ {fd}
    /\ kept' = kept \ {fd}
    /\ members' = members \ {fd}
    /\ verified' = verified \ {fd}

(* The end of handle_existing_incoming_connection.  Server::remove_socket    *)
(* looks for a new maximum in a copy of max_sd; Networking keeps its entries. *)
Close(fd) ==
    /\ remove_socket(fd)
    /\ clear_buff(fd)
    /\ master' = master \ {fd}
    /\ Disconnect(fd)
    /\ UNCHANGED <<netstate, users, backlog>>

GiveUp_NeverCloses(fd) ==
    /\ Leave /\ UnchangedScan
    /\ UNCHANGED <<master, states, logins, buffers, wires, client>>

(* client_login returned less than -1: the incoming handler closes the      *)
(* connection, the outgoing one only logs an error.                         *)
GiveUp(fd) ==
    /\ Leave /\ UnchangedScan
    /\ IF pc = "in" THEN Close(fd)
       ELSE UNCHANGED <<master, states, logins, buffers, wires, client>>

(* get_login_state: the message to send next, and the length to announce.   *)
get_login_state(fd) ==
    CASE read_state[fd] = "IDLE" ->
            [type |-> STATEMENT, len |-> get_byte_width(LOGIN_REQ),
             body |-> Statement(LOGIN_REQ)]
      [] read_state[fd] # "IDLE" /\ fd \in logged_clients /\ fd \notin accept_sent ->
            [type |-> CLIENT_ID, len |-> get_byte_width(fd), body |-> ClientID(fd)]
      [] read_state[fd] # "IDLE" /\ fd \notin logged_clients /\ fd \in rejected_logins ->
            [type |-> STATEMENT, len |-> get_byte_width(LOGIN_REJ),
             body |-> Statement(LOGIN_REJ)]
      [] OTHER -> [type |-> -2, len |-> -1, body |-> Statement(-1)]

(* What client_login sends in the state fd is in. *)
Outgoing(fd) ==
    LET next == get_login_state(fd) IN
    IF write_state[fd] = "HEADER_TO_SEND" THEN Header(next.type, next.len)
                                          ELSE next.body

Sending(fd) ==
    /\ LoggingIn(fd)
    /\ write_state[fd] \in {"HEADER_TO_SEND", "HEADER_SENT"}

(* What send() takes: what fits, or all when the peer is gone and the kernel *)
(* has not heard of it yet.                                                  *)
Taken(fd) ==
    IF peer[fd] = "open" THEN Smaller(write_bytes[fd], SndBuf - Len(outbox[fd]))
                         ELSE write_bytes[fd]

(* Bytes go onto the wire; those for a peer that has left are lost, and may *)
(* bring a reset back.                                                      *)
PutOnWire(fd, bytes) ==
    /\ IF peer[fd] = "open"
       THEN outbox' = [outbox EXCEPT ![fd] = @ \o bytes] /\ UNCHANGED peer
       ELSE /\ \E fate \in {"left", "reset"} : peer' = [peer EXCEPT ![fd] = fate]
            /\ UNCHANGED outbox
    /\ UNCHANGED <<backlog, inbox>>

(* The bytes that send_nbytes offers, as far as they are taken: the last    *)
(* write_bytes of the message.                                              *)
ToSend(fd) ==
    LET m == Outgoing(fd) IN
    SubSeq(Bytes(m), Size(m) - write_bytes[fd] + 1,
                     Size(m) - write_bytes[fd] + Taken(fd))

HeaderSent_CountKept(fd) ==
    /\ write_state' = [write_state EXCEPT ![fd] = "HEADER_SENT"]
    /\ Stay
    /\ UNCHANGED <<read_state, read_bytes, write_bytes, logins>>

(* The header is out: the body follows in the same pass of client_login.    *)
HeaderSent(fd) ==
    /\ write_state' = [write_state EXCEPT ![fd] = "HEADER_SENT"]
    /\ write_bytes' = [write_bytes EXCEPT ![fd] = Outgoing(fd).len]
    /\ Stay
    /\ UNCHANGED <<read_state, read_bytes, logins>>

(* send_msg, when a whole body is out: a header is to be received. *)
TurnToRecv(fd) ==
    /\ read_state' = [read_state EXCEPT ![fd] = "HEADER_TO_RECV"]
    /\ read_bytes' = [read_bytes EXCEPT ![fd] = HeaderSize]

BodySent_SentForgotten(fd) ==
    /\ TurnToRecv(fd)
    /\ write_state' = [write_state EXCEPT ![fd] = "MSG_SENT"]
    /\ write_bytes' = [write_bytes EXCEPT ![fd] = 0]
    /\ IF get_login_state(fd).type = CLIENT_ID /\ pc = "in" THEN Stay ELSE Leave
    /\ UNCHANGED logins

(* The body is out: a header is expected.  With the CLIENT_ID the login has *)
(* ended, and the incoming handler goes on to serve the logged client.      *)
BodySent(fd) ==
    /\ TurnToRecv(fd)
    /\ write_state' = [write_state EXCEPT ![fd] = "MSG_SENT"]
    /\ write_bytes' = [write_bytes EXCEPT ![fd] = 0]
    /\ IF get_login_state(fd).type = CLIENT_ID
       THEN /\ accept_sent' = accept_sent \cup (logged_clients \cap {fd})
            /\ IF pc = "in" THEN Stay ELSE Leave
       ELSE UNCHANGED accept_sent /\ Leave
    /\ UNCHANGED <<logged_clients, rejected_logins, netstate, users, verified>>

(* send_msg with room on the wire: part of the message, the whole header,   *)
(* or the whole body.                                                       *)
SendTakes(fd) ==
    /\ peer[fd] # "reset"
    /\ peer[fd] = "open" => Len(outbox[fd]) < SndBuf
    /\ PutOnWire(fd, ToSend(fd))
    /\ IF Taken(fd) < write_bytes[fd]
       THEN /\ write_bytes' = [write_bytes EXCEPT ![fd] = @ - Taken(fd)]
            /\ Stay
            /\ UNCHANGED <<read_state, read_bytes, write_state, logins>>
       ELSE IF write_state[fd] = "HEADER_TO_SEND" THEN HeaderSent(fd)
                                                   ELSE BodySent(fd)
    /\ UnchangedScan
    /\ UNCHANGED <<master, buffers, client>>

SendBlocks(fd) ==
    /\ peer[fd] = "open" /\ Len(outbox[fd]) = SndBuf
    /\ Leave /\ UnchangedScan
    /\ UNCHANGED <<master, states, logins, buffers, wires, client>>

(* send() on a connection that was reset: an error, or SIGPIPE, which the   *)
(* program neither handles nor ignores.                                     *)
SendFails(fd) ==
    /\ peer[fd] = "reset"
    /\ GiveUp(fd)

SigPipe(fd) ==
    /\ peer[fd] = "reset"
    /\ pc' = "stopped"
    /\ UNCHANGED <<current_desc, read_set, write_set, run_server, max_sd, master,
                   states, logins, buffers, wires, client>>

(* send_nbytes sends the last nbytes of the message: substr throws, and the *)
(* process aborts, when the message is shorter than that.                    *)
Send(fd) ==
    /\ Sending(fd)
    /\ IF write_bytes[fd] > Size(Outgoing(fd))
       THEN /\ pc' = "aborted"
            /\ UNCHANGED <<current_desc, read_set, write_set, run_server, max_sd,
                           master, states, logins, buffers, wires, client>>
       ELSE SendTakes(fd) \/ SendBlocks(fd) \/ SendFails(fd) \/ SigPipe(fd)

-----------------------------------------------------------------------------
(* client_login's receiving half.                                           *)

Receiving(fd) ==
    /\ LoggingIn(fd)
    /\ write_state[fd] = "MSG_SENT"
    /\ read_state[fd] \in {"HEADER_TO_RECV", "HEADER_RECVD"}

(* recv() fails or returns 0, which recv_nbytes takes for the end of the    *)
(* connection: the peer has left, or there are bytes and none was asked for. *)
RecvEnds(fd) ==
    /\ Receiving(fd)
    /\ IF inbox[fd] = <<>> THEN peer[fd] \in {"left", "reset"} ELSE read_bytes[fd] = 0
    /\ GiveUp(fd)

(* Nothing is there, however much was asked for: EWOULDBLOCK. *)
RecvBlocks(fd) ==
    /\ Receiving(fd)
    /\ inbox[fd] = <<>> /\ peer[fd] = "open"
    /\ Leave /\ UnchangedScan
    /\ UNCHANGED <<master, states, logins, buffers, wires, client>>

Arrived(fd) == Smaller(read_bytes[fd], Len(inbox[fd]))

(* The receive buffer with what recv() has just given. *)
Filled(fd) == buffers[fd] \o First(inbox[fd], Arrived(fd))

CanRecv(fd) ==
    /\ Receiving(fd)
    /\ read_bytes[fd] > 0 /\ inbox[fd] # <<>>
    /\ inbox' = [inbox EXCEPT ![fd] = Rest(@, Arrived(fd))]
    /\ UnchangedScan
    /\ UNCHANGED <<master, backlog, peer, outbox, client>>

StillToRecv_Swapped(fd) == Arrived(fd) - read_bytes[fd]
StillToRecv(fd) == read_bytes[fd] - Arrived(fd)

RecvPart(fd) ==
    /\ CanRecv(fd) /\ Arrived(fd) < read_bytes[fd]
    /\ buffers' = [buffers EXCEPT ![fd] = Filled(fd)]
    /\ read_bytes' = [read_bytes EXCEPT ![fd] = StillToRecv(fd)]
    /\ Stay
    /\ UNCHANGED <<read_state, write_state, write_bytes, logins>>

(* parse_from_string throws unless it is given exactly one header. *)
IsHeader(bytes) ==
    /\ Len(bytes) = HeaderSize
    /\ \A i \in 1..Len(bytes) : bytes[i].msg.kind = "HEADER" /\ bytes[i].at = i

(* The type in the header is not looked at: what follows is taken for a     *)
(* LOGIN message of the announced length.                                   *)
RecvHeader(fd) ==
    /\ CanRecv(fd) /\ Arrived(fd) = read_bytes[fd]
    /\ read_state[fd] = "HEADER_TO_RECV"
    /\ IF IsHeader(Filled(fd))
       THEN /\ read_state' = [read_state EXCEPT ![fd] = "HEADER_RECVD"]
            /\ read_bytes' = [read_bytes EXCEPT ![fd] = Filled(fd)[1].msg.len]
            /\ clear_buff(fd)
            /\ Stay
       ELSE /\ pc' = "aborted"
            /\ UNCHANGED <<current_desc, read_state, read_bytes, buffers>>
    /\ UNCHANGED <<write_state, write_bytes, logins>>

TurnToSend_ReadStateKept(fd) ==
    /\ write_state' = [write_state EXCEPT ![fd] = "HEADER_TO_SEND"]
    /\ write_bytes' = [write_bytes EXCEPT ![fd] = HeaderSize]
    /\ read_bytes' = [read_bytes EXCEPT ![fd] = 0]
    /\ UNCHANGED read_state

(* recv_msg, when a whole body is in: a header is to be sent. *)
TurnToSend(fd) ==
    /\ write_state' = [write_state EXCEPT ![fd] = "HEADER_TO_SEND"]
    /\ write_bytes' = [write_bytes EXCEPT ![fd] = HeaderSize]
    /\ read_state' = [read_state EXCEPT ![fd] = "MSG_RECVD"]
    /\ read_bytes' = [read_bytes EXCEPT ![fd] = 0]

(* What becomes of the connection when check_login says CORRECT ... *)
Admit_StaysRejected(fd) ==
    /\ logged_clients' = logged_clients \cup {fd}
    /\ netstate' = netstate \cup {fd}
    /\ verified' = verified \cup {fd}
    /\ UNCHANGED rejected_logins

Admit(fd) ==
    /\ rejected_logins' = rejected_logins \ {fd}
    /\ logged_clients' = logged_clients \cup {fd}
    /\ netstate' = netstate \cup {fd}
    /\ verified' = verified \cup {fd}

(* ... and when it does not. *)
Reject(fd) ==
    /\ rejected_logins' = rejected_logins \cup {fd}
    /\ UNCHANGED <<logged_clients, netstate, verified>>

check_login_Unsaved(fd, info) ==
    /\ IF Verdict(users, info) = CORRECT THEN Admit(fd) ELSE Reject(fd)
    /\ UNCHANGED users

(* check_login, and what client_login makes of its result. *)
check_login(fd, info) ==
    /\ users' = BufferToWrite(users, info)
    /\ IF Verdict(users, info) = CORRECT THEN Admit(fd) ELSE Reject(fd)

RecvLogin_BufferKept(fd) ==
    /\ CanRecv(fd) /\ Arrived(fd) = read_bytes[fd]
    /\ read_state[fd] = "HEADER_RECVD"
    /\ TurnToSend(fd)
    /\ check_login(fd, Filled(fd)[1].msg.attempt)
    /\ buffers' = [buffers EXCEPT ![fd] = Filled(fd)]
    /\ Leave
    /\ UNCHANGED accept_sent

(* The login is complete: it is checked against the users file, and the     *)
(* connection turned round to send the answer.                              *)
RecvLogin(fd) ==
    /\ CanRecv(fd) /\ Arrived(fd) = read_bytes[fd]
    /\ read_state[fd] = "HEADER_RECVD"
    /\ TurnToSend(fd)
    /\ check_login(fd, Filled(fd)[1].msg.attempt)
    /\ clear_buff(fd)
    /\ Leave
    /\ UNCHANGED accept_sent

-----------------------------------------------------------------------------
(* The incoming handler for a client whose login has ended.  It is silent   *)
(* here, so the header it is waited for does not come: recv() blocks, or    *)
(* tells that the client has left.                                          *)
ServeLogged(fd) ==
    /\ pc = "in" /\ fd = current_desc /\ fd \in accept_sent
    /\ read_state[fd] = "HEADER_TO_RECV" /\ inbox[fd] = <<>>
    /\ IF peer[fd] \in {"left", "reset"} THEN GiveUp(fd)
       ELSE /\ Leave /\ UnchangedScan
            /\ UNCHANGED <<master, states, logins, buffers, wires, client>>

-----------------------------------------------------------------------------
(* The clients: connect, read, answer with a frame, leave.                  *)

ClientConnect ==
    /\ backlog + Cardinality({fd \in Fd : peer[fd] # "none"}) < MaxClients
    /\ backlog' = backlog + 1
    /\ UNCHANGED <<process, states, logins, buffers, peer, inbox, outbox, client>>

(* A client reads byte by byte, as its socket gives them, until it has the  *)
(* header and as many bytes more as that announces.                         *)
ClientRead(fd) ==
    /\ peer[fd] = "open" /\ outbox[fd] # <<>>
    /\ outbox' = [outbox EXCEPT ![fd] = Tail(@)]
    /\ LET frame == Append(got[fd], Head(outbox[fd]))
           body  == frame[Len(frame)].msg
       IN
       IF Len(frame) = HeaderSize + frame[1].msg.len
       THEN /\ got' = [got EXCEPT ![fd] = <<>>]
            /\ members' = (IF body.kind = "CLIENT_ID" THEN members \cup {fd}
                                                      ELSE members)
            /\ prompted' = (IF body.kind = "CLIENT_ID" THEN prompted
                                                       ELSE prompted \cup {fd})
       ELSE /\ got' = [got EXCEPT ![fd] = frame]
            /\ UNCHANGED <<members, prompted>>
    /\ UNCHANGED <<process, states, logins, buffers, backlog, peer, inbox, draft, kept>>

(* The frames a client may send after a prompt: a LOGIN, and before it, if  *)
(* its user takes more than twenty seconds, the keep-alive header of the    *)
(* administrator's client, which announces no body.                         *)
LoginFrame(attempt) == Bytes(Header(LOGIN, LoginLen)) \o Bytes(Login(attempt))
KeepAliveFrame      == Bytes(Header(LOGIN, 0))

ClientAnswer(fd, attempt) ==
    /\ peer[fd] = "open" /\ fd \in prompted
    /\ prompted' = prompted \ {fd}
    /\ draft' = [draft EXCEPT ![fd] = LoginFrame(attempt)]
    /\ UNCHANGED <<process, states, logins, buffers, wires, got, kept, members>>

ClientKeepAlive(fd) ==
    /\ peer[fd] = "open" /\ fd \in prompted \cap Late
    /\ prompted' = prompted \ {fd}
    /\ kept' = kept \cup {fd}
    /\ draft' = [draft EXCEPT ![fd] = KeepAliveFrame]
    /\ UNCHANGED <<process, states, logins, buffers, wires, got, members>>

(* The user has filled the form at last.  Bound: not before the server has  *)
(* taken the keep-alive, which it asks for by its length in any case.       *)
ClientAnswerLate(fd, attempt) ==
    /\ peer[fd] = "open" /\ fd \in kept
    /\ draft[fd] = <<>> /\ inbox[fd] = <<>>
    /\ kept' = kept \ {fd}
    /\ draft' = [draft EXCEPT ![fd] = LoginFrame(attempt)]
    /\ UNCHANGED <<process, states, logins, buffers, wires, got, prompted, members>>

ClientWrite(fd) ==
    /\ peer[fd] = "open" /\ draft[fd] # <<>>
    /\ inbox' = [inbox EXCEPT ![fd] = Append(@, Head(draft[fd]))]
    /\ draft' = [draft EXCEPT ![fd] = Tail(@)]
    /\ UNCHANGED <<process, states, logins, buffers, backlog, peer, outbox,
                   got, prompted, kept, members>>

(* Closing a socket with bytes unread resets the connection. *)
ClientLeave(fd) ==
    /\ peer[fd] = "open"
    /\ peer' = [peer EXCEPT ![fd] = IF outbox[fd] = <<>> THEN "left" ELSE "reset"]
    /\ UNCHANGED <<process, states, logins, buffers, backlog, inbox, outbox, client>>
-----------------------------------------------------------------------------
(* The server's own steps, and those of its surroundings. *)
Handler(fd) ==
    Send(fd) \/ RecvEnds(fd) \/ RecvBlocks(fd) \/ RecvPart(fd)
             \/ RecvHeader(fd) \/ RecvLogin(fd) \/ ServeLogged(fd)

Server ==
    \/ Select \/ EndRound
    \/ \E fd \in Fd \cup {Listening} : VisitReadable(fd)
    \/ \E fd \in Fd : VisitWritable(fd)
    \/ \E fd \in Fd, optionsSet \in BOOLEAN : Accept(fd, optionsSet)
    \/ AcceptFails \/ AcceptedAll
    \/ \E fd \in Fd : Handler(fd)

Over == pc \in {"stopped", "aborted"}

Client ==
    /\ ~Over
    /\ \/ ClientConnect
       \/ \E fd \in Fd : ClientRead(fd) \/ ClientWrite(fd) \/ ClientLeave(fd)
       \/ \E fd \in Fd, attempt \in Attempts :
             ClientAnswer(fd, attempt) \/ ClientAnswerLate(fd, attempt)
       \/ \E fd \in Fd : ClientKeepAlive(fd)

(* The process is gone. *)
Terminated == Over /\ UNCHANGED vars

Next == Server \/ Client \/ Terminated

Spec == Init /\ [][Next]_vars

(* The process runs, clients read what they are sent and finish the frames  *)
(* they have begun; nobody has to connect, answer or leave.                 *)
Fairness ==
    /\ WF_vars(Server)
    /\ \A fd \in Fd : WF_vars(~Over /\ (ClientRead(fd) \/ ClientWrite(fd)))

FairSpec == Spec /\ Fairness

-----------------------------------------------------------------------------
(* Safety.                                                                  *)

Registered == {fd \in Fd : read_state[fd] # "NONE"}

(* ClientsMonitor has an entry for the open sockets and no other, so that   *)
(* select() is never asked about a closed descriptor (it would fail, and    *)
(* run() end), nor a new connection take over what an old one left behind.  *)
OnlyOpenSockets ==
    /\ Registered = master
    /\ master = {fd \in Fd : peer[fd] # "none"}
    /\ \A fd \in Fd \ master :
         /\ buffers[fd] = <<>>
         /\ fd \notin logged_clients \cup accept_sent \cup rejected_logins

(* A connection sends or receives, never both: the answer to a login is out *)
(* before the next header is looked for.                                    *)
HalfDuplex ==
    \A fd \in master :
        \/ /\ write_state[fd] \in {"HEADER_TO_SEND", "HEADER_SENT"}
           /\ read_state[fd] \in {"IDLE", "MSG_RECVD"} /\ read_bytes[fd] = 0
        \/ /\ write_state[fd] = "MSG_SENT" /\ write_bytes[fd] = 0
           /\ read_state[fd] \in {"HEADER_TO_RECV", "HEADER_RECVD"}

(* The frame of the message that a connection owes or has just sent. *)
Frame(state) == Bytes(Header(state.type, state.len)) \o Bytes(state.body)
Unread(fd) == got[fd] \o outbox[fd]
LastSent(fd) ==
    IF fd \in logged_clients THEN ClientID(fd)
    ELSE IF fd \in rejected_logins THEN Statement(LOGIN_REJ) ELSE Statement(LOGIN_REQ)

(* What a client has got and not consumed is a prefix of one frame, as long *)
(* as the counters say, of one message: no partial send repeats, skips or   *)
(* mixes bytes, although the message is worked out anew on every send.      *)
FramesIntact ==
    \A fd \in Fd : peer[fd] = "open" =>
        CASE write_state[fd] = "HEADER_TO_SEND" ->
                Unread(fd) = First(Frame(get_login_state(fd)),
                                   HeaderSize - write_bytes[fd])
          [] write_state[fd] = "HEADER_SENT" ->
                Unread(fd) = First(Frame(get_login_state(fd)),
                                   HeaderSize + get_login_state(fd).len - write_bytes[fd])
          [] OTHER ->
                \/ Unread(fd) = <<>>
                \/ Unread(fd) = Bytes(Header(IF fd \in logged_clients
                                             THEN CLIENT_ID ELSE STATEMENT,
                                             Size(LastSent(fd))))
                                \o Bytes(LastSent(fd))

(* No exception leaves the handlers: every header is parsed from exactly    *)
(* its own bytes, and no message is asked for more bytes than it has.       *)
NeverAborts == pc # "aborted"

(* A CLIENT_ID is for a connection on which check_login has said CORRECT,   *)
(* whatever the descriptor was used for before; and a rejected client that  *)
(* is let in later is not rejected any more.                                *)
OnlyVerifiedLogIn ==
    /\ accept_sent \subseteq logged_clients
    /\ logged_clients \subseteq verified
    /\ logged_clients \cap rejected_logins = {}

(* The two ends agree on who has logged in: a client that has read its      *)
(* CLIENT_ID is one the server takes for sent, and serves as an editor.     *)
MembersAreLoggedIn == members \subseteq accept_sent

(* The scan reaches every open descriptor. *)
EveryDescriptorScanned == \A fd \in master : fd <= max_sd

-----------------------------------------------------------------------------
(* Liveness.                                                                *)

(* A client waits for the server when it is connected and neither holds a   *)
(* prompt nor its id: for LOGIN_REQ, or for the answer to a login.  The     *)
(* keep-alive asks for nothing: whoever has sent it still holds the prompt. *)
Waits(fd) == peer[fd] = "open" /\ fd \notin prompted \cup kept \cup members

(* Whoever waits is answered or cut off, whatever the others do, unless the *)
(* process is gone; cut off it is when its login comes after a keep-alive.  *)
EveryoneIsAnswered == \A fd \in Fd : Waits(fd) ~> (~Waits(fd) \/ Over)

(* Pending connections are taken up.                                        *)
BacklogDrains == backlog > 0 ~> (backlog = 0 \/ Over)

(* A client that has left does not keep its descriptor.                     *)
DescriptorsComeBack ==
    \A fd \in Fd : peer[fd] \in {"left", "reset"}
                       ~> (peer[fd] \notin {"left", "reset"} \/ Over)
=============================================================================
