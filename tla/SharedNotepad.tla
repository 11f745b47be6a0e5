---------------------------- MODULE SharedNotepad ----------------------------
(***************************************************************************)
(* The server and the clients that edit: the branches of the two socket    *)
(* handlers for clients that have logged in, Networking's queues, and      *)
(* NotepadHandler with the note it keeps and the files it saves.           *)
(*                                                                         *)
(* A step is one call on a socket and what the handler does before the     *)
(* next.  Logging in, which LoginServer models, is two steps here.  Any    *)
(* ready descriptor may be visited next, which covers every order in which *)
(* rounds of select() visit them.  A header, and the body of a message     *)
(* received, moves as a whole or not yet; bodies are sent in parts.        *)
(*                                                                         *)
(* An edit adds one character or deletes one; a character is a number that *)
(* stands for its position, never given to two characters.  A text is a    *)
(* sequence of edits or of characters.  Lengths are in bytes, and every    *)
(* edit has the same, so a PendingChanges is no more than its "from".      *)
(*                                                                         *)
(* An operator X_Y is X with the fault Y put in; no specification uses it. *)
(***************************************************************************)
EXTENDS Integers, FiniteSets, Functions, SequencesExt

CONSTANTS
    Fd,          \* the descriptors accept() may return
    CharLen,     \* bytes of a coded character and its separator
    FirstLeft,   \* what changes_left, never initialised, may start with
    Part,        \* the byte counts that send() may take of a longer body
    MaxMsgs,     \* bound: messages the clients send
    MaxClients,  \* bound: connections the clients make
    MaxQueue     \* bound: a client's queue when the note has been sent to one
                 \* (two clients that get the whole note have the server send
                 \* it to each in turn for ever, as set_multicast does here)

ASSUME FdAssumption == Fd \subseteq Nat /\ Fd # {} /\ IsFiniteSet(Fd)
ASSUME LengthAssumption ==
    /\ CharLen \in Nat /\ CharLen > 4 \* so that a body is never shorter than a header
    /\ FirstLeft \subseteq Int /\ FirstLeft # {}
    /\ Part \subseteq Nat \ {0}
    /\ MaxMsgs \in Nat /\ MaxClients \in Nat /\ MaxQueue \in Nat

HeaderSize == 6

NO_ENTRY == -2 \* what get_msg_type returns without an entry
HEADER == -1
LOGIN == 0
STATEMENT == 1
EDIT == 2

(* The deleted characters, the buffer splitter, the added characters. *)
EditLen == 1 + CharLen
Char == 1..MaxMsgs
Add(c) == [add |-> <<c>>, del |-> <<>>]
Del(c) == [add |-> <<>>, del |-> <<c>>]
Edits == {Add(c) : c \in Char} \cup {Del(c) : c \in Char}

VARIABLES
    pc,            \* run | stopped | aborted | hung
    conn,          \* none | login | logged: the connection on a descriptor
    peer,          \* here | left | reset: its client
    inbox,         \* headers and bodies that have arrived
    read_state, read_bytes, write_state, write_bytes, \* ClientsMonitor
    parsed,        \* whether the receive buffer still holds a body dealt with
    msg_type, msg_len, \* Networking::netstate
    send_queues,   \* Networking::send_queues: the lengths, all of type EDIT
    contributors, to_fetch_changes, changes_buffs, changes_tracker,
    changes_left, last_change,
    addedChars, deletedChars, \* Note
    files,         \* ./texts: the text of each file, in the order of creation
    sent, came     \* messages and connections made by the clients

sockets    == <<conn, peer, inbox>>
monitor    == <<read_state, read_bytes, write_state, write_bytes, parsed>>
networking == <<msg_type, msg_len, send_queues>>
rounds     == <<changes_left, last_change>>
users      == <<contributors, to_fetch_changes>>
changes    == <<changes_buffs, changes_tracker>>
note       == <<addedChars, deletedChars>>
clients    == <<sent, came>>
vars == <<pc, sockets, monitor, networking, users, changes, rounds, note, files, clients>>

Unit == [part : {"header", "body"}, type : {LOGIN, STATEMENT, EDIT},
         len : Nat, edit : Edits \cup {<<>>}]
ReadStates  == {"NONE", "HEADER_TO_RECV", "HEADER_RECVD", "MSG_RECVD"}
WriteStates == {"NONE", "HEADER_TO_SEND", "HEADER_SENT", "MSG_SENT"}

TypeOK ==
    /\ pc \in {"run", "stopped", "aborted", "hung"}
    /\ conn \in [Fd -> {"none", "login", "logged"}]
    /\ peer \in [Fd -> {"here", "left", "reset"}]
    /\ inbox \in [Fd -> Seq(Unit)]
    /\ read_state \in [Fd -> ReadStates] /\ read_bytes \in [Fd -> Nat]
    /\ write_state \in [Fd -> WriteStates] /\ write_bytes \in [Fd -> Nat]
    /\ parsed \in [Fd -> BOOLEAN]
    /\ msg_type \in [Fd -> {NO_ENTRY, HEADER, LOGIN, STATEMENT, EDIT}]
    /\ msg_len \in [Fd -> Int]
    /\ send_queues \in [Fd -> Seq(Int)]
    /\ contributors \subseteq Fd /\ to_fetch_changes \subseteq Fd
    /\ DOMAIN changes_buffs \subseteq Fd
    /\ \A fd \in DOMAIN changes_buffs : changes_buffs[fd] \in Seq(Edits)
    /\ DOMAIN changes_tracker \subseteq Fd
    /\ \A fd \in DOMAIN changes_tracker : changes_tracker[fd] \in Seq(Fd)
    /\ changes_left \in Int /\ last_change \in Fd \cup {-1}
    /\ addedChars \in Seq(Char) /\ deletedChars \in Seq(Char)
    /\ files \in Seq(Seq(Char))
    /\ sent \in 0..MaxMsgs /\ came \in 0..MaxClients

Init ==
    /\ pc = "run"
    /\ conn = [fd \in Fd |-> "none"] /\ peer = [fd \in Fd |-> "left"]
    /\ inbox = [fd \in Fd |-> <<>>]
    /\ read_state = [fd \in Fd |-> "NONE"] /\ read_bytes = [fd \in Fd |-> 0]
    /\ write_state = [fd \in Fd |-> "NONE"] /\ write_bytes = [fd \in Fd |-> 0]
    /\ parsed = [fd \in Fd |-> FALSE]
    /\ msg_type = [fd \in Fd |-> NO_ENTRY] /\ msg_len = [fd \in Fd |-> 0]
    /\ send_queues = [fd \in Fd |-> <<>>]
    /\ contributors = {} /\ to_fetch_changes = {}
    /\ changes_buffs = <<>> /\ changes_tracker = <<>>
    /\ changes_left \in FirstLeft /\ last_change = -1
    /\ addedChars = <<>> /\ deletedChars = <<>> /\ files = <<>>
    /\ sent = 0 /\ came = 0

-----------------------------------------------------------------------------
(* Note.                                                                    *)

(* The characters not deleted: what toString and getFileChanges work on. *)
Left(added, deleted) ==
    LET left[i \in 0..Len(added)] ==
            IF i = 0 THEN <<>>
            ELSE IF added[i] \in ToSet(deleted) THEN left[i - 1]
                 ELSE Append(left[i - 1], added[i])
    IN  left[Len(added)]
Live == Left(addedChars, deletedChars)
FileLen ==
    1 + CharLen * Cardinality({i \in DOMAIN addedChars : addedChars[i] \notin ToSet(deletedChars)})

(* applyChanges of one edit, or of the edits of one client run together.   *)
(* The text is cut at the splitters and only its first two pieces are      *)
(* used: what the second edit deletes is taken as added.  A text that ends *)
(* at its only splitter has no second piece, and buffers[1] is read past   *)
(* the end of the vector: it is an empty string there, or the server       *)
(* crashes.                                                                *)
SecondPiece(text) == text[1].add \o (IF Len(text) > 1 THEN text[2].del ELSE <<>>)
OnePiece(text) == text = <<>> \/ (Len(text) = 1 /\ text[1].add = <<>>)

edit_contents_AddedOnly(text) ==
    /\ pc' \in (IF OnePiece(text) THEN {"run", "aborted"} ELSE {"run"})
    /\ addedChars' = addedChars \o (IF text = <<>> THEN <<>> ELSE SecondPiece(text))
    /\ UNCHANGED deletedChars

edit_contents(text) ==
    /\ pc' \in (IF OnePiece(text) THEN {"run", "aborted"} ELSE {"run"})
    /\ IF text = <<>>
       THEN UNCHANGED note
       ELSE /\ addedChars' = addedChars \o SecondPiece(text)
            /\ deletedChars' = deletedChars \o text[1].del

-----------------------------------------------------------------------------
(* NotepadHandler and Networking.                                           *)

Without(f, d) == Restrict(f, DOMAIN f \ {d})
Put(f, d, v) == [e \in DOMAIN f \cup {d} |-> IF e = d THEN v ELSE f[e]]
Buffer(fd) == IF fd \in DOMAIN changes_buffs THEN changes_buffs[fd] ELSE <<>>

(* The first contributor gets a new file; the note is kept as it is. *)
add_client(fd) ==
    /\ contributors' = contributors \cup {fd}
    /\ changes_tracker' = Put(changes_tracker, fd, <<>>)
    /\ IF contributors = {}
       THEN files' = Append(files, <<>>) /\ UNCHANGED to_fetch_changes
       ELSE to_fetch_changes' = to_fetch_changes \cup {fd} /\ UNCHANGED files

store_changes_ToAll(fd, edit) ==
    /\ changes_buffs' = Put(changes_buffs, fd, Append(Buffer(fd), edit))
    /\ changes_tracker' = [other \in DOMAIN changes_tracker |-> Append(changes_tracker[other], fd)]

store_changes(fd, edit) ==
    /\ changes_buffs' = Put(changes_buffs, fd, Append(Buffer(fd), edit))
    /\ changes_tracker' = [other \in DOMAIN changes_tracker |->
           IF other = fd THEN changes_tracker[fd] ELSE Append(changes_tracker[other], fd)]

(* changes_buffs[fd].empty() and changes_tracker[fd].size() add the entry  *)
(* they do not find; both are erased again.                                *)
remove_contributor(fd) ==
    /\ contributors' = contributors \ {fd}
    /\ changes_buffs' = IF Buffer(fd) = <<>> THEN Without(changes_buffs, fd) ELSE changes_buffs
    /\ changes_left' =
           IF /\ changes_tracker[fd] # <<>> /\ Head(changes_tracker[fd]) = last_change
              /\ changes_left > 0
           THEN changes_left - 1 ELSE changes_left
    /\ changes_tracker' = Without(changes_tracker, fd)
    /\ UNCHANGED <<to_fetch_changes, last_change>>

(* The end of a round, as changes_left has it: the edit is dropped.  The   *)
(* buffers are as get_changes left them.                                   *)
remove_sent_changes(fd, buffs) ==
    LET editor == Head(changes_tracker[fd])
        rest   == IF Buffer(editor) = <<>> THEN <<>> ELSE Tail(Buffer(editor))
    IN  /\ changes_tracker' = [changes_tracker EXCEPT ![fd] = Tail(@)]
        /\ IF changes_left = 1
           THEN /\ changes_left' = Cardinality(contributors) - 1
                /\ changes_buffs' = IF editor \in contributors
                                    THEN Put(buffs, editor, rest) ELSE Without(buffs, editor)
           ELSE changes_left' = changes_left - 1 /\ changes_buffs' = buffs

(* get_first_obs_len: without an entry, and when the flag that is never    *)
(* initialised happens to be true, -1.                                     *)
FirstLen(fd) == {IF send_queues[fd] = <<>> THEN -1 ELSE Head(send_queues[fd]), -1}

(* The bytes still to send are set to the length of the message, though    *)
(* its header goes first.  bytes and states are the values so far.         *)
set_multicast(receivers, len, bytes, states) ==
    LET known == {fd \in receivers : msg_type[fd] # NO_ENTRY}
    IN  /\ write_bytes' = [fd \in Fd |-> IF fd \in receivers THEN len ELSE bytes[fd]]
        /\ write_state' = [fd \in Fd |-> IF fd \in receivers THEN "HEADER_TO_SEND" ELSE states[fd]]
        /\ msg_type' = [fd \in Fd |-> IF fd \in known THEN EDIT ELSE msg_type[fd]]
        /\ msg_len' = [fd \in Fd |-> IF fd \in known THEN len ELSE msg_len[fd]]
        /\ send_queues' = [fd \in Fd |-> IF fd \in receivers
                                         THEN Append(send_queues[fd], len) ELSE send_queues[fd]]

-----------------------------------------------------------------------------
(* Connections.                                                             *)

Ends(how) == pc' = how /\ UNCHANGED <<sockets, monitor, networking, users, changes, rounds, note, files, clients>>

(* select() reports an error when an entry that set_multicast made for a   *)
(* closed descriptor is in the write set: the server shuts down.           *)
SelectFails ==
    /\ pc = "run"
    /\ \E fd \in Fd : conn[fd] = "none" /\ write_state[fd] = "HEADER_TO_SEND"
    /\ Ends("stopped")

Join(fd) ==
    /\ pc = "run" /\ came < MaxClients
    /\ conn[fd] = "none" /\ \A lower \in Fd : lower < fd => conn[lower] # "none"
    /\ \A other \in Fd : conn[other] = "none" => write_state[other] = "NONE"
    /\ conn' = [conn EXCEPT ![fd] = "login"] /\ peer' = [peer EXCEPT ![fd] = "here"]
    /\ came' = came + 1
    /\ UNCHANGED <<pc, inbox, monitor, networking, users, changes, rounds, note, files, sent>>

(* The client's identifier has been sent.  After a multicast to the        *)
(* descriptor, client_login first tries to send a header of that length.   *)
LoginDone(fd) ==
    /\ pc = "run" /\ conn[fd] = "login" /\ write_bytes[fd] <= HeaderSize
    /\ conn' = [conn EXCEPT ![fd] = "logged"]
    /\ read_state' = [read_state EXCEPT ![fd] = "HEADER_TO_RECV"]
    /\ read_bytes' = [read_bytes EXCEPT ![fd] = HeaderSize]
    /\ write_state' = [write_state EXCEPT ![fd] = "MSG_SENT"]
    /\ write_bytes' = [write_bytes EXCEPT ![fd] = 0]
    /\ msg_type' = [msg_type EXCEPT ![fd] = IF @ = NO_ENTRY THEN HEADER ELSE @]
    /\ UNCHANGED <<pc, peer, inbox, parsed, msg_len, send_queues,
                   users, changes, rounds, note, files, clients>>

(* A multicast to a descriptor whose new client is still logging in. *)
LoginAborts(fd) == pc = "run" /\ conn[fd] = "login" /\ write_bytes[fd] > HeaderSize /\ Ends("aborted")

(* close_conn: ClientsMonitor and RecvBuffers forget the descriptor,       *)
(* Networking does not.                                                    *)
Close(fd) ==
    /\ conn' = [conn EXCEPT ![fd] = "none"] /\ peer' = [peer EXCEPT ![fd] = "left"]
    /\ inbox' = [inbox EXCEPT ![fd] = <<>>]
    /\ read_state' = [read_state EXCEPT ![fd] = "NONE"] /\ read_bytes' = [read_bytes EXCEPT ![fd] = 0]
    /\ write_state' = [write_state EXCEPT ![fd] = "NONE"] /\ write_bytes' = [write_bytes EXCEPT ![fd] = 0]
    /\ parsed' = [parsed EXCEPT ![fd] = FALSE]
    /\ UNCHANGED <<pc, networking, note, clients>>

-----------------------------------------------------------------------------
(* handle_existing_incoming_connection, logged in.                          *)

Logged(fd) == pc = "run" /\ conn[fd] = "logged"
WaitingForHeader(fd) == Logged(fd) /\ read_state[fd] \in {"HEADER_TO_RECV", "MSG_RECVD"}
WaitingForMsg(fd)    == Logged(fd) /\ read_state[fd] = "HEADER_RECVD"

Reset(fd) == peer[fd] = "reset"
(* recv() returns 0 at the end of the stream, and when asked for 0 bytes. *)
ReturnsZero(fd) ==
    \/ inbox[fd] = <<>> /\ peer[fd] = "left"
    \/ inbox[fd] # <<>> /\ read_bytes[fd] = 0

save_to_file_First == files' = [files EXCEPT ![1] = Live]

save_to_file == files' = [files EXCEPT ![Len(files)] = Live]

(* The client is gone, or seems to be because it sends a second message    *)
(* before the server has sent it one.  The last contributor's note is      *)
(* saved.                                                                  *)
ClientGone(fd) ==
    /\ WaitingForHeader(fd) /\ ~Reset(fd) /\ ReturnsZero(fd)
    /\ IF fd \in contributors
       THEN /\ remove_contributor(fd)
            /\ IF contributors = {fd} THEN save_to_file ELSE UNCHANGED files
       ELSE UNCHANGED <<users, changes, rounds, files>>
    /\ Close(fd)

(* A recv() error, or the end of the stream or a length of 0 where a body  *)
(* is expected.                                                            *)
Closed(fd) ==
    /\ \/ WaitingForHeader(fd) /\ Reset(fd)
       \/ WaitingForMsg(fd) /\ (Reset(fd) \/ ReturnsZero(fd))
    /\ Close(fd)
    /\ UNCHANGED <<users, changes, rounds, files>>

Arrived(fd) == ~Reset(fd) /\ inbox[fd] # <<>> /\ read_bytes[fd] > 0

(* The bytes of a body not cleared come before those of the header, or the *)
(* body is read as one because the server has sent a message since the     *)
(* header: parse_from_string throws.                                       *)
Readable(fd) == ~parsed[fd] /\ Head(inbox[fd]).part = "header"
HeaderUnreadable(fd) == WaitingForHeader(fd) /\ Arrived(fd) /\ ~Readable(fd) /\ Ends("aborted")

RecvHeader(fd) ==
    LET header == Head(inbox[fd])
    IN  /\ WaitingForHeader(fd) /\ Arrived(fd) /\ Readable(fd)
        /\ inbox' = [inbox EXCEPT ![fd] = Tail(@)]
        /\ read_state' = [read_state EXCEPT ![fd] = "HEADER_RECVD"]
        /\ read_bytes' = [read_bytes EXCEPT ![fd] = header.len]
        /\ IF header.type = EDIT /\ fd \notin contributors
           THEN add_client(fd) ELSE UNCHANGED <<users, changes_tracker, files>>
        /\ msg_type' = [msg_type EXCEPT ![fd] = header.type]
        /\ msg_len' = [msg_len EXCEPT ![fd] = header.len]
        /\ UNCHANGED <<pc, conn, peer, write_state, write_bytes, parsed, send_queues,
                       changes_buffs, rounds, note, clients>>

BodyRecvd(fd) ==
    /\ WaitingForMsg(fd) /\ Arrived(fd)
    /\ inbox' = [inbox EXCEPT ![fd] = Tail(@)]
    /\ read_state' = [read_state EXCEPT ![fd] = "MSG_RECVD"]
    /\ read_bytes' = [read_bytes EXCEPT ![fd] = 0]
    /\ UNCHANGED <<conn, peer, users, rounds, files, clients>>
StatesToSend(fd) == [write_state EXCEPT ![fd] = "HEADER_TO_SEND"]
BytesToSend(fd)  == [write_bytes EXCEPT ![fd] = HeaderSize]

(* A message of another type is left in the buffer and has no effect. *)
RecvOther(fd) ==
    /\ BodyRecvd(fd) /\ msg_type[fd] # EDIT
    /\ write_state' = StatesToSend(fd) /\ write_bytes' = BytesToSend(fd)
    /\ parsed' = [parsed EXCEPT ![fd] = TRUE]
    /\ UNCHANGED <<pc, networking, changes, note>>

RecvEdit_ToSenderToo(fd) ==
    LET text == <<Head(inbox[fd]).edit>>
    IN  /\ BodyRecvd(fd) /\ msg_type[fd] = EDIT /\ fd \notin to_fetch_changes
        /\ store_changes(fd, text[1])
        /\ edit_contents(text)
        /\ set_multicast(contributors, EditLen, BytesToSend(fd), StatesToSend(fd))
        /\ UNCHANGED parsed

(* An edit from a client that works on the note: applied and passed on. *)
RecvEdit(fd) ==
    LET text == <<Head(inbox[fd]).edit>>
    IN  /\ BodyRecvd(fd) /\ msg_type[fd] = EDIT /\ fd \notin to_fetch_changes
        /\ store_changes(fd, text[1])
        /\ edit_contents(text)
        /\ set_multicast(contributors \ {fd}, EditLen, BytesToSend(fd), StatesToSend(fd))
        /\ UNCHANGED parsed

(* One from a client that joined later: kept until it has been sent the    *)
(* whole note, here and at each further edit.                              *)
RecvEditToFetch(fd) ==
    /\ BodyRecvd(fd) /\ msg_type[fd] = EDIT /\ fd \in to_fetch_changes
    /\ store_changes(fd, Head(inbox[fd]).edit)
    /\ write_state' = StatesToSend(fd) /\ write_bytes' = BytesToSend(fd)
    /\ send_queues' = [send_queues EXCEPT ![fd] = Append(@, -1)]
    /\ UNCHANGED <<pc, parsed, msg_type, msg_len, note>>

-----------------------------------------------------------------------------
(* handle_existing_outbound_connection, logged in.                          *)

ToSend(fd, state) == Logged(fd) /\ write_state[fd] = state /\ send_queues[fd] # <<>>

(* send() to a client that has reset the connection raises SIGPIPE. *)
SendFails(fd) ==
    /\ \E state \in {"HEADER_TO_SEND", "HEADER_SENT"} : ToSend(fd, state)
    /\ Reset(fd) /\ Ends("stopped")

HeaderLen(fd) ==
    IF msg_type[fd] # EDIT THEN {msg_len[fd]}
    ELSE IF fd \in to_fetch_changes THEN {FileLen} ELSE FirstLen(fd)

(* More bytes to send than a header has: substr() throws. *)
HeaderTooShort(fd) ==
    /\ ToSend(fd, "HEADER_TO_SEND") /\ ~Reset(fd) /\ write_bytes[fd] > HeaderSize
    /\ Ends("aborted")

(* Mutant: the length is taken as it is. *)
Coded_Signed(len) == {len}

(* What the server reads back of a header it makes: of -1, 0; of a length  *)
(* of more than four digits (an int has ten at most), the first four.      *)
Coded(len) ==
    IF len = -1 THEN {0}
    ELSE {len \div ten : ten \in {power \in {1, 10, 100, 1000, 10000, 100000, 1000000} :
              len \div power < 10000 /\ (power > 1 => len \div power >= 1000)}}

(* After a header of another type nothing is sent: the loop does not end. *)
SendHeader(fd) ==
    /\ ToSend(fd, "HEADER_TO_SEND") /\ ~Reset(fd) /\ write_bytes[fd] <= HeaderSize
    /\ \E len \in HeaderLen(fd) : \E bytes \in Coded(len) :
         /\ msg_len' = [msg_len EXCEPT ![fd] = len]
         /\ write_bytes' = [write_bytes EXCEPT ![fd] = bytes]
    /\ write_state' = [write_state EXCEPT ![fd] = "HEADER_SENT"]
    /\ pc' = IF msg_type[fd] = EDIT THEN "run" ELSE "hung"
    /\ UNCHANGED <<sockets, read_state, read_bytes, parsed, msg_type, send_queues,
                   users, changes, rounds, note, files, clients>>

Sending(fd) == ToSend(fd, "HEADER_SENT") /\ ~Reset(fd) /\ msg_type[fd] = EDIT

(* get_changes: nothing when another change's round is on. *)
Skips(editor) == changes_left > 0 /\ editor # last_change
ChangesLen(editor) == IF Skips(editor) \/ Buffer(editor) = <<>> THEN 0 ELSE EditLen
BuffsRead(editor) == IF Skips(editor) THEN changes_buffs ELSE Put(changes_buffs, editor, Buffer(editor))
LastChange(editor) == IF changes_left = 0 THEN editor ELSE last_change

(* What is there to send; less than nothing when the list of changes is    *)
(* empty.  (What the undefined front() yields, pop_front() aborts on.)     *)
NothingTracked(fd) == fd \notin contributors \/ changes_tracker[fd] = <<>>
BodyLen(fd) ==
    IF fd \in to_fetch_changes THEN FileLen
    ELSE IF NothingTracked(fd) THEN -1 ELSE ChangesLen(Head(changes_tracker[fd]))

BodyTooShort(fd) == Sending(fd) /\ BodyLen(fd) < write_bytes[fd] /\ Ends("aborted")

BodyReady(fd)     == Sending(fd) /\ BodyLen(fd) >= write_bytes[fd]
FileToSend(fd)    == BodyReady(fd) /\ fd \in to_fetch_changes
ChangesToSend(fd) == BodyReady(fd) /\ fd \notin to_fetch_changes

(* Part of a body, or none: EWOULDBLOCK. *)
SendPart(fd) ==
    /\ \/ FileToSend(fd) /\ UNCHANGED <<last_change, changes_buffs>>
       \/ /\ ChangesToSend(fd)
          /\ last_change' = LastChange(Head(changes_tracker[fd]))
          /\ changes_buffs' = BuffsRead(Head(changes_tracker[fd]))
    /\ \E n \in Part \cup {0} :
         /\ n < write_bytes[fd]
         /\ write_bytes' = [write_bytes EXCEPT ![fd] = @ - n]
    /\ UNCHANGED <<pc, sockets, read_state, read_bytes, write_state, parsed, networking,
                   users, changes_tracker, changes_left, note, files, clients>>

BodySent(fd) ==
    /\ read_state' = [read_state EXCEPT ![fd] = "HEADER_TO_RECV"]
    /\ read_bytes' = [read_bytes EXCEPT ![fd] = HeaderSize]
    /\ UNCHANGED <<sockets, parsed, users, files, clients>>
StatesSent(fd) == [write_state EXCEPT ![fd] = "MSG_SENT"]
BytesSent(fd)  == [write_bytes EXCEPT ![fd] = 0]

(* The whole note has been sent: the edits kept are applied, all that the  *)
(* client ever sent if none has been dropped, and passed on.               *)
SendFile(fd) ==
    /\ FileToSend(fd) /\ BodySent(fd) /\ \A other \in contributors : Len(send_queues[other]) < MaxQueue
    /\ fd \in DOMAIN changes_buffs
    /\ edit_contents(changes_buffs[fd])
    /\ set_multicast(contributors \ {fd}, EditLen * Len(changes_buffs[fd]), BytesSent(fd), StatesSent(fd))
    /\ UNCHANGED <<changes, rounds>>

(* changes_buffs.at(): none was kept. *)
NothingKept(fd) == FileToSend(fd) /\ fd \notin DOMAIN changes_buffs /\ Ends("aborted")

SendChanges(fd) ==
    /\ ChangesToSend(fd) /\ BodySent(fd)
    /\ write_state' = StatesSent(fd) /\ write_bytes' = BytesSent(fd)
    /\ remove_sent_changes(fd, BuffsRead(Head(changes_tracker[fd])))
    /\ last_change' = LastChange(Head(changes_tracker[fd]))
    /\ send_queues' = [send_queues EXCEPT ![fd] = Tail(@)]
    /\ UNCHANGED <<pc, msg_type, msg_len, note>>

-----------------------------------------------------------------------------
(* The clients.                                                             *)

Message(type, len, edit) ==
    <<[part |-> "header", type |-> type, len |-> len, edit |-> <<>>]>>
        \o (IF len = 0 THEN <<>> ELSE <<[part |-> "body", type |-> type, len |-> len, edit |-> edit]>>)

ClientWrites(fd, message) ==
    /\ Logged(fd) /\ peer[fd] = "here" /\ sent < MaxMsgs
    /\ inbox' = [inbox EXCEPT ![fd] = @ \o message]
    /\ sent' = sent + 1
    /\ UNCHANGED <<pc, conn, peer, monitor, networking, users, changes, rounds, note, files, came>>

(* A new character, or the deletion of one the note shows. *)
ClientEdits(fd) == \E edit \in {Add(sent + 1)} \cup {Del(c) : c \in ToSet(addedChars) \ ToSet(deletedChars)} :
    ClientWrites(fd, Message(EDIT, EditLen, edit))

(* A request for the files.  (Only from clients that do not edit yet: a    *)
(* multicast between header and body would have the body stored as edit.)  *)
ClientAsks(fd) ==
    /\ fd \notin contributors /\ \A i \in DOMAIN inbox[fd] : inbox[fd][i].type # EDIT
    /\ ClientWrites(fd, Message(STATEMENT, 1, <<>>))

(* The administrator's keep-alive, a header that announces nothing. *)
ClientKeepsAlive(fd) == ClientWrites(fd, Message(LOGIN, 0, <<>>))

Lose(fd) == UNCHANGED <<pc, conn, monitor, networking, users, changes, rounds, note, files, clients>>

(* The client closes; the body of its last message may not have been sent. *)
ClientLeaves(fd) ==
    /\ Logged(fd) /\ peer[fd] = "here"
    /\ peer' = [peer EXCEPT ![fd] = "left"]
    /\ \/ UNCHANGED inbox
       \/ /\ inbox[fd] # <<>> /\ Last(inbox[fd]).part = "body"
          /\ inbox' = [inbox EXCEPT ![fd] = Front(@)]
    /\ Lose(fd)

(* The connection is reset, when the client crashes or is sent to after it *)
(* has closed: what has not been read is lost.                             *)
ClientResets(fd) ==
    /\ Logged(fd) /\ ~Reset(fd)
    /\ peer' = [peer EXCEPT ![fd] = "reset"] /\ inbox' = [inbox EXCEPT ![fd] = <<>>]
    /\ Lose(fd)

-----------------------------------------------------------------------------
Receive(fd) ==
    \/ ClientGone(fd) \/ Closed(fd) \/ HeaderUnreadable(fd) \/ RecvHeader(fd)
    \/ RecvOther(fd) \/ RecvEdit(fd) \/ RecvEditToFetch(fd)
Send(fd) ==
    \/ SendFails(fd) \/ HeaderTooShort(fd) \/ SendHeader(fd) \/ BodyTooShort(fd)
    \/ SendPart(fd) \/ SendFile(fd) \/ NothingKept(fd) \/ SendChanges(fd)
Client(fd) ==
    \/ ClientEdits(fd) \/ ClientAsks(fd) \/ ClientKeepsAlive(fd)
    \/ ClientLeaves(fd) \/ ClientResets(fd)

Next ==
    \/ SelectFails
    \/ \E fd \in Fd : Join(fd) \/ LoginDone(fd) \/ LoginAborts(fd) \/ Receive(fd) \/ Send(fd) \/ Client(fd)

Spec == Init /\ [][Next]_vars

-----------------------------------------------------------------------------
(* When nobody edits any more, the last file holds the note as it is,      *)
(* whichever way and order the editors left: no edit is applied after the  *)
(* save (remove_contributor and save_to_file at the end of a connection).  *)
SavedIsCurrent == (contributors = {} /\ files # <<>>) => Last(files) = Live

(* Changes are kept for exactly the clients registered as editing, through *)
(* every join, leave and reuse of a descriptor, and no client is ever to   *)
(* be sent its own (add_contributor, remove_contributor, keep_track).      *)
TrackersAreContributors ==
    /\ DOMAIN changes_tracker = contributors
    /\ \A fd \in contributors : fd \notin ToSet(changes_tracker[fd])

(* Every edit kept for others that came from a client working on the note  *)
(* is part of the note: what the others will be sent, the file will hold   *)
(* (handle_existing_incoming_connection applies what it stores).           *)
StoredIsApplied ==
    pc = "run" => \A fd \in DOMAIN changes_buffs \ to_fetch_changes :
        \A edit \in ToSet(changes_buffs[fd]) :
            ToSet(edit.add) \subseteq ToSet(addedChars) /\ ToSet(edit.del) \subseteq ToSet(deletedChars)

(* A header is 6 bytes, so that is the most that can be left to send of    *)
(* one (the protocol's documentation, section 8.1; set_multicast sets the  *)
(* count to the body's).                                                   *)
HeaderIsSixBytes == \A fd \in Fd : write_state[fd] = "HEADER_TO_SEND" => write_bytes[fd] <= HeaderSize

(* What goes wrong with the text takes a second editor.  As long as nobody  *)
(* has come to edit while another did, whoever comes, leaves at any point   *)
(* and reuses a descriptor: no character is in the note twice, nothing is   *)
(* queued for anyone, an editor's own edits included, no login is cut by a  *)
(* multicast's count, and the server goes neither down with a closed        *)
(* descriptor nor into a loop without end.  It may abort, for one of two    *)
(* reasons: an edit that only deletes (edit_contents reads a second piece   *)
(* that is not there), or what parse_from_string takes for a header and     *)
(* cannot read.  A second edit sent too early is dropped all the same, with *)
(* its connection.                                                          *)
AloneIsSafe ==
    to_fetch_changes = {} =>
        /\ IsInjective(addedChars)
        /\ \A fd \in Fd : send_queues[fd] = <<>> /\ write_bytes[fd] <= HeaderSize
        /\ pc \notin {"stopped", "hung"}
        /\ pc = "aborted" =>
               \/ deletedChars # <<>>
               \/ \E fd \in Fd : conn[fd] = "logged" /\ inbox[fd] # <<>> /\ ~Readable(fd)
=============================================================================
