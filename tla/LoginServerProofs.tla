-------------------------- MODULE LoginServerProofs --------------------------
(***************************************************************************)
(* For any set of descriptors, any sizes of messages and of socket buffers *)
(* and any logins.                                                         *)
(*                                                                         *)
(* The books.  The server's books are those of its open sockets, each      *)
(* connection sends or receives and never both, and only a connection on   *)
(* which check_login has said CORRECT is ever logged in.  The three are    *)
(* proved together.  A handler finds its descriptor by the states it keeps *)
(* for it, so the books stay right only while a descriptor without an      *)
(* entry has no state at all (NoEntryNoState); a new verdict cannot fall   *)
(* on a client that is logged in, because such a client owes or has been   *)
(* sent its CLIENT_ID (IdIsOwed).                                          *)
(*                                                                         *)
(* The bytes.  Whole frames alone reach a client, nothing aborts, and a    *)
(* client that takes itself for a member is one the server has logged in.  *)
(* FInv adds to the books what is under way on each connection: what has   *)
(* left the server is a prefix of the frame its counters speak of          *)
(* (Outward), and what the client has written is a suffix of the frame the *)
(* server waits for, or nothing (Inward).  The two ends take turns: while  *)
(* the client has something to hear it writes nothing.                     *)
(*                                                                         *)
(* The service.  LoginServer implements LoginService: each step of the     *)
(* server or of a client is, under LoginRefinement's mapping, a step of    *)
(* LoginService or a stutter.  The mapping reads the stage of a connection *)
(* off bytes and states, and FInv says what those can be.                  *)
(***************************************************************************)
EXTENDS LoginRefinement, SequenceTheorems, FiniteSetTheorems, TLAPS

PeerStates == {"none", "open", "left", "reset"}

(* What the proof needs of the types: the domains of the functions. *)
Shape ==
    /\ read_state \in [Fd -> ReadStates]
    /\ write_state \in [Fd -> WriteStates]
    /\ read_bytes = [fd \in Fd |-> read_bytes[fd]]
    /\ write_bytes = [fd \in Fd |-> write_bytes[fd]]
    /\ buffers = [fd \in Fd |-> buffers[fd]]
    /\ peer \in [Fd -> PeerStates]
    /\ master \subseteq Fd
    /\ logged_clients \subseteq Fd /\ rejected_logins \subseteq Fd

NoEntryNoState ==
    \A fd \in Fd : read_state[fd] = "NONE" => write_state[fd] = "NONE"

(* A client let in that has not been sent its CLIENT_ID is about to be. *)
IdIsOwed ==
    \A fd \in logged_clients \ accept_sent :
        /\ write_state[fd] \in {"HEADER_TO_SEND", "HEADER_SENT"}
        /\ read_state[fd] = "MSG_RECVD"

IInv ==
    /\ Shape
    /\ NoEntryNoState
    /\ OnlyOpenSockets
    /\ HalfDuplex
    /\ IdIsOwed
    /\ OnlyVerifiedLogIn

-----------------------------------------------------------------------------
LEMMA InitIInv == Init => IInv
BY DEF Init, IInv, Shape, NoEntryNoState, OnlyOpenSockets, HalfDuplex, IdIsOwed,
       OnlyVerifiedLogIn, Registered, ReadStates, WriteStates, PeerStates

(* A step that leaves what IInv speaks of alone. *)
LEMMA BooksUntouched ==
    ASSUME IInv,
           UNCHANGED <<states, logged_clients, accept_sent, rejected_logins,
                       verified, buffers, master, peer>>
    PROVE  IInv'
BY DEF IInv, Shape, NoEntryNoState, OnlyOpenSockets, HalfDuplex, IdIsOwed,
       OnlyVerifiedLogIn, Registered, states

(* accept(): the descriptor was free, so it had no entry and gets a new one. *)
LEMMA AcceptKeepsIInv ==
    ASSUME IInv, NEW fd \in Fd, NEW optionsSet \in BOOLEAN, Accept(fd, optionsSet)
    PROVE  IInv'
<1>1. peer[fd] = "none" /\ fd \notin master /\ read_state[fd] = "NONE"
  BY DEF Accept, Free, IInv, OnlyOpenSockets, Registered
<1>2. /\ read_state' = [read_state EXCEPT ![fd] = "IDLE"]
      /\ read_bytes' = [read_bytes EXCEPT ![fd] = 0]
      /\ write_state' = [write_state EXCEPT ![fd] = "HEADER_TO_SEND"]
      /\ write_bytes' = [write_bytes EXCEPT ![fd] = HeaderSize]
  BY <1>1 DEF Accept, add_new_cli
<1>3. /\ peer' = [peer EXCEPT ![fd] = "open"]
      /\ master' = master \cup {fd}
      /\ UNCHANGED <<logged_clients, accept_sent, rejected_logins, verified, buffers>>
  BY DEF Accept, logins
<1>4. fd \notin logged_clients \cup accept_sent \cup rejected_logins
  BY <1>1 DEF IInv, OnlyOpenSockets
<1>5. Shape' /\ NoEntryNoState'
  BY <1>2, <1>3 DEF IInv, Shape, NoEntryNoState, ReadStates, WriteStates, PeerStates
<1>6. OnlyOpenSockets'
  BY <1>2, <1>3 DEF IInv, Shape, OnlyOpenSockets, Registered
<1>7. HalfDuplex'
  BY <1>2, <1>3 DEF IInv, Shape, HalfDuplex
<1>8. IdIsOwed' /\ OnlyVerifiedLogIn'
  BY <1>2, <1>3, <1>4 DEF IInv, Shape, IdIsOwed, OnlyVerifiedLogIn
<1> QED
  BY <1>5, <1>6, <1>7, <1>8 DEF IInv

(* Closing takes every trace of the connection with it. *)
LEMMA CloseKeepsIInv ==
    ASSUME IInv, NEW fd \in Fd, Close(fd)
    PROVE  IInv'
<1>1. Shape' /\ NoEntryNoState'
  BY DEF Close, remove_socket, clear_buff, Disconnect, IInv, Shape, NoEntryNoState,
         ReadStates, WriteStates, PeerStates
<1>2. OnlyOpenSockets'
  BY DEF Close, remove_socket, clear_buff, Disconnect, IInv, Shape, OnlyOpenSockets,
         Registered
<1>3. HalfDuplex'
  BY DEF Close, remove_socket, clear_buff, Disconnect, IInv, Shape, HalfDuplex
<1>4. IdIsOwed' /\ OnlyVerifiedLogIn'
  BY DEF Close, remove_socket, clear_buff, Disconnect, IInv, Shape, IdIsOwed,
         OnlyVerifiedLogIn
<1> QED
  BY <1>1, <1>2, <1>3, <1>4 DEF IInv

LEMMA GiveUpKeepsIInv ==
    ASSUME IInv, NEW fd \in Fd, GiveUp(fd)
    PROVE  IInv'
<1>1. CASE pc = "in"
  BY <1>1, CloseKeepsIInv DEF GiveUp
<1>2. CASE pc # "in"
  BY <1>2, BooksUntouched DEF GiveUp, logins, wires
<1> QED
  BY <1>1, <1>2

-----------------------------------------------------------------------------
(* A handler sends or receives for an open connection only: the states it   *)
(* goes by are those of an entry, and entries are for open sockets.          *)
LEMMA StatesMeanOpen ==
    ASSUME IInv, NEW fd \in Fd, write_state[fd] # "NONE"
    PROVE  fd \in master /\ peer[fd] # "none" /\ read_state[fd] # "NONE"
BY DEF IInv, NoEntryNoState, OnlyOpenSockets, Registered

(* The type of the message due to a connection whose login has not ended.   *)
LEMMA IdIsDue ==
    ASSUME IInv, NEW fd \in Fd, fd \notin accept_sent, fd \in logged_clients
    PROVE  get_login_state(fd).type = CLIENT_ID
BY DEF IInv, IdIsOwed, get_login_state, CLIENT_ID

(* Sending moves bytes and at most resets the peer; it closes nothing. *)
LEMMA PutOnWireKeepsOpen ==
    ASSUME IInv, NEW fd \in Fd, peer[fd] # "none", NEW bytes, PutOnWire(fd, bytes)
    PROVE  /\ peer' \in [Fd -> PeerStates]
           /\ \A other \in Fd : peer'[other] # "none" <=> peer[other] # "none"
BY DEF PutOnWire, IInv, Shape, PeerStates

(* What a partial send, a sent header and a sent body have in common. *)
LEMMA SendTakesKeepsIInv ==
    ASSUME IInv, NEW fd \in Fd, Sending(fd), SendTakes(fd)
    PROVE  IInv'
<1>1. /\ fd \in master /\ peer[fd] # "none" /\ read_state[fd] # "NONE"
      /\ fd \notin accept_sent
      /\ write_state[fd] \in {"HEADER_TO_SEND", "HEADER_SENT"}
      /\ read_state[fd] \in {"IDLE", "MSG_RECVD"} /\ read_bytes[fd] = 0
  BY StatesMeanOpen DEF Sending, LoggingIn, IInv, HalfDuplex
<1>2. /\ peer' \in [Fd -> PeerStates]
      /\ \A other \in Fd : peer'[other] # "none" <=> peer[other] # "none"
  BY <1>1, PutOnWireKeepsOpen DEF SendTakes
<1>3. UNCHANGED <<master, buffers, logged_clients, rejected_logins, verified>>
  BY DEF SendTakes, logins, HeaderSent, BodySent
<1>4. CASE /\ UNCHANGED <<read_state, read_bytes, accept_sent>>
           /\ write_state' \in {write_state, [write_state EXCEPT ![fd] = "HEADER_SENT"]}
           /\ \E n : write_bytes' = [write_bytes EXCEPT ![fd] = n]
  <2>1. Shape' /\ NoEntryNoState'
    BY <1>1, <1>2, <1>3, <1>4 DEF IInv, Shape, NoEntryNoState, WriteStates
  <2>2. OnlyOpenSockets'
    BY <1>2, <1>3, <1>4 DEF IInv, Shape, OnlyOpenSockets, Registered
  <2>3. HalfDuplex'
    BY <1>1, <1>3, <1>4 DEF IInv, Shape, HalfDuplex
  <2>4. IdIsOwed' /\ OnlyVerifiedLogIn'
    BY <1>1, <1>3, <1>4 DEF IInv, Shape, IdIsOwed, OnlyVerifiedLogIn
  <2> QED
    BY <2>1, <2>2, <2>3, <2>4 DEF IInv
<1>5. CASE BodySent(fd)
  <2>1. /\ read_state' = [read_state EXCEPT ![fd] = "HEADER_TO_RECV"]
        /\ read_bytes' = [read_bytes EXCEPT ![fd] = HeaderSize]
        /\ write_state' = [write_state EXCEPT ![fd] = "MSG_SENT"]
        /\ write_bytes' = [write_bytes EXCEPT ![fd] = 0]
    BY <1>5 DEF BodySent, TurnToRecv
  <2>2. accept_sent' = accept_sent \cup (logged_clients \cap {fd})
    <3>1. CASE fd \in logged_clients
      BY <1>1, <1>5, <3>1, IdIsDue DEF BodySent
    <3>2. CASE fd \notin logged_clients
      BY <1>5, <3>2 DEF BodySent
    <3> QED
      BY <3>1, <3>2
  <2>3. Shape' /\ NoEntryNoState'
    BY <1>2, <1>3, <2>1 DEF IInv, Shape, NoEntryNoState, ReadStates, WriteStates
  <2>4. OnlyOpenSockets'
    BY <1>1, <1>2, <1>3, <2>1, <2>2 DEF IInv, Shape, OnlyOpenSockets, Registered
  <2>5. HalfDuplex'
    BY <1>3, <2>1 DEF IInv, Shape, HalfDuplex
  <2>6. IdIsOwed' /\ OnlyVerifiedLogIn'
    BY <1>3, <2>1, <2>2 DEF IInv, Shape, IdIsOwed, OnlyVerifiedLogIn
  <2> QED
    BY <2>3, <2>4, <2>5, <2>6 DEF IInv
<1>6. CASE HeaderSent(fd)
  BY <1>4, <1>6 DEF HeaderSent, logins
<1>7. CASE /\ write_bytes' = [write_bytes EXCEPT ![fd] = @ - Taken(fd)]
           /\ UNCHANGED <<read_state, read_bytes, write_state, logins>>
  BY <1>4, <1>7 DEF logins
<1> QED
  BY <1>5, <1>6, <1>7 DEF SendTakes

LEMMA SendKeepsIInv ==
    ASSUME IInv, NEW fd \in Fd, Send(fd)
    PROVE  IInv'
<1>1. CASE SendTakes(fd)
  BY <1>1, SendTakesKeepsIInv DEF Send
<1>2. CASE SendBlocks(fd)
  BY <1>2, BooksUntouched DEF SendBlocks, logins, wires
<1>3. CASE SendFails(fd)
  BY <1>3, GiveUpKeepsIInv DEF SendFails
<1>4. CASE SigPipe(fd)
  BY <1>4, BooksUntouched DEF SigPipe, logins, wires
<1>5. CASE UNCHANGED <<master, states, logins, buffers, wires>>
  BY <1>5, BooksUntouched DEF logins, wires
<1> QED
  BY <1>1, <1>2, <1>3, <1>4, <1>5 DEF Send

-----------------------------------------------------------------------------
(* Part of a message, or a header: the connection goes on receiving. *)
LEMMA RecvKeepsIInv ==
    ASSUME IInv, NEW fd \in Fd, RecvPart(fd) \/ RecvHeader(fd)
    PROVE  IInv'
<1>1. /\ fd \in master /\ read_state[fd] # "NONE"
      /\ write_state[fd] = "MSG_SENT" /\ write_bytes[fd] = 0
      /\ fd \notin logged_clients \ accept_sent
  BY StatesMeanOpen
     DEF RecvPart, RecvHeader, CanRecv, Receiving, IInv, HalfDuplex, IdIsOwed
<1>2. UNCHANGED <<master, peer, write_state, write_bytes,
                  logged_clients, accept_sent, rejected_logins, verified>>
  BY DEF RecvPart, RecvHeader, CanRecv, logins
<1>3. /\ read_state' \in {read_state, [read_state EXCEPT ![fd] = "HEADER_RECVD"]}
      /\ \E n : read_bytes' \in {read_bytes, [read_bytes EXCEPT ![fd] = n]}
      /\ \E b : buffers' \in {buffers, [buffers EXCEPT ![fd] = b]}
  BY DEF RecvPart, RecvHeader, clear_buff
<1>4. read_state[fd] \in {"HEADER_TO_RECV", "HEADER_RECVD"}
  BY DEF RecvPart, RecvHeader, CanRecv, Receiving
<1>5. Shape' /\ NoEntryNoState'
  BY <1>1, <1>2, <1>3 DEF IInv, Shape, NoEntryNoState, ReadStates
<1>6. OnlyOpenSockets'
  BY <1>1, <1>2, <1>3 DEF IInv, Shape, OnlyOpenSockets, Registered
<1>7. HalfDuplex'
  <2>1. /\ HalfDuplex /\ read_state \in [Fd -> ReadStates] /\ master \subseteq Fd
        /\ read_bytes = [other \in Fd |-> read_bytes[other]]
    BY DEF IInv, Shape
  <2>2. /\ \A other \in Fd \ {fd} : /\ read_state'[other] = read_state[other]
                                   /\ read_bytes'[other] = read_bytes[other]
        /\ read_state'[fd] \in {"HEADER_TO_RECV", "HEADER_RECVD"}
    BY <1>3, <1>4, <2>1
  <2> QED
    BY <1>1, <1>2, <1>4, <2>1, <2>2 DEF HalfDuplex
<1>8. IdIsOwed' /\ OnlyVerifiedLogIn'
  BY <1>1, <1>2, <1>3 DEF IInv, Shape, IdIsOwed, OnlyVerifiedLogIn
<1> QED
  BY <1>5, <1>6, <1>7, <1>8 DEF IInv

(* A login is decided: it cannot be that of a client already logged in. *)
LEMMA RecvLoginKeepsIInv ==
    ASSUME IInv, NEW fd \in Fd, RecvLogin(fd)
    PROVE  IInv'
<1>1. /\ fd \in master /\ read_state[fd] # "NONE"
      /\ fd \notin accept_sent /\ fd \notin logged_clients
  BY StatesMeanOpen
     DEF RecvLogin, CanRecv, Receiving, LoggingIn, IInv, HalfDuplex, IdIsOwed
<1>2. /\ write_state' = [write_state EXCEPT ![fd] = "HEADER_TO_SEND"]
      /\ write_bytes' = [write_bytes EXCEPT ![fd] = HeaderSize]
      /\ read_state' = [read_state EXCEPT ![fd] = "MSG_RECVD"]
      /\ read_bytes' = [read_bytes EXCEPT ![fd] = 0]
      /\ buffers' = [buffers EXCEPT ![fd] = <<>>]
      /\ UNCHANGED <<master, peer, accept_sent>>
  BY DEF RecvLogin, CanRecv, TurnToSend, clear_buff
<1>3. \/ /\ rejected_logins' = rejected_logins \ {fd}
         /\ logged_clients' = logged_clients \cup {fd}
         /\ verified' = verified \cup {fd}
      \/ /\ rejected_logins' = rejected_logins \cup {fd}
         /\ UNCHANGED <<logged_clients, verified>>
  BY DEF RecvLogin, check_login, Admit, Reject
<1>4. Shape' /\ NoEntryNoState'
  BY <1>2, <1>3 DEF IInv, Shape, NoEntryNoState, ReadStates, WriteStates
<1>5. OnlyOpenSockets'
  BY <1>1, <1>2, <1>3 DEF IInv, Shape, OnlyOpenSockets, Registered
<1>6. HalfDuplex'
  BY <1>2 DEF IInv, Shape, HalfDuplex
<1>7. IdIsOwed' /\ OnlyVerifiedLogIn'
  BY <1>1, <1>2, <1>3 DEF IInv, Shape, IdIsOwed, OnlyVerifiedLogIn
<1> QED
  BY <1>4, <1>5, <1>6, <1>7 DEF IInv

LEMMA HandlerKeepsIInv ==
    ASSUME IInv, NEW fd \in Fd, Handler(fd)
    PROVE  IInv'
<1>1. CASE Send(fd)
  BY <1>1, SendKeepsIInv
<1>2. CASE RecvEnds(fd)
  BY <1>2, GiveUpKeepsIInv DEF RecvEnds
<1>3. CASE RecvBlocks(fd)
  BY <1>3, BooksUntouched DEF RecvBlocks, logins, wires
<1>4. CASE RecvPart(fd) \/ RecvHeader(fd)
  BY <1>4, RecvKeepsIInv
<1>5. CASE RecvLogin(fd)
  BY <1>5, RecvLoginKeepsIInv
<1>6. CASE ServeLogged(fd)
  <2>1. CASE GiveUp(fd)
    BY <2>1, GiveUpKeepsIInv
  <2>2. CASE ~GiveUp(fd)
    BY <1>6, <2>2, BooksUntouched DEF ServeLogged, logins, wires
  <2> QED
    BY <2>1, <2>2
<1> QED
  BY <1>1, <1>2, <1>3, <1>4, <1>5, <1>6 DEF Handler

LEMMA ServerKeepsIInv ==
    ASSUME IInv, Server
    PROVE  IInv'
<1>1. CASE \E fd \in Fd : Handler(fd)
  BY <1>1, HandlerKeepsIInv
<1>2. CASE \E fd \in Fd, optionsSet \in BOOLEAN : Accept(fd, optionsSet)
  BY <1>2, AcceptKeepsIInv
<1>3. CASE Select \/ EndRound \/ AcceptFails \/ AcceptedAll
  BY <1>3, BooksUntouched
     DEF Select, EndRound, AcceptFails, AcceptedAll, logins, wires
<1>4. CASE \E fd \in Fd \cup {Listening} : VisitReadable(fd) \/ VisitWritable(fd)
  BY <1>4, BooksUntouched DEF VisitReadable, VisitWritable, logins, wires
<1> QED
  BY <1>1, <1>2, <1>3, <1>4 DEF Server

(* The clients touch no book of the server; one that leaves stays connected *)
(* until the server closes its side.                                        *)
LEMMA ClientKeepsIInv ==
    ASSUME IInv, Client
    PROVE  IInv'
<1>1. CASE \E fd \in Fd : ClientLeave(fd)
  <2>1. PICK fd \in Fd : ClientLeave(fd)
    BY <1>1
  <2>2. /\ peer' \in [Fd -> PeerStates]
        /\ \A other \in Fd : peer'[other] # "none" <=> peer[other] # "none"
    BY <2>1 DEF ClientLeave, IInv, Shape, PeerStates
  <2>3. UNCHANGED <<states, logged_clients, accept_sent, rejected_logins, verified,
                    buffers, master>>
    BY <2>1 DEF ClientLeave, process, logins
  <2> QED
    BY <2>2, <2>3 DEF IInv, Shape, NoEntryNoState, OnlyOpenSockets, HalfDuplex,
                      IdIsOwed, OnlyVerifiedLogIn, Registered, states
<1>2. CASE ClientConnect \/ \E fd \in Fd : ClientRead(fd) \/ ClientWrite(fd)
  BY <1>2, BooksUntouched
     DEF ClientConnect, ClientRead, ClientWrite, process, logins
<1>3. CASE \E fd \in Fd, attempt \in Attempts :
              ClientAnswer(fd, attempt) \/ ClientAnswerLate(fd, attempt)
  BY <1>3, BooksUntouched DEF ClientAnswer, ClientAnswerLate, process, logins, wires
<1>4. CASE \E fd \in Fd : ClientKeepAlive(fd)
  BY <1>4, BooksUntouched DEF ClientKeepAlive, process, logins, wires
<1> QED
  BY <1>1, <1>2, <1>3, <1>4 DEF Client

LEMMA NextKeepsIInv == IInv /\ [Next]_vars => IInv'
<1> SUFFICES ASSUME IInv, [Next]_vars PROVE IInv'
  OBVIOUS
<1>1. CASE Server
  BY <1>1, ServerKeepsIInv
<1>2. CASE Client
  BY <1>2, ClientKeepsIInv
<1>3. CASE UNCHANGED vars
  BY <1>3, BooksUntouched DEF vars, process, logins, wires
<1> QED
  BY <1>1, <1>2, <1>3 DEF Next, Terminated

LEMMA Invariance == Spec => []IInv
BY InitIInv, NextKeepsIInv, PTL DEF Spec

-----------------------------------------------------------------------------
(* ClientsMonitor has an entry for the open sockets and no other, and the   *)
(* closed ones have left no bytes and no login behind.                      *)
THEOREM BooksMatchSockets == Spec => []OnlyOpenSockets
<1>1. IInv => OnlyOpenSockets
  BY DEF IInv
<1> QED
  BY <1>1, Invariance, PTL

(* A connection sends or receives, never both. *)
THEOREM SendsOrReceives == Spec => []HalfDuplex
<1>1. IInv => HalfDuplex
  BY DEF IInv
<1> QED
  BY <1>1, Invariance, PTL

(* Nobody is logged in but by a login that check_login took for correct. *)
THEOREM VerifiedLogins == Spec => []OnlyVerifiedLogIn
<1>1. IInv => OnlyVerifiedLogIn
  BY DEF IInv
<1> QED
  BY <1>1, Invariance, PTL

-----------------------------------------------------------------------------
(* Sequences.                                                               *)

LEMMA PartsAreEqual ==
    ASSUME NEW S, NEW p \in Seq(S), NEW q \in Seq(S), NEW x \in Seq(S), NEW y \in Seq(S),
           p \o q = x \o y, Len(p) = Len(x)
    PROVE  p = x /\ q = y
<1>1. Len(p) + Len(q) = Len(x) + Len(y) /\ Len(p) \in Nat /\ Len(q) \in Nat /\ Len(y) \in Nat
  <2>1. Len(p \o q) = Len(p) + Len(q) /\ Len(x \o y) = Len(x) + Len(y)
    BY ConcatProperties
  <2>2. Len(p) \in Nat /\ Len(q) \in Nat /\ Len(y) \in Nat
    BY LenProperties
  <2> QED
    BY <2>1, <2>2
<1>2. Len(q) = Len(y)
  BY <1>1
<1>3. \A s, t \in Seq(S) : \A k \in 1..Len(s) + Len(t) :
         (s \o t)[k] = IF k <= Len(s) THEN s[k] ELSE t[k - Len(s)]
  BY ConcatProperties
<1>4. ASSUME NEW i \in 1..Len(p) PROVE p[i] = x[i]
  <2>1. i \in 1..Len(p) + Len(q) /\ i <= Len(p)
    BY <1>1
  <2>2. (p \o q)[i] = p[i] /\ (x \o y)[i] = x[i]
    BY <1>1, <1>2, <1>3, <2>1
  <2> QED
    BY <2>2
<1>5. ASSUME NEW i \in 1..Len(q) PROVE q[i] = y[i]
  <2> DEFINE k == i + Len(p)
  <2>1. k \in 1..Len(p) + Len(q) /\ ~(k <= Len(p)) /\ k - Len(p) = i
    BY <1>1
  <2> HIDE DEF k
  <2>2. (p \o q)[k] = q[i] /\ (x \o y)[k] = y[i]
    BY <1>1, <1>2, <1>3, <2>1
  <2> QED
    BY <2>2
<1> QED
  BY <1>2, <1>4, <1>5, SeqEqual

LEMMA CutAnywhere ==
    ASSUME NEW S, NEW s \in Seq(S), NEW n \in 0..Len(s)
    PROVE  /\ First(s, n) \in Seq(S) /\ Len(First(s, n)) = n
           /\ Rest(s, n) \in Seq(S) /\ Len(Rest(s, n)) = Len(s) - n
           /\ First(s, n) \o Rest(s, n) = s
           /\ \A i \in 1..n : First(s, n)[i] = s[i]
<1>1. Len(s) \in Nat /\ n \in Nat /\ n <= Len(s)
  BY LenProperties
<1>2. \A i \in 1..Len(s) : s[i] \in S
  BY ElementOfSeq
<1>3. /\ First(s, n) \in Seq(S) /\ Len(First(s, n)) = n
      /\ \A i \in 1..n : First(s, n)[i] = s[i]
  <2>1. \A i \in 1..n : s[i] \in S
    BY <1>1, <1>2
  <2>2. Len(First(s, n)) = IF 1 <= n THEN n - 1 + 1 ELSE 0
    BY <2>1, <1>1, SubSeqProperties DEF First
  <2>3. /\ First(s, n) \in Seq(S)
        /\ \A i \in 1..(n - 1 + 1) : First(s, n)[i] = s[1 + i - 1]
    BY <2>1, <1>1, SubSeqProperties DEF First
  <2>4. n - 1 + 1 = n /\ \A i \in 1..n : 1 + i - 1 = i
    BY <1>1
  <2> QED
    BY <2>2, <2>3, <2>4, <1>1
<1>4. Rest(s, n) \in Seq(S) /\ Len(Rest(s, n)) = Len(s) - n
  <2>1. n + 1 \in Int /\ Len(s) \in Int /\ \A i \in (n + 1)..Len(s) : s[i] \in S
    BY <1>1, <1>2
  <2>2. /\ Rest(s, n) \in Seq(S)
        /\ Len(Rest(s, n)) = IF n + 1 <= Len(s) THEN Len(s) - (n + 1) + 1 ELSE 0
    BY <2>1, SubSeqProperties DEF Rest
  <2> QED
    BY <2>2, <1>1
<1>5. First(s, n) \o Rest(s, n) = s
  <2>1. /\ 1 \in 1..Len(s) + 1 /\ n \in (1 - 1)..Len(s) /\ Len(s) \in n..Len(s)
    BY <1>1
  <2>2. SubSeq(s, 1, n) \o SubSeq(s, n + 1, Len(s)) = SubSeq(s, 1, Len(s))
    BY <2>1, ConcatAdjacentSubSeq
  <2> QED
    BY <2>2, SubSeqFull DEF First, Rest
<1> QED
  BY <1>3, <1>4, <1>5

(* A byte that moves from a sequence to the one before it. *)
LEMMA ByteMoves ==
    ASSUME NEW S, NEW g \in Seq(S), NEW o \in Seq(S), o # <<>>
    PROVE  /\ Append(g, Head(o)) \in Seq(S) /\ Tail(o) \in Seq(S)
           /\ Append(g, Head(o)) \o Tail(o) = g \o o
<1>1. Head(o) \in S /\ Tail(o) \in Seq(S) /\ Len(Tail(o)) = Len(o) - 1
      /\ \A k \in 1..Len(Tail(o)) : Tail(o)[k] = o[k + 1]
  BY HeadTailProperties
<1>2. Append(g, Head(o)) \in Seq(S) /\ Append(g, Head(o)) = g \o <<Head(o)>>
  BY <1>1, AppendProperties, AppendIsConcat
<1>3. <<Head(o)>> \in Seq(S) /\ <<Head(o)>> \o Tail(o) = o
  <2>1. Len(o) \in Nat \ {0}
    BY EmptySeq
  <2>2. 1 \in 1..Len(o) /\ Len(o) \in 1..Len(o)
    BY <2>1
  <2>3. SubSeq(o, 1, Len(o)) = <<o[1]>> \o SubSeq(o, 1 + 1, Len(o))
    BY <2>2, SubSeqRecursiveFirst
  <2>4. SubSeq(o, 1, Len(o)) = o /\ Tail(o) = SubSeq(o, 2, Len(o)) /\ Head(o) = o[1]
    BY SubSeqFull, TailIsSubSeq
  <2>5. <<Head(o)>> \in Seq(S)
    BY <1>1
  <2> QED
    BY <2>3, <2>4, <2>5
<1>4. (g \o <<Head(o)>>) \o Tail(o) = g \o (<<Head(o)>> \o Tail(o))
  BY <1>1, <1>3, ConcatAssociative
<1> QED
  BY <1>1, <1>2, <1>3, <1>4

(* More of a sequence of which the first bytes are there. *)
LEMMA PrefixGrows ==
    ASSUME NEW S, NEW f \in Seq(S), NEW n \in 0..Len(f), NEW m \in n..Len(f)
    PROVE  First(f, n) \o SubSeq(f, n + 1, m) = First(f, m)
<1>1. Len(f) \in Nat
  BY LenProperties
<1>2. 1 \in 1..Len(f) + 1 /\ n \in (1 - 1)..Len(f)
  BY <1>1
<1> QED
  BY <1>2, ConcatAdjacentSubSeq DEF First

LEMMA PartOfHeader ==
    ASSUME NEW S, NEW x \in Seq(S), NEW y \in Seq(S), NEW n \in 0..Len(x), NEW m \in n..Len(x)
    PROVE  SubSeq(x \o y, n + 1, m) = SubSeq(x, n + 1, m)
<1>1. Len(x) \in Nat
  BY LenProperties
<1>2. CASE m = n
  BY <1>1, <1>2, SubSeqEmpty
<1>3. CASE m # n
  <2>1. n + 1 \in 1..Len(x) /\ m \in 1..Len(x)
    BY <1>1, <1>3
  <2> QED
    BY <2>1, SubSeqOfConcat1
<1> QED
  BY <1>2, <1>3

LEMMA PartOfBody ==
    ASSUME NEW S, NEW x \in Seq(S), NEW y \in Seq(S), NEW n \in 0..Len(y), NEW m \in n..Len(y)
    PROVE  SubSeq(x \o y, Len(x) + n + 1, Len(x) + m) = SubSeq(y, n + 1, m)
<1>1. Len(x) \in Nat /\ Len(y) \in Nat
  BY LenProperties
<1>2. CASE m = n
  <2>1. Len(x) + n + 1 \in Int /\ Len(x) + m \in Int /\ Len(x) + m < Len(x) + n + 1
        /\ n + 1 \in Int /\ m \in Int /\ m < n + 1
    BY <1>1, <1>2
  <2> QED
    BY <2>1, SubSeqEmpty
<1>3. CASE m # n
  <2>1. /\ Len(x) + n + 1 \in (Len(x) + 1)..(Len(x) + Len(y))
        /\ Len(x) + m \in (Len(x) + 1)..(Len(x) + Len(y))
        /\ Len(x) + n + 1 - Len(x) = n + 1 /\ Len(x) + m - Len(x) = m
    BY <1>1, <1>3
  <2> QED
    BY <2>1, SubSeqOfConcat2
<1> QED
  BY <1>2, <1>3

-----------------------------------------------------------------------------
(* Messages and their bytes.                                               *)

ToClient == Byte(ServerMsgs)
ToServer == Byte(ClientMsgs)

LEMMA Widths == \A n \in Nat : get_byte_width(n) \in 1..4
BY DEF get_byte_width

LEMMA BytesOfMessage ==
    ASSUME NEW Msgs, NEW m \in Msgs, Size(m) \in Nat
    PROVE  /\ Bytes(m) \in Seq(Byte(Msgs)) /\ Len(Bytes(m)) = Size(m)
           /\ \A i \in 1..Size(m) : Bytes(m)[i].msg = m /\ Bytes(m)[i].at = i
<1>1. \A i \in 1..Size(m) : [msg |-> m, at |-> i] \in Byte(Msgs)
  BY DEF Byte
<1>2. Bytes(m) \in [1..Size(m) -> Byte(Msgs)]
  BY <1>1 DEF Bytes
<1>3. Bytes(m) \in Seq(Byte(Msgs)) /\ Len(Bytes(m)) = Size(m)
  BY <1>2
<1> QED
  BY <1>3 DEF Bytes

LEMMA HeaderMessage ==
    ASSUME NEW type \in {LOGIN, STATEMENT, CLIENT_ID}, NEW len \in Nat
    PROVE  /\ Header(type, len) \in ServerMsgs /\ Header(type, len) \in ClientMsgs
           /\ Header(type, len).kind = "HEADER" /\ Header(type, len).len = len
           /\ Size(Header(type, len)) = HeaderSize
BY DEF Header, Headers, ServerMsgs, ClientMsgs, Size

LEMMA LoginMessage ==
    ASSUME NEW attempt \in Attempts
    PROVE  /\ Login(attempt) \in ClientMsgs /\ Login(attempt).attempt = attempt
           /\ Size(Login(attempt)) = LoginLen
BY DEF Login, ClientMsgs, Size

(* What a client may answer a prompt with. *)
LEMMA ClientFrames ==
    /\ LOGIN \in {LOGIN, STATEMENT, CLIENT_ID} /\ LoginLen \in Nat /\ HeaderSize \in Nat
    /\ \A n \in {0, LoginLen} :
          /\ Bytes(Header(LOGIN, n)) \in Seq(ToServer)
          /\ Len(Bytes(Header(LOGIN, n))) = HeaderSize
    /\ \A attempt \in Attempts :
          /\ Bytes(Login(attempt)) \in Seq(ToServer)
          /\ Len(Bytes(Login(attempt))) = LoginLen
          /\ LoginFrame(attempt) \in Seq(ToServer)
    /\ KeepAliveFrame \in Seq(ToServer)
<1>1. LOGIN \in {LOGIN, STATEMENT, CLIENT_ID} /\ LoginLen \in Nat /\ HeaderSize \in Nat
  BY SizeAssumption
<1>2. ASSUME NEW n \in {0, LoginLen}
      PROVE  /\ Bytes(Header(LOGIN, n)) \in Seq(ToServer)
             /\ Len(Bytes(Header(LOGIN, n))) = HeaderSize
  <2>1. n \in Nat
    BY <1>1
  <2>2. Header(LOGIN, n) \in ClientMsgs /\ Size(Header(LOGIN, n)) = HeaderSize
    BY <1>1, <2>1, HeaderMessage
  <2> QED
    BY <1>1, <2>2, BytesOfMessage DEF ToServer
<1>3. ASSUME NEW attempt \in Attempts
      PROVE  /\ Bytes(Login(attempt)) \in Seq(ToServer)
             /\ Len(Bytes(Login(attempt))) = LoginLen
             /\ LoginFrame(attempt) \in Seq(ToServer)
  <2>1. Bytes(Login(attempt)) \in Seq(ToServer) /\ Len(Bytes(Login(attempt))) = LoginLen
    <3>1. Login(attempt) \in ClientMsgs /\ Size(Login(attempt)) = LoginLen
      BY LoginMessage
    <3> QED
      BY <1>1, <3>1, BytesOfMessage DEF ToServer
  <2>2. Bytes(Header(LOGIN, LoginLen)) \in Seq(ToServer)
    BY <1>2
  <2> QED
    BY <2>1, <2>2, ConcatProperties DEF LoginFrame
<1> QED
  BY <1>1, <1>2, <1>3 DEF KeepAliveFrame

(* The frame that a connection owes or has just sent. *)
HeaderOf(fd) ==
    Header(IF fd \in logged_clients THEN CLIENT_ID ELSE STATEMENT, Size(LastSent(fd)))
FrameOf(fd) == Bytes(HeaderOf(fd)) \o Bytes(LastSent(fd))

LEMMA LastSentMessage ==
    ASSUME NEW fd \in Fd
    PROVE  /\ LastSent(fd) \in ServerMsgs /\ Size(LastSent(fd)) \in 1..4
           /\ Size(LastSent(fd)) = get_byte_width(LastSent(fd).info)
           /\ LastSent(fd).kind = IF fd \in logged_clients THEN "CLIENT_ID" ELSE "STATEMENT"
<1>1. fd \in Nat /\ LOGIN_REQ \in Nat /\ LOGIN_REJ \in Nat
  BY FdAssumption DEF LOGIN_REQ, LOGIN_REJ
<1>2. CASE fd \in logged_clients
  <2>1. LastSent(fd) = ClientID(fd)
    BY <1>2 DEF LastSent
  <2>2. ClientID(fd).kind = "CLIENT_ID" /\ ClientID(fd).info = fd /\ ClientID(fd) \in ServerMsgs
    BY DEF ClientID, ServerMsgs
  <2>3. Size(ClientID(fd)) = get_byte_width(fd)
    BY <2>2 DEF Size
  <2> QED
    BY <1>1, <1>2, <2>1, <2>2, <2>3, Widths
<1>3. CASE fd \notin logged_clients
  <2>1. PICK info \in {LOGIN_REQ, LOGIN_REJ} : LastSent(fd) = Statement(info)
    BY <1>3 DEF LastSent
  <2>2. /\ Statement(info).kind = "STATEMENT" /\ Statement(info).info = info
        /\ Statement(info) \in ServerMsgs
    BY DEF Statement, ServerMsgs
  <2>3. Size(Statement(info)) = get_byte_width(info)
    BY <2>2 DEF Size
  <2> QED
    BY <1>1, <1>3, <2>1, <2>2, <2>3, Widths
<1> QED
  BY <1>2, <1>3

LEMMA FrameShape ==
    ASSUME NEW fd \in Fd
    PROVE  /\ HeaderSize \in Nat \ {0} /\ Size(LastSent(fd)) \in 1..4
           /\ Bytes(HeaderOf(fd)) \in Seq(ToClient) /\ Bytes(LastSent(fd)) \in Seq(ToClient)
           /\ FrameOf(fd) \in Seq(ToClient)
           /\ Size(HeaderOf(fd)) = HeaderSize /\ Len(Bytes(HeaderOf(fd))) = HeaderSize
           /\ Len(Bytes(LastSent(fd))) = Size(LastSent(fd))
           /\ Len(FrameOf(fd)) = HeaderSize + Size(LastSent(fd))
           /\ HeaderOf(fd).len = Size(LastSent(fd))
           /\ FrameOf(fd)[1].msg = HeaderOf(fd)
           /\ FrameOf(fd)[Len(FrameOf(fd))].msg = LastSent(fd)
<1> DEFINE h == HeaderOf(fd)
           b == LastSent(fd)
<1>1. HeaderSize \in Nat \ {0} /\ HeaderSize \in Nat
  BY SizeAssumption
<1>2. b \in ServerMsgs /\ Size(b) \in 1..4 /\ Size(b) \in Nat
  BY LastSentMessage
<1>3. h \in ServerMsgs /\ Size(h) = HeaderSize /\ h.len = Size(b)
  BY <1>2, HeaderMessage DEF HeaderOf
<1>4. /\ Bytes(h) \in Seq(ToClient) /\ Len(Bytes(h)) = HeaderSize
      /\ \A i \in 1..HeaderSize : Bytes(h)[i].msg = h
  BY <1>1, <1>3, BytesOfMessage DEF ToClient
<1>5. /\ Bytes(b) \in Seq(ToClient) /\ Len(Bytes(b)) = Size(b)
      /\ \A i \in 1..Size(b) : Bytes(b)[i].msg = b
  BY <1>2, BytesOfMessage DEF ToClient
<1> HIDE DEF h, b
<1>6. /\ Bytes(h) \o Bytes(b) \in Seq(ToClient)
      /\ Len(Bytes(h) \o Bytes(b)) = Len(Bytes(h)) + Len(Bytes(b))
      /\ \A i \in 1..(Len(Bytes(h)) + Len(Bytes(b))) :
            (Bytes(h) \o Bytes(b))[i] =
                IF i <= Len(Bytes(h)) THEN Bytes(h)[i] ELSE Bytes(b)[i - Len(Bytes(h))]
  BY <1>4, <1>5, ConcatProperties
<1>7. (Bytes(h) \o Bytes(b))[1].msg = h
  <2>1. 1 \in 1..(HeaderSize + Size(b)) /\ 1 <= HeaderSize /\ 1 \in 1..HeaderSize
    BY <1>1, <1>2
  <2> QED
    BY <2>1, <1>4, <1>5, <1>6
<1>8. (Bytes(h) \o Bytes(b))[HeaderSize + Size(b)].msg = b
  <2>1. /\ HeaderSize + Size(b) \in 1..(HeaderSize + Size(b))
        /\ ~(HeaderSize + Size(b) <= HeaderSize)
        /\ HeaderSize + Size(b) - HeaderSize = Size(b) /\ Size(b) \in 1..Size(b)
    <3>1. \A i, j \in Nat \ {0} :
             /\ i + j \in 1..(i + j) /\ ~(i + j <= i) /\ i + j - i = j /\ j \in 1..j
      OBVIOUS
    <3>2. Size(b) \in Nat \ {0}
      BY <1>2
    <3> QED
      BY <1>1, <3>1, <3>2
  <2>2. (Bytes(h) \o Bytes(b))[HeaderSize + Size(b)] = Bytes(b)[Size(b)]
    BY <2>1, <1>4, <1>5, <1>6
  <2> QED
    BY <2>1, <2>2, <1>5
<1> QED
  BY <1>1, <1>2, <1>3, <1>4, <1>5, <1>6, <1>7, <1>8 DEF FrameOf, h, b
-----------------------------------------------------------------------------
(* The inductive invariant.                                                *)

BytesShape ==
    /\ got \in [Fd -> Seq(ToClient)] /\ outbox \in [Fd -> Seq(ToClient)]
    /\ inbox \in [Fd -> Seq(ToServer)] /\ draft \in [Fd -> Seq(ToServer)]
    /\ buffers \in [Fd -> Seq(ToServer)]
    /\ read_bytes \in [Fd -> Nat] /\ write_bytes \in [Fd -> Nat]
    /\ accept_sent \subseteq Fd /\ prompted \subseteq Fd /\ kept \subseteq Fd
    /\ members \subseteq Fd

(* The verdict on a connection is the one its states go by. *)
VerdictFits(fd) ==
    /\ read_state[fd] = "IDLE" => fd \notin logged_clients \cup rejected_logins
    /\ read_state[fd] = "MSG_RECVD" => fd \in logged_clients \cup rejected_logins
    /\ fd \in accept_sent =>
          write_state[fd] = "MSG_SENT" /\ read_state[fd] = "HEADER_TO_RECV"

(* What remains to be sent is part of what is being sent. *)
CountFits(fd) ==
    /\ write_state[fd] = "HEADER_TO_SEND" => write_bytes[fd] \in 1..HeaderSize
    /\ write_state[fd] = "HEADER_SENT" => write_bytes[fd] \in 1..Size(LastSent(fd))

(* How many bytes of the frame have been sent. *)
SentOf(fd) ==
    IF write_state[fd] = "HEADER_TO_SEND" THEN HeaderSize - write_bytes[fd]
    ELSE IF write_state[fd] = "HEADER_SENT"
         THEN HeaderSize + Size(LastSent(fd)) - write_bytes[fd]
         ELSE HeaderSize + Size(LastSent(fd))

(* They are what the client has not consumed, unless it has consumed all. *)
Outward(fd) ==
    peer[fd] = "open" =>
        \/ Unread(fd) = First(FrameOf(fd), SentOf(fd))
        \/ Unread(fd) = <<>> /\ write_state[fd] = "MSG_SENT"

(* The bytes on their way to the server; there are none while it has not    *)
(* sent all of its own message and the client has not read all of it ...    *)
Coming(fd) == buffers[fd] \o inbox[fd] \o draft[fd]
Hears(fd)  == write_state[fd] # "MSG_SENT" \/ (peer[fd] = "open" /\ Unread(fd) # <<>>)

(* ... and after that, the answer to the prompt, of which the server has    *)
(* taken as much as the counters say.  Once it has a keep-alive it asks for *)
(* nothing, and takes nothing.                                              *)
Inward(fd) ==
    /\ Hears(fd) \/ fd \in prompted \cup accept_sent => Coming(fd) = <<>>
    /\ Hears(fd) \/ fd \in accept_sent => fd \notin prompted
    /\ Hears(fd) \/ fd \in prompted => read_state[fd] # "HEADER_RECVD"
    /\ read_state[fd] = "HEADER_TO_RECV" =>
          /\ Len(buffers[fd]) < HeaderSize
          /\ read_bytes[fd] = HeaderSize - Len(buffers[fd])
          /\ \/ Coming(fd) \in {<<>>, KeepAliveFrame}
             \/ \E attempt \in Attempts : Coming(fd) = LoginFrame(attempt)
    /\ read_state[fd] = "HEADER_RECVD" =>
          \/ read_bytes[fd] = 0
          \/ /\ Len(buffers[fd]) < LoginLen
             /\ read_bytes[fd] = LoginLen - Len(buffers[fd])
             /\ \E attempt \in Attempts : Coming(fd) = Bytes(Login(attempt))

(* The keep-alive is on its way, or is all that the server has taken. *)
Keeps(fd) ==
    fd \in kept =>
        \/ read_state[fd] = "HEADER_TO_RECV" /\ Coming(fd) = KeepAliveFrame
        \/ (read_state[fd] = "HEADER_RECVD" /\ read_bytes[fd] = 0) /\ Coming(fd) = <<>>

(* Nothing is on the wire to a descriptor that is not in use. *)
NothingLeft(fd) == peer[fd] = "none" => got[fd] = <<>> /\ outbox[fd] = <<>>

Conversation(fd) ==
    /\ VerdictFits(fd)
    /\ CountFits(fd)
    /\ Outward(fd)
    /\ Inward(fd)
    /\ Keeps(fd)
    /\ NothingLeft(fd)
    /\ fd \in members => fd \in accept_sent

FInv ==
    /\ IInv
    /\ BytesShape
    /\ \A fd \in Fd : Conversation(fd)
    /\ NeverAborts

LEMMA EmptyCut == ASSUME NEW s PROVE First(s, 0) = <<>>
BY SubSeqEmpty DEF First

LEMMA InitFInv == Init => FInv
<1> SUFFICES ASSUME Init PROVE FInv
  OBVIOUS
<1>1. IInv
  BY InitIInv
<1>2. BytesShape
  BY DEF Init, BytesShape
<1>3. ASSUME NEW fd \in Fd PROVE Conversation(fd)
  <2>1. <<>> \o <<>> \o <<>> = <<>>
    OBVIOUS
  <2> QED
    BY <2>1 DEF Init, Conversation, VerdictFits, CountFits, Outward, Inward, Coming, Hears,
                Keeps, NothingLeft
<1> QED
  BY <1>1, <1>2, <1>3 DEF FInv, Init, NeverAborts

(* What one descriptor's part of the invariant depends on. *)
SameAt(fd) ==
    /\ read_state'[fd] = read_state[fd] /\ read_bytes'[fd] = read_bytes[fd]
    /\ write_state'[fd] = write_state[fd] /\ write_bytes'[fd] = write_bytes[fd]
    /\ fd \in logged_clients' <=> fd \in logged_clients
    /\ fd \in accept_sent' <=> fd \in accept_sent
    /\ fd \in rejected_logins' <=> fd \in rejected_logins
    /\ buffers'[fd] = buffers[fd] /\ peer'[fd] = peer[fd]
    /\ inbox'[fd] = inbox[fd] /\ outbox'[fd] = outbox[fd]
    /\ got'[fd] = got[fd] /\ draft'[fd] = draft[fd]
    /\ fd \in prompted' <=> fd \in prompted
    /\ fd \in kept' <=> fd \in kept
    /\ fd \in members' <=> fd \in members

LEMMA SameFrame ==
    ASSUME NEW fd \in Fd,
           fd \in logged_clients' <=> fd \in logged_clients,
           fd \in rejected_logins' <=> fd \in rejected_logins
    PROVE  LastSent(fd)' = LastSent(fd) /\ HeaderOf(fd)' = HeaderOf(fd)
           /\ FrameOf(fd)' = FrameOf(fd) /\ Size(LastSent(fd))' = Size(LastSent(fd))
<1>1. LastSent(fd)' = LastSent(fd)
  BY DEF LastSent
<1>2. Size(LastSent(fd))' = Size(LastSent(fd))
  BY <1>1 DEF Size
<1>3. HeaderOf(fd)' = HeaderOf(fd)
  BY <1>2 DEF HeaderOf
<1>4. FrameOf(fd)' = FrameOf(fd)
  BY <1>1, <1>3 DEF FrameOf, Bytes, Size
<1> QED
  BY <1>1, <1>2, <1>3, <1>4

LEMMA Elsewhere ==
    ASSUME NEW fd \in Fd, Conversation(fd), SameAt(fd)
    PROVE  Conversation(fd)'
<1>1. /\ LastSent(fd)' = LastSent(fd) /\ FrameOf(fd)' = FrameOf(fd)
      /\ Size(LastSent(fd))' = Size(LastSent(fd))
  BY SameFrame DEF SameAt
<1>2. VerdictFits(fd)' /\ NothingLeft(fd)' /\ (fd \in members => fd \in accept_sent)'
  BY DEF SameAt, Conversation, VerdictFits, NothingLeft
<1>3. CountFits(fd)'
  BY <1>1 DEF SameAt, Conversation, CountFits
<1>4. SentOf(fd)' = SentOf(fd) /\ Unread(fd)' = Unread(fd)
  BY <1>1 DEF SameAt, SentOf, Unread
<1>5. Outward(fd)'
  BY <1>1, <1>4 DEF SameAt, Conversation, Outward
<1>6. Coming(fd)' = Coming(fd) /\ Hears(fd)' = Hears(fd)
  BY <1>4 DEF SameAt, Coming, Hears
<1>7. Inward(fd)'
  BY <1>6 DEF SameAt, Conversation, Inward
<1>8. Keeps(fd)'
  BY <1>6 DEF SameAt, Conversation, Keeps
<1> QED
  BY <1>2, <1>3, <1>5, <1>7, <1>8 DEF Conversation

(* A client that is being told something, or has not answered yet, has not  *)
(* kept its connection alive.                                               *)
LEMMA NotKept ==
    ASSUME NEW fd \in Fd, Conversation(fd), Hears(fd) \/ fd \in prompted \cup accept_sent
    PROVE  fd \notin kept
<1>1. Coming(fd) = <<>> /\ read_state[fd] # "HEADER_RECVD"
  BY DEF Conversation, Inward, VerdictFits
<1>2. KeepAliveFrame # <<>>
  <2>1. Len(KeepAliveFrame) = HeaderSize /\ KeepAliveFrame \in Seq(ToServer)
    BY ClientFrames DEF KeepAliveFrame
  <2> HIDE DEF KeepAliveFrame
  <2> QED
    BY <2>1, EmptySeq, SizeAssumption
<1> QED
  BY <1>1, <1>2 DEF Conversation, Keeps

LEMMA OthersUntouched ==
    ASSUME FInv, NEW fd \in Fd, IInv', BytesShape', Conversation(fd)', NeverAborts',
           \A other \in Fd \ {fd} : SameAt(other)
    PROVE  FInv'
<1>1. ASSUME NEW other \in Fd PROVE Conversation(other)'
  <2>1. CASE other = fd
    BY <2>1
  <2>2. CASE other # fd
    <3>1. SameAt(other)
      BY <2>2
    <3>2. Conversation(other)
      BY DEF FInv
    <3> QED
      BY <3>1, <3>2, Elsewhere
  <2> QED
    BY <2>1, <2>2
<1> QED
  BY <1>1 DEF FInv

LEMMA AllUntouched ==
    ASSUME FInv, pc' # "aborted",
           UNCHANGED <<states, logged_clients, accept_sent, rejected_logins,
                       verified, buffers, master, peer, inbox, outbox, client>>
    PROVE  FInv'
<1>1. IInv'
  BY BooksUntouched DEF FInv
<1>2. BytesShape'
  BY DEF FInv, BytesShape, states, client
<1>3. ASSUME NEW fd \in Fd PROVE Conversation(fd)'
  <2>1. SameAt(fd)
    BY DEF SameAt, states, client
  <2>2. Conversation(fd)
    BY DEF FInv
  <2> QED
    BY <2>1, <2>2, Elsewhere
<1> QED
  BY <1>1, <1>2, <1>3 DEF FInv, NeverAborts

-----------------------------------------------------------------------------
(* Connections begin and end.                                              *)

LEMMA AcceptKeepsFInv ==
    ASSUME FInv, NEW fd \in Fd, NEW optionsSet \in BOOLEAN, Accept(fd, optionsSet)
    PROVE  FInv'
<1>1. IInv /\ IInv'
  BY AcceptKeepsIInv DEF FInv
<1>2. BytesShape /\ Conversation(fd)
  BY DEF FInv
<1>3. /\ peer[fd] = "none" /\ fd \notin master /\ read_state[fd] = "NONE"
      /\ write_state[fd] = "NONE"
      /\ fd \notin logged_clients \cup accept_sent \cup rejected_logins
  BY <1>1 DEF Accept, Free, IInv, OnlyOpenSockets, Registered, NoEntryNoState
<1>4. /\ read_state' = [read_state EXCEPT ![fd] = "IDLE"]
      /\ read_bytes' = [read_bytes EXCEPT ![fd] = 0]
      /\ write_state' = [write_state EXCEPT ![fd] = "HEADER_TO_SEND"]
      /\ write_bytes' = [write_bytes EXCEPT ![fd] = HeaderSize]
      /\ peer' = [peer EXCEPT ![fd] = "open"]
      /\ UNCHANGED <<logged_clients, accept_sent, rejected_logins, buffers, inbox, outbox,
                     got, draft, prompted, kept, members>>
  BY <1>3 DEF Accept, add_new_cli, logins, client
<1>5. HeaderSize \in Nat \ {0}
  BY SizeAssumption
<1>6. BytesShape'
  BY <1>2, <1>4, <1>5 DEF BytesShape
<1>7. Shape
  BY <1>1 DEF IInv
<1>8. /\ read_state'[fd] = "IDLE" /\ write_state'[fd] = "HEADER_TO_SEND"
      /\ write_bytes'[fd] = HeaderSize /\ read_bytes'[fd] = 0 /\ peer'[fd] = "open"
  BY <1>2, <1>4, <1>7 DEF BytesShape, Shape
<1>9. Conversation(fd)'
  <2>1. VerdictFits(fd)' /\ NothingLeft(fd)' /\ (fd \in members => fd \in accept_sent)'
    BY <1>2, <1>3, <1>4, <1>8 DEF VerdictFits, NothingLeft, Conversation
  <2>2. CountFits(fd)'
    BY <1>5, <1>8 DEF CountFits
  <2>3. Unread(fd)' = <<>>
    BY <1>2, <1>3, <1>4 DEF Unread, Conversation, NothingLeft
  <2>4. SentOf(fd)' = 0
    BY <1>5, <1>8 DEF SentOf
  <2>5. Outward(fd)'
    BY <2>3, <2>4, EmptyCut DEF Outward
  <2>6. Coming(fd)' = <<>> /\ fd \notin prompted'
    BY <1>2, <1>3, <1>4 DEF Coming, Conversation, Inward, Hears
  <2>7. Inward(fd)'
    BY <1>3, <1>4, <1>8, <2>6 DEF Inward
  <2>8. Keeps(fd)'
    BY <1>2, <1>3, <1>4 DEF Conversation, Keeps
  <2> QED
    BY <2>1, <2>2, <2>5, <2>7, <2>8 DEF Conversation
<1>10. \A other \in Fd \ {fd} : SameAt(other)
  BY <1>2, <1>4, <1>7 DEF SameAt, BytesShape, Shape
<1>11. NeverAborts'
  BY DEF Accept, Accepted, NeverAborts
<1> QED
  BY <1>1, <1>6, <1>9, <1>10, <1>11, OthersUntouched

LEMMA CloseKeepsFInv ==
    ASSUME FInv, NEW fd \in Fd, Close(fd), pc' # "aborted"
    PROVE  FInv'
<1>1. IInv /\ IInv'
  BY CloseKeepsIInv DEF FInv
<1>2. BytesShape /\ Shape
  BY DEF FInv, IInv
<1>3. BytesShape'
  BY <1>2 DEF Close, remove_socket, clear_buff, Disconnect, BytesShape
<1>4. Conversation(fd)'
  <2>1. /\ read_state'[fd] = "NONE" /\ write_state'[fd] = "NONE" /\ peer'[fd] = "none"
        /\ buffers'[fd] = <<>> /\ inbox'[fd] = <<>> /\ outbox'[fd] = <<>>
        /\ got'[fd] = <<>> /\ draft'[fd] = <<>>
        /\ fd \notin accept_sent' /\ fd \notin prompted' /\ fd \notin kept'
        /\ fd \notin members'
    BY <1>2 DEF Close, remove_socket, clear_buff, Disconnect, BytesShape, Shape
  <2>2. Coming(fd)' = <<>>
    BY <2>1 DEF Coming
  <2> QED
    BY <2>1, <2>2 DEF Conversation, VerdictFits, CountFits, Outward, Inward, Keeps,
                          NothingLeft
<1>5. \A other \in Fd \ {fd} : SameAt(other)
  BY <1>2 DEF Close, remove_socket, clear_buff, Disconnect, BytesShape, Shape, SameAt
<1> QED
  BY <1>1, <1>3, <1>4, <1>5, OthersUntouched DEF NeverAborts

LEMMA GiveUpKeepsFInv ==
    ASSUME FInv, NEW fd \in Fd, GiveUp(fd)
    PROVE  FInv'
<1>1. pc' = "scan"
  BY DEF GiveUp, Leave
<1>2. CASE pc = "in"
  BY <1>1, <1>2, CloseKeepsFInv DEF GiveUp
<1>3. CASE pc # "in"
  BY <1>1, <1>3, AllUntouched DEF GiveUp, logins, wires
<1> QED
  BY <1>2, <1>3
-----------------------------------------------------------------------------
(* The server sends.                                                       *)

(* The message that is worked out anew on every send is the one whose frame *)
(* is under way.                                                            *)
LEMMA MessageIsDue ==
    ASSUME FInv, NEW fd \in Fd, write_state[fd] \in {"HEADER_TO_SEND", "HEADER_SENT"}
    PROVE  /\ get_login_state(fd).type = HeaderOf(fd).type
           /\ get_login_state(fd).len = Size(LastSent(fd))
           /\ get_login_state(fd).body = LastSent(fd)
           /\ Header(get_login_state(fd).type, get_login_state(fd).len) = HeaderOf(fd)
<1>1. IInv /\ Conversation(fd)
  BY DEF FInv
<1>2. fd \in master /\ read_state[fd] \in {"IDLE", "MSG_RECVD"} /\ fd \notin accept_sent
  BY <1>1, StatesMeanOpen DEF IInv, HalfDuplex, Conversation, VerdictFits
<1>3. Size(LastSent(fd)) = get_byte_width(LastSent(fd).info)
  BY LastSentMessage
<1>4. CASE read_state[fd] = "IDLE"
  <2>1. fd \notin logged_clients \cup rejected_logins
    BY <1>1, <1>4 DEF Conversation, VerdictFits
  <2>2. LastSent(fd) = Statement(LOGIN_REQ) /\ LastSent(fd).info = LOGIN_REQ
    BY <2>1 DEF LastSent, Statement
  <2> QED
    BY <1>3, <1>4, <2>1, <2>2 DEF get_login_state, HeaderOf, Header
<1>5. CASE read_state[fd] # "IDLE" /\ fd \in logged_clients
  <2>1. LastSent(fd) = ClientID(fd) /\ LastSent(fd).info = fd
    BY <1>5 DEF LastSent, ClientID
  <2> QED
    BY <1>2, <1>3, <1>5, <2>1 DEF get_login_state, HeaderOf, Header
<1>6. CASE read_state[fd] # "IDLE" /\ fd \notin logged_clients
  <2>1. fd \in rejected_logins
    BY <1>1, <1>2, <1>6 DEF Conversation, VerdictFits
  <2>2. LastSent(fd) = Statement(LOGIN_REJ) /\ LastSent(fd).info = LOGIN_REJ
    BY <2>1, <1>6 DEF LastSent, Statement
  <2> QED
    BY <1>2, <1>3, <1>6, <2>1, <2>2 DEF get_login_state, HeaderOf, Header
<1> QED
  BY <1>4, <1>5, <1>6

(* What is sent comes next in the frame. *)
LEMMA SendsWhatIsNext ==
    ASSUME FInv, NEW fd \in Fd, Sending(fd), SendTakes(fd)
    PROVE  /\ Taken(fd) \in 0..write_bytes[fd] /\ write_bytes[fd] \in Nat \ {0}
           /\ SentOf(fd) \in 0..Len(FrameOf(fd))
           /\ SentOf(fd) + Taken(fd) \in SentOf(fd)..Len(FrameOf(fd))
           /\ ToSend(fd) = SubSeq(FrameOf(fd), SentOf(fd) + 1, SentOf(fd) + Taken(fd))
           /\ ToSend(fd) \in Seq(ToClient)
<1> DEFINE w == write_bytes[fd]
           h == HeaderSize
           b == Size(LastSent(fd))
           t == Taken(fd)
<1>1. IInv /\ Conversation(fd) /\ BytesShape /\ CountFits(fd)
  BY DEF FInv, Conversation
<1>2. write_state[fd] \in {"HEADER_TO_SEND", "HEADER_SENT"}
  BY DEF Sending
<1>3. h \in Nat \ {0} /\ b \in Nat \ {0}
  BY FrameShape
<1>4. w \in Nat \ {0} /\ (write_state[fd] = "HEADER_TO_SEND" => w <= h)
                      /\ (write_state[fd] = "HEADER_SENT" => w <= b)
  BY <1>1, <1>2, <1>3 DEF CountFits
<1>5. t \in 0..w
  <2>1. CASE peer[fd] = "open"
    <3>1. Len(outbox[fd]) \in Nat /\ SndBuf \in Nat /\ Len(outbox[fd]) < SndBuf
      BY <1>1, <2>1, SizeAssumption, LenProperties DEF SendTakes, BytesShape
    <3>2. SndBuf - Len(outbox[fd]) \in Nat
      BY <3>1
    <3> QED
      BY <1>4, <2>1, <3>2 DEF Taken, Smaller
  <2>2. CASE peer[fd] # "open"
    BY <1>4, <2>2 DEF Taken
  <2> QED
    BY <2>1, <2>2
<1>6. /\ Bytes(HeaderOf(fd)) \in Seq(ToClient) /\ Bytes(LastSent(fd)) \in Seq(ToClient)
      /\ FrameOf(fd) \in Seq(ToClient)
      /\ Size(HeaderOf(fd)) = h /\ Len(Bytes(HeaderOf(fd))) = h
      /\ Len(Bytes(LastSent(fd))) = b /\ Len(FrameOf(fd)) = h + b
  BY FrameShape
<1> HIDE DEF w, h, b, t
<1>7. SentOf(fd) \in 0..(h + b) /\ SentOf(fd) + t \in SentOf(fd)..(h + b)
  <2>1. CASE write_state[fd] = "HEADER_TO_SEND"
    <3>1. SentOf(fd) = h - w
      BY <2>1 DEF SentOf, w, h
    <3> QED
      BY <1>3, <1>4, <1>5, <2>1, <3>1
  <2>2. CASE write_state[fd] = "HEADER_SENT"
    <3>1. SentOf(fd) = h + b - w
      BY <2>2 DEF SentOf, w, h, b
    <3> QED
      BY <1>3, <1>4, <1>5, <2>2, <3>1
  <2> QED
    BY <1>2, <2>1, <2>2
<1>8. ToSend(fd) = SubSeq(FrameOf(fd), SentOf(fd) + 1, SentOf(fd) + t)
  <2>1. CASE write_state[fd] = "HEADER_TO_SEND"
    <3>1. Outgoing(fd) = HeaderOf(fd)
      BY <1>2, <2>1, MessageIsDue DEF Outgoing
    <3>2. ToSend(fd) = SubSeq(Bytes(HeaderOf(fd)), h - w + 1, h - w + t)
      BY <1>6, <3>1 DEF ToSend, w, t
    <3>3. h - w \in 0..h /\ h - w + t \in (h - w)..h
      BY <1>3, <1>4, <1>5, <2>1
    <3>4. SubSeq(FrameOf(fd), h - w + 1, h - w + t)
             = SubSeq(Bytes(HeaderOf(fd)), h - w + 1, h - w + t)
      <4> DEFINE x == Bytes(HeaderOf(fd))
                 y == Bytes(LastSent(fd))
      <4>1. x \in Seq(ToClient) /\ y \in Seq(ToClient) /\ Len(x) = h /\ FrameOf(fd) = x \o y
        BY <1>6 DEF FrameOf
      <4> HIDE DEF x, y
      <4>2. \A n \in 0..Len(x) : \A m \in n..Len(x) :
               SubSeq(x \o y, n + 1, m) = SubSeq(x, n + 1, m)
        BY <4>1, PartOfHeader
      <4>3. SubSeq(x \o y, h - w + 1, h - w + t) = SubSeq(x, h - w + 1, h - w + t)
        BY <3>3, <4>1, <4>2
      <4> QED
        BY <4>1, <4>3 DEF x
    <3>5. SentOf(fd) = h - w
      BY <2>1 DEF SentOf, w, h
    <3> QED
      BY <3>2, <3>4, <3>5
  <2>2. CASE write_state[fd] = "HEADER_SENT"
    <3>1. Outgoing(fd) = LastSent(fd)
      BY <1>2, <2>2, MessageIsDue DEF Outgoing
    <3>2. ToSend(fd) = SubSeq(Bytes(LastSent(fd)), b - w + 1, b - w + t)
      BY <3>1 DEF ToSend, w, t, b
    <3>3. b - w \in 0..b /\ b - w + t \in (b - w)..b
      BY <1>3, <1>4, <1>5, <2>2
    <3>4. SubSeq(FrameOf(fd), h + (b - w) + 1, h + (b - w + t))
             = SubSeq(Bytes(LastSent(fd)), b - w + 1, b - w + t)
      <4> DEFINE x == Bytes(HeaderOf(fd))
                 y == Bytes(LastSent(fd))
      <4>1. x \in Seq(ToClient) /\ y \in Seq(ToClient) /\ Len(x) = h /\ Len(y) = b
            /\ FrameOf(fd) = x \o y
        BY <1>6 DEF FrameOf
      <4> HIDE DEF x, y
      <4>2. \A n \in 0..Len(y) : \A m \in n..Len(y) :
               SubSeq(x \o y, Len(x) + n + 1, Len(x) + m) = SubSeq(y, n + 1, m)
        BY <4>1, PartOfBody
      <4>3. SubSeq(x \o y, h + (b - w) + 1, h + (b - w + t)) = SubSeq(y, b - w + 1, b - w + t)
        BY <3>3, <4>1, <4>2
      <4> QED
        BY <4>1, <4>3 DEF y
    <3>5. SentOf(fd) = h + b - w
      BY <2>2 DEF SentOf, w, h, b
    <3>6. h + (b - w) + 1 = SentOf(fd) + 1 /\ h + (b - w + t) = SentOf(fd) + t
      BY <1>3, <1>4, <1>5, <3>5
    <3> QED
      BY <3>2, <3>4, <3>6
  <2> QED
    BY <1>2, <2>1, <2>2
<1>9. ToSend(fd) \in Seq(ToClient)
  <2>1. \A i \in 1..(h + b) : FrameOf(fd)[i] \in ToClient
    BY <1>6, ElementOfSeq
  <2>2. SentOf(fd) + 1 \in Int /\ SentOf(fd) + t \in Int
        /\ \A i \in (SentOf(fd) + 1)..(SentOf(fd) + t) : i \in 1..(h + b)
    BY <1>3, <1>7
  <2> QED
    BY <1>8, <2>1, <2>2, SubSeqProperties
<1> QED
  BY <1>4, <1>5, <1>6, <1>7, <1>8, <1>9 DEF w, t
LEMMA SendTakesKeepsFInv ==
    ASSUME FInv, NEW fd \in Fd, Sending(fd), SendTakes(fd)
    PROVE  FInv'
<1> DEFINE w == write_bytes[fd]
           h == HeaderSize
           b == Size(LastSent(fd))
           t == Taken(fd)
<1>1. IInv /\ IInv' /\ Shape /\ BytesShape /\ Conversation(fd)
  BY SendTakesKeepsIInv DEF FInv, IInv
<1>2. write_state[fd] \in {"HEADER_TO_SEND", "HEADER_SENT"} /\ fd \notin accept_sent
  BY DEF Sending, LoggingIn
<1>3. /\ h \in Nat \ {0} /\ b \in Nat \ {0} /\ FrameOf(fd) \in Seq(ToClient)
      /\ Len(FrameOf(fd)) = h + b /\ HeaderOf(fd).len = b
  BY FrameShape
<1>4. /\ t \in 0..w /\ w \in Nat \ {0}
      /\ SentOf(fd) \in 0..(h + b) /\ SentOf(fd) + t \in SentOf(fd)..(h + b)
      /\ ToSend(fd) = SubSeq(FrameOf(fd), SentOf(fd) + 1, SentOf(fd) + t)
      /\ ToSend(fd) \in Seq(ToClient)
  BY <1>3, SendsWhatIsNext
<1>5. /\ UNCHANGED <<logged_clients, rejected_logins, buffers, inbox, got, draft, prompted,
                     kept, members>>
      /\ IF peer[fd] = "open"
         THEN outbox' = [outbox EXCEPT ![fd] = @ \o ToSend(fd)] /\ UNCHANGED peer
         ELSE /\ \E fate \in {"left", "reset"} : peer' = [peer EXCEPT ![fd] = fate]
              /\ UNCHANGED outbox
  BY DEF SendTakes, PutOnWire, HeaderSent, BodySent, logins, client
<1>6. /\ Coming(fd) = <<>> /\ fd \notin prompted /\ fd \notin members
      /\ buffers[fd] = <<>> /\ fd \notin kept
  <2>1. Coming(fd) = <<>> /\ fd \notin prompted /\ fd \notin members /\ fd \notin kept
    BY <1>1, <1>2, NotKept DEF Conversation, Inward, Hears
  <2>2. buffers[fd] \in Seq(ToServer) /\ inbox[fd] \in Seq(ToServer) /\ draft[fd] \in Seq(ToServer)
    BY <1>1 DEF BytesShape
  <2>3. buffers[fd] \o inbox[fd] \in Seq(ToServer)
    BY <2>2, ConcatProperties
  <2>4. buffers[fd] \o inbox[fd] = <<>>
    BY <2>1, <2>2, <2>3, ConcatEqualIffEmpty DEF Coming
  <2>5. buffers[fd] = <<>>
    BY <2>2, <2>4, ConcatEqualIffEmpty
  <2> QED
    BY <2>1, <2>5
<1>7. peer[fd] # "none"
  BY <1>1, <1>2, StatesMeanOpen
<1>8. outbox' \in [Fd -> Seq(ToClient)]
  <2>1. outbox[fd] \o ToSend(fd) \in Seq(ToClient)
    BY <1>1, <1>4, ConcatProperties DEF BytesShape
  <2> QED
    BY <1>1, <1>5, <2>1 DEF BytesShape
(* The bytes on the wire to a client that is there. *)
<1>9. ASSUME peer'[fd] = "open"
      PROVE  Unread(fd)' = First(FrameOf(fd), SentOf(fd) + t)
  <2>1. peer[fd] = "open" /\ outbox'[fd] = outbox[fd] \o ToSend(fd)
    BY <1>1, <1>5, <1>9 DEF BytesShape, Shape
  <2>2. Unread(fd) = First(FrameOf(fd), SentOf(fd))
    BY <1>1, <1>2, <2>1 DEF Conversation, Outward
  <2>3. got[fd] \in Seq(ToClient) /\ outbox[fd] \in Seq(ToClient)
    BY <1>1 DEF BytesShape
  <2>4. got[fd] \o (outbox[fd] \o ToSend(fd)) = (got[fd] \o outbox[fd]) \o ToSend(fd)
    <3>1. \A x, y, z \in Seq(ToClient) : (x \o y) \o z = x \o (y \o z)
      BY ConcatAssociative
    <3> QED
      BY <1>4, <2>3, <3>1
  <2>5. Unread(fd)' = Unread(fd) \o ToSend(fd)
    BY <1>5, <2>1, <2>4 DEF Unread
  <2> HIDE DEF h, b, t
  <2>6. First(FrameOf(fd), SentOf(fd)) \o SubSeq(FrameOf(fd), SentOf(fd) + 1, SentOf(fd) + t)
            = First(FrameOf(fd), SentOf(fd) + t)
    <3>1. SentOf(fd) \in 0..Len(FrameOf(fd))
          /\ SentOf(fd) + t \in SentOf(fd)..Len(FrameOf(fd))
      BY <1>3, <1>4
    <3> QED
      BY <1>3, <3>1, PrefixGrows
  <2> QED
    BY <1>4, <2>2, <2>5, <2>6
<1>10. /\ FrameOf(fd)' = FrameOf(fd) /\ Size(LastSent(fd))' = b
  BY <1>5, SameFrame
<1>11. NothingLeft(fd)'
  BY <1>1, <1>5, <1>7 DEF NothingLeft, Shape
<1>12. \A other \in Fd \ {fd} : SameAt(other)
  <2>1. /\ \A other \in Fd \ {fd} :
              outbox'[other] = outbox[other] /\ peer'[other] = peer[other]
    BY <1>1, <1>5 DEF BytesShape, Shape
  <2>2. \A other \in Fd \ {fd} :
              /\ read_state'[other] = read_state[other] /\ read_bytes'[other] = read_bytes[other]
              /\ write_state'[other] = write_state[other]
              /\ write_bytes'[other] = write_bytes[other]
              /\ other \in accept_sent' <=> other \in accept_sent
    BY <1>1 DEF SendTakes, HeaderSent, BodySent, TurnToRecv, logins, BytesShape, Shape
  <2> QED
    BY <1>5, <2>1, <2>2 DEF SameAt
<1>13. NeverAborts'
  BY DEF SendTakes, HeaderSent, BodySent, Stay, Leave, Sending, LoggingIn, Handling, NeverAborts
(* The rest of a message is still to be sent, or the body of a header. *)
<1>14. ASSUME UNCHANGED <<read_state, read_bytes, accept_sent>>,
              NEW s \in {"HEADER_TO_SEND", "HEADER_SENT"},
              NEW n \in Nat \ {0},
              write_state' = [write_state EXCEPT ![fd] = s],
              write_bytes' = [write_bytes EXCEPT ![fd] = n],
              IF s = "HEADER_TO_SEND" THEN n <= h ELSE n <= b,
              IF s = "HEADER_TO_SEND" THEN SentOf(fd) + t = h - n
                                      ELSE SentOf(fd) + t = h + b - n
       PROVE  FInv'
  <2>1. write_state'[fd] = s /\ write_bytes'[fd] = n
    BY <1>1, <1>14 DEF Shape, BytesShape
  <2>2. BytesShape'
    BY <1>1, <1>5, <1>8, <1>14 DEF BytesShape
  <2>3. VerdictFits(fd)'
    BY <1>1, <1>2, <1>5, <1>14 DEF Conversation, VerdictFits
  <2>4. CountFits(fd)'
    <3>1. /\ s = "HEADER_TO_SEND" => n \in 1..h
          /\ s = "HEADER_SENT" => n \in 1..b
      BY <1>3, <1>14
    <3> QED
      BY <1>10, <2>1, <3>1 DEF CountFits
  <2>5. SentOf(fd)' = SentOf(fd) + t
    BY <1>10, <1>14, <2>1 DEF SentOf
  <2>6. Outward(fd)'
    BY <1>9, <1>10, <2>5 DEF Outward
  <2>7. Coming(fd)' = Coming(fd)
    BY <1>5 DEF Coming
  <2>8. Inward(fd)'
    <3>1. read_state[fd] \in {"IDLE", "MSG_RECVD"}
      BY <1>1, <1>2, StatesMeanOpen DEF IInv, HalfDuplex
    <3>2. read_state'[fd] \in {"IDLE", "MSG_RECVD"} /\ fd \notin prompted'
      BY <1>5, <1>6, <1>14, <3>1
    <3> QED
      BY <1>6, <2>7, <3>2 DEF Inward
  <2>9. Conversation(fd)'
    BY <1>5, <1>6, <1>11, <2>3, <2>4, <2>6, <2>8 DEF Conversation, Keeps
  <2> QED
    BY <1>1, <1>12, <1>13, <2>2, <2>9, OthersUntouched
<1>15. CASE t < w /\ write_bytes' = [write_bytes EXCEPT ![fd] = @ - t]
            /\ UNCHANGED <<read_state, read_bytes, write_state, logins>>
  <2>1. w - t \in Nat \ {0} /\ write_bytes' = [write_bytes EXCEPT ![fd] = w - t]
    <3>1. write_bytes' = [write_bytes EXCEPT ![fd] = w - t]
      BY <1>15
    <3> HIDE DEF w, t
    <3>2. w - t \in Nat \ {0}
      BY <1>4, <1>15
    <3> QED
      BY <3>1, <3>2
  <2>2. write_state' = [write_state EXCEPT ![fd] = write_state[fd]]
    BY <1>1, <1>15 DEF Shape
  <2>3. CountFits(fd)
    BY <1>1 DEF Conversation
  <2>4. IF write_state[fd] = "HEADER_TO_SEND" THEN w <= h /\ SentOf(fd) = h - w
                                              ELSE w <= b /\ SentOf(fd) = h + b - w
    BY <1>2, <1>3, <2>3 DEF CountFits, SentOf
  <2> HIDE DEF w, h, b, t
  <2>5. /\ IF write_state[fd] = "HEADER_TO_SEND" THEN w - t <= h ELSE w - t <= b
        /\ IF write_state[fd] = "HEADER_TO_SEND" THEN SentOf(fd) + t = h - (w - t)
                                                 ELSE SentOf(fd) + t = h + b - (w - t)
    <3>1. h \in Int /\ b \in Int /\ w \in Int /\ t \in Nat
      BY <1>3, <1>4
    <3>2. \A c, n \in Int : \A m \in Nat : (n <= c => n - m <= c) /\ c - n + m = c - (n - m)
      OBVIOUS
    <3>3. /\ w <= h => w - t <= h
          /\ w <= b => w - t <= b
          /\ h - w + t = h - (w - t) /\ h + b - w + t = h + b - (w - t)
      BY <3>1, <3>2
    <3> QED
      BY <2>4, <3>3
  <2>6. UNCHANGED <<read_state, read_bytes, accept_sent>>
    BY <1>15 DEF logins
  <2> QED
    BY <1>2, <1>14, <2>1, <2>2, <2>5, <2>6
<1>16. CASE t = w /\ write_state[fd] = "HEADER_TO_SEND" /\ HeaderSent(fd)
  <2>1. Outgoing(fd).len = b
    BY <1>2, <1>3, <1>16, MessageIsDue DEF Outgoing
  <2>2. SentOf(fd) = h - w
    BY <1>16 DEF SentOf
  <2>3. CountFits(fd)
    BY <1>1 DEF Conversation
  <2>4. w <= h
    BY <1>16, <2>3, <1>3 DEF CountFits
  <2> HIDE DEF w, h, b, t
  <2>5. SentOf(fd) + t = h + b - b
    BY <1>3, <1>4, <1>16, <2>2, <2>4
  <2>6. /\ UNCHANGED <<read_state, read_bytes, accept_sent>>
        /\ write_state' = [write_state EXCEPT ![fd] = "HEADER_SENT"]
        /\ write_bytes' = [write_bytes EXCEPT ![fd] = b]
    BY <1>16, <2>1 DEF HeaderSent, logins
  <2>7. b <= b
    BY <1>3
  <2> QED
    BY <1>3, <1>14, <2>5, <2>6, <2>7
<1>17. CASE t = w /\ write_state[fd] = "HEADER_SENT" /\ BodySent(fd)
  <2>1. /\ read_state' = [read_state EXCEPT ![fd] = "HEADER_TO_RECV"]
        /\ read_bytes' = [read_bytes EXCEPT ![fd] = h]
        /\ write_state' = [write_state EXCEPT ![fd] = "MSG_SENT"]
        /\ write_bytes' = [write_bytes EXCEPT ![fd] = 0]
        /\ accept_sent' \in {accept_sent, accept_sent \cup (logged_clients \cap {fd})}
    BY <1>17 DEF BodySent, TurnToRecv
  <2>2. /\ read_state'[fd] = "HEADER_TO_RECV" /\ read_bytes'[fd] = h
        /\ write_state'[fd] = "MSG_SENT"
    BY <1>1, <2>1 DEF Shape, BytesShape
  <2>3. BytesShape'
    BY <1>1, <1>3, <1>5, <1>8, <2>1 DEF BytesShape
  <2>4. VerdictFits(fd)' /\ CountFits(fd)'
    BY <2>2 DEF VerdictFits, CountFits
  <2>5. SentOf(fd) = h + b - w
    BY <1>17 DEF SentOf
  <2>6. SentOf(fd)' = SentOf(fd) + t
    <3>1. SentOf(fd)' = h + b
      BY <1>10, <2>2 DEF SentOf
    <3> HIDE DEF w, h, b, t
    <3>2. h + b - w + w = h + b
      BY <1>3, <1>4
    <3> QED
      BY <1>17, <2>5, <3>1, <3>2
  <2>7. Outward(fd)'
    BY <1>9, <1>10, <2>6 DEF Outward
  <2>8. Coming(fd)' = <<>> /\ buffers'[fd] = <<>> /\ fd \notin prompted'
    BY <1>5, <1>6 DEF Coming
  <2>9. Inward(fd)'
    <3>1. Len(<<>>) < h /\ h = h - Len(<<>>)
      BY <1>3
    <3> QED
      BY <2>2, <2>8, <3>1 DEF Inward
  <2>10. Conversation(fd)'
    BY <1>5, <1>6, <1>11, <2>4, <2>7, <2>9 DEF Conversation, Keeps
  <2> QED
    BY <1>1, <1>12, <1>13, <2>3, <2>10, OthersUntouched
<1>18. t < w \/ t = w
  <2>1. \A n \in Nat : \A m \in 0..n : m < n \/ m = n
    OBVIOUS
  <2>2. w \in Nat /\ t \in 0..w
    BY <1>4
  <2> QED
    BY <2>1, <2>2
<1>19. CASE t < w
  BY <1>15, <1>19 DEF SendTakes
<1>20. CASE t = w
  <2>1. ~(t < w)
    BY <1>4, <1>20
  <2> QED
    BY <1>2, <1>16, <1>17, <1>20, <2>1 DEF SendTakes
<1> QED
  BY <1>18, <1>19, <1>20

LEMMA SendKeepsFInv ==
    ASSUME FInv, NEW fd \in Fd, Send(fd)
    PROVE  FInv'
<1>1. Sending(fd)
  BY DEF Send
<1>2. write_state[fd] \in {"HEADER_TO_SEND", "HEADER_SENT"}
  BY <1>1 DEF Sending
<1>3. ~(write_bytes[fd] > Size(Outgoing(fd)))
  <2>1. HeaderSize \in Nat /\ Size(LastSent(fd)) \in Nat /\ Size(HeaderOf(fd)) = HeaderSize
    BY FrameShape
  <2>2. CountFits(fd)
    BY DEF FInv, Conversation
  <2>3. CASE write_state[fd] = "HEADER_TO_SEND"
    <3>1. Outgoing(fd) = HeaderOf(fd)
      BY <1>2, <2>3, MessageIsDue DEF Outgoing
    <3>2. write_bytes[fd] \in 1..HeaderSize
      BY <2>2, <2>3 DEF CountFits
    <3>3. Size(Outgoing(fd)) = HeaderSize
      BY <2>1, <3>1
    <3> QED
      BY <2>1, <3>2, <3>3
  <2>4. CASE write_state[fd] = "HEADER_SENT"
    <3>1. Outgoing(fd) = LastSent(fd)
      BY <1>2, <2>4, MessageIsDue DEF Outgoing
    <3>2. write_bytes[fd] \in 1..Size(LastSent(fd))
      BY <2>2, <2>4 DEF CountFits
    <3>3. Size(Outgoing(fd)) = Size(LastSent(fd))
      BY <3>1
    <3> QED
      BY <2>1, <3>2, <3>3
  <2> QED
    BY <1>2, <2>3, <2>4
<1>4. CASE SendTakes(fd)
  BY <1>1, <1>4, SendTakesKeepsFInv
<1>5. CASE SendBlocks(fd)
  BY <1>5, AllUntouched DEF SendBlocks, Leave, logins, wires
<1>6. CASE SendFails(fd)
  BY <1>6, GiveUpKeepsFInv DEF SendFails
<1>7. CASE SigPipe(fd)
  BY <1>7, AllUntouched DEF SigPipe, logins, wires
<1> QED
  BY <1>3, <1>4, <1>5, <1>6, <1>7 DEF Send
-----------------------------------------------------------------------------
(* The server receives.                                                    *)

(* recv() moves the first bytes of the answer into the buffer. *)
LEMMA TakesWhatComes ==
    ASSUME FInv, NEW fd \in Fd, CanRecv(fd)
    PROVE  /\ Arrived(fd) \in Nat \ {0} /\ read_bytes[fd] \in Nat
           /\ Arrived(fd) <= read_bytes[fd]
           /\ Filled(fd) \in Seq(ToServer)
           /\ Len(Filled(fd)) = Len(buffers[fd]) + Arrived(fd)
           /\ Rest(inbox[fd], Arrived(fd)) \in Seq(ToServer)
           /\ Filled(fd) \o Rest(inbox[fd], Arrived(fd)) \o draft[fd] = Coming(fd)
           /\ inbox' \in [Fd -> Seq(ToServer)]
           /\ inbox' = [inbox EXCEPT ![fd] = Rest(inbox[fd], Arrived(fd))]
           /\ Coming(fd) # <<>> /\ ~Hears(fd)
           /\ fd \notin prompted \cup accept_sent \cup members
<1> DEFINE a == Arrived(fd)
<1>1. BytesShape /\ Conversation(fd)
  BY DEF FInv
<1>2. /\ buffers[fd] \in Seq(ToServer) /\ inbox[fd] \in Seq(ToServer)
      /\ draft[fd] \in Seq(ToServer) /\ inbox[fd] # <<>> /\ read_bytes[fd] \in Nat
      /\ read_bytes[fd] > 0
  BY <1>1 DEF BytesShape, CanRecv
<1>3. Len(inbox[fd]) \in Nat \ {0}
  BY <1>2, EmptySeq
<1>4. a \in Nat \ {0} /\ a <= read_bytes[fd] /\ a \in 0..Len(inbox[fd])
  BY <1>2, <1>3 DEF Arrived, Smaller
<1> HIDE DEF a
<1>5. /\ First(inbox[fd], a) \in Seq(ToServer) /\ Len(First(inbox[fd], a)) = a
      /\ Rest(inbox[fd], a) \in Seq(ToServer)
  BY <1>2, <1>4, CutAnywhere
<1>6. /\ buffers[fd] \o First(inbox[fd], a) \in Seq(ToServer)
      /\ Len(buffers[fd] \o First(inbox[fd], a)) = Len(buffers[fd]) + a
  <2> DEFINE x == buffers[fd]
             y == First(inbox[fd], a)
  <2>1. x \in Seq(ToServer) /\ y \in Seq(ToServer) /\ Len(y) = a
    BY <1>2, <1>5
  <2> HIDE DEF x, y
  <2>2. x \o y \in Seq(ToServer) /\ Len(x \o y) = Len(x) + Len(y)
    BY <2>1, ConcatProperties
  <2> QED
    BY <2>1, <2>2 DEF x, y
<1>7. (buffers[fd] \o First(inbox[fd], a)) \o Rest(inbox[fd], a) \o draft[fd] = Coming(fd)
  <2> DEFINE x == buffers[fd]
             y == inbox[fd]
             z == draft[fd]
  <2>1. x \in Seq(ToServer) /\ y \in Seq(ToServer) /\ z \in Seq(ToServer) /\ a \in 0..Len(y)
    BY <1>2, <1>4
  <2> HIDE DEF x, y, z
  <2>2. (x \o First(y, a)) \o Rest(y, a) \o z = x \o y \o z
    <3>1. /\ First(y, a) \in Seq(ToServer) /\ Rest(y, a) \in Seq(ToServer)
          /\ First(y, a) \o Rest(y, a) = y
      BY <2>1, CutAnywhere
    <3>2. \A p, q, r \in Seq(ToServer) : (p \o q) \o r = p \o (q \o r)
      BY ConcatAssociative
    <3>3. (x \o First(y, a)) \o Rest(y, a) = x \o (First(y, a) \o Rest(y, a))
      BY <2>1, <3>1, <3>2
    <3> QED
      BY <3>1, <3>3
  <2> QED
    BY <2>2 DEF Coming, x, y, z
<1>8. inbox' = [inbox EXCEPT ![fd] = Rest(inbox[fd], a)]
  BY DEF CanRecv, a
<1>9. inbox' \in [Fd -> Seq(ToServer)]
  BY <1>1, <1>5, <1>8 DEF BytesShape
<1>10. Coming(fd) # <<>>
  <2>1. buffers[fd] \o inbox[fd] \in Seq(ToServer)
    BY <1>2, ConcatProperties
  <2>2. buffers[fd] \o inbox[fd] # <<>>
    BY <1>2, ConcatEqualIffEmpty
  <2> QED
    BY <1>2, <2>1, <2>2, ConcatEqualIffEmpty DEF Coming
<1>11. ~Hears(fd) /\ fd \notin prompted \cup accept_sent \cup members
  BY <1>1, <1>10 DEF Conversation, Inward
<1> QED
  BY <1>2, <1>4, <1>5, <1>6, <1>7, <1>8, <1>9, <1>10, <1>11 DEF Filled, a

(* Nothing else moves while the server receives. *)
LEMMA RecvTouchesOne ==
    ASSUME FInv, NEW fd \in Fd, CanRecv(fd),
           NEW s, NEW n \in Nat, NEW b \in Seq(ToServer), NEW s2, NEW n2 \in Nat,
           read_state' = [read_state EXCEPT ![fd] = s],
           read_bytes' = [read_bytes EXCEPT ![fd] = n],
           write_state' = [write_state EXCEPT ![fd] = s2],
           write_bytes' = [write_bytes EXCEPT ![fd] = n2],
           buffers' = [buffers EXCEPT ![fd] = b],
           accept_sent' = accept_sent,
           \A other \in Fd \ {fd} :
               /\ other \in logged_clients' <=> other \in logged_clients
               /\ other \in rejected_logins' <=> other \in rejected_logins,
           pc' # "aborted", IInv', VerdictFits(fd)', CountFits(fd)', Outward(fd)', Inward(fd)',
           Keeps(fd)'
    PROVE  FInv'
<1>1. BytesShape /\ Conversation(fd) /\ Shape
  BY DEF FInv, IInv
<1>2. inbox' \in [Fd -> Seq(ToServer)]
  BY TakesWhatComes
<1>3. UNCHANGED <<peer, outbox, got, draft, prompted, kept, members>>
  BY DEF CanRecv, client
<1>4. BytesShape'
  BY <1>1, <1>2, <1>3 DEF BytesShape
<1>5. Conversation(fd)'
  BY <1>1, <1>3 DEF Conversation, NothingLeft
<1>6. \A other \in Fd \ {fd} : inbox'[other] = inbox[other]
  BY <1>1 DEF CanRecv, BytesShape
<1>7. \A other \in Fd \ {fd} : SameAt(other)
  BY <1>1, <1>3, <1>6 DEF BytesShape, Shape, SameAt
<1> QED
  BY <1>4, <1>5, <1>7, OthersUntouched DEF NeverAborts

LEMMA RecvPartKeepsFInv ==
    ASSUME FInv, NEW fd \in Fd, RecvPart(fd)
    PROVE  FInv'
<1> DEFINE a == Arrived(fd)
           l == Len(buffers[fd])
           r == read_bytes[fd]
<1>1. IInv /\ IInv' /\ Shape /\ BytesShape /\ Conversation(fd) /\ CanRecv(fd) /\ a < r
  BY RecvKeepsIInv DEF FInv, IInv, RecvPart
<1>2. /\ a \in Nat \ {0} /\ r \in Nat
      /\ Filled(fd) \in Seq(ToServer) /\ Len(Filled(fd)) = l + a
      /\ Filled(fd) \o Rest(inbox[fd], a) \o draft[fd] = Coming(fd)
      /\ inbox' = [inbox EXCEPT ![fd] = Rest(inbox[fd], a)]
      /\ Coming(fd) # <<>> /\ ~Hears(fd)
      /\ fd \notin prompted \cup accept_sent
  BY <1>1, TakesWhatComes
<1>3. l \in Nat
  BY <1>1, LenProperties DEF BytesShape
<1>4. /\ buffers' = [buffers EXCEPT ![fd] = Filled(fd)]
      /\ read_bytes' = [read_bytes EXCEPT ![fd] = r - a]
      /\ UNCHANGED <<pc, read_state, write_state, write_bytes, logged_clients, accept_sent,
                     rejected_logins, peer, outbox, got, draft, prompted, kept, members>>
  BY DEF RecvPart, CanRecv, StillToRecv, Stay, logins, client
<1> HIDE DEF a, l, r
<1>5. r - a \in Nat
  BY <1>1, <1>2
<1>6. /\ buffers'[fd] = Filled(fd) /\ read_bytes'[fd] = r - a
      /\ inbox'[fd] = Rest(inbox[fd], a)
  BY <1>1, <1>2, <1>4 DEF BytesShape
<1>7. VerdictFits(fd)'
  BY <1>1, <1>4 DEF Conversation, VerdictFits
<1>8. /\ FrameOf(fd)' = FrameOf(fd) /\ Size(LastSent(fd))' = Size(LastSent(fd))
  BY <1>4, SameFrame
<1>9. CountFits(fd)'
  BY <1>1, <1>4, <1>8 DEF Conversation, CountFits
<1>10. SentOf(fd)' = SentOf(fd) /\ Unread(fd)' = Unread(fd)
  BY <1>4, <1>8 DEF SentOf, Unread
<1>11. Outward(fd)'
  BY <1>1, <1>4, <1>8, <1>10 DEF Conversation, Outward
<1>12. Coming(fd)' = Coming(fd) /\ ~Hears(fd)'
  BY <1>2, <1>4, <1>6, <1>10 DEF Coming, Hears
<1>13. Inward(fd)'
  <2>1. \A h \in Nat : r = h - l => l + a < h /\ r - a = h - (l + a)
    BY <1>1, <1>2, <1>3
  <2>2. HeaderSize \in Nat /\ LoginLen \in Nat
    BY SizeAssumption
  <2>3. CASE read_state[fd] = "HEADER_TO_RECV"
    <3>1. r = HeaderSize - l /\ \/ Coming(fd) \in {<<>>, KeepAliveFrame}
                                \/ \E attempt \in Attempts : Coming(fd) = LoginFrame(attempt)
      BY <1>1, <2>3 DEF Conversation, Inward, r, l
    <3>2. l + a < HeaderSize /\ r - a = HeaderSize - (l + a)
      BY <2>1, <2>2, <3>1
    <3> QED
      BY <1>2, <1>4, <1>6, <1>12, <2>3, <3>1, <3>2 DEF Inward
  <2>4. CASE read_state[fd] = "HEADER_RECVD"
    <3>1. r = LoginLen - l /\ \E attempt \in Attempts : Coming(fd) = Bytes(Login(attempt))
      BY <1>1, <1>2, <2>4 DEF Conversation, Inward, r, l
    <3>2. l + a < LoginLen /\ r - a = LoginLen - (l + a)
      BY <2>1, <2>2, <3>1
    <3> QED
      BY <1>2, <1>4, <1>6, <1>12, <2>4, <3>1, <3>2 DEF Inward
  <2> QED
    BY <1>1, <2>3, <2>4 DEF CanRecv, Receiving
<1>14. /\ read_state' = [read_state EXCEPT ![fd] = read_state[fd]]
       /\ write_state' = [write_state EXCEPT ![fd] = write_state[fd]]
       /\ write_bytes' = [write_bytes EXCEPT ![fd] = write_bytes[fd]]
       /\ write_bytes[fd] \in Nat
  BY <1>1, <1>4 DEF Shape, BytesShape
<1>15. pc' # "aborted"
  BY <1>4 DEF FInv, NeverAborts
<1>16. Keeps(fd)'
  BY <1>1, <1>2, <1>4, <1>12 DEF Conversation, Keeps, r
<1> QED
  BY <1>1, <1>2, <1>4, <1>5, <1>7, <1>9, <1>11, <1>13, <1>14, <1>15, <1>16, RecvTouchesOne
(* The bytes of an answer from the place where its header ends. *)
LEMMA HeaderComesFirst ==
    ASSUME FInv, NEW fd \in Fd, CanRecv(fd), Arrived(fd) = read_bytes[fd],
           read_state[fd] = "HEADER_TO_RECV"
    PROVE  /\ \/ Coming(fd) = KeepAliveFrame
              \/ \E attempt \in Attempts : Coming(fd) = LoginFrame(attempt)
           /\ Coming(fd) = KeepAliveFrame =>
                 /\ Filled(fd) = Bytes(Header(LOGIN, 0))
                 /\ <<>> \o Rest(inbox[fd], Arrived(fd)) \o draft[fd] = <<>>
           /\ \A attempt \in Attempts : Coming(fd) = LoginFrame(attempt) =>
                 /\ Filled(fd) = Bytes(Header(LOGIN, LoginLen))
                 /\ <<>> \o Rest(inbox[fd], Arrived(fd)) \o draft[fd] = Bytes(Login(attempt))
<1> DEFINE f == Filled(fd)
           i == Rest(inbox[fd], Arrived(fd))
           d == draft[fd]
<1>1. BytesShape /\ Conversation(fd)
  BY DEF FInv
<1>2. /\ f \in Seq(ToServer) /\ i \in Seq(ToServer) /\ d \in Seq(ToServer)
      /\ f \o i \o d = Coming(fd) /\ Coming(fd) # <<>>
  BY <1>1, TakesWhatComes DEF BytesShape
<1>3. Len(f) = HeaderSize
  <2>1. Len(f) = Len(buffers[fd]) + read_bytes[fd] /\ Len(buffers[fd]) \in Nat
    BY <1>1, TakesWhatComes, LenProperties DEF BytesShape
  <2>2. read_bytes[fd] = HeaderSize - Len(buffers[fd]) /\ HeaderSize \in Nat
    BY <1>1, SizeAssumption DEF Conversation, Inward
  <2> QED
    BY <2>1, <2>2
<1>4. \/ Coming(fd) = KeepAliveFrame
      \/ \E attempt \in Attempts : Coming(fd) = LoginFrame(attempt)
  BY <1>1, <1>2 DEF Conversation, Inward
<1> HIDE DEF f, i, d
<1>5. i \o d \in Seq(ToServer) /\ f \o i \o d = f \o (i \o d) /\ <<>> \o i = i
  <2>1. i \o d \in Seq(ToServer)
    BY <1>2, ConcatProperties
  <2>2. f \o i \o d = f \o (i \o d)
    <3>1. \A x, y, z \in Seq(ToServer) : (x \o y) \o z = x \o (y \o z)
      BY ConcatAssociative
    <3> QED
      BY <1>2, <3>1
  <2>3. <<>> \o i = i
    BY <1>2, ConcatEmptySeq
  <2> QED
    BY <2>1, <2>2, <2>3
<1>6. \A p, q, x, y \in Seq(ToServer) : p \o q = x \o y /\ Len(p) = Len(x) => p = x /\ q = y
  BY PartsAreEqual
<1>7. ASSUME Coming(fd) = KeepAliveFrame
      PROVE  f = Bytes(Header(LOGIN, 0)) /\ <<>> \o i \o d = <<>>
  <2> DEFINE k == Bytes(Header(LOGIN, 0))
  <2>1. k \in Seq(ToServer) /\ Len(k) = HeaderSize /\ Coming(fd) = k
    BY <1>7, ClientFrames DEF KeepAliveFrame
  <2> HIDE DEF k
  <2>2. k \o <<>> = k /\ <<>> \in Seq(ToServer)
    BY <2>1, ConcatEmptySeq
  <2>3. f \o (i \o d) = k \o <<>>
    BY <1>2, <1>5, <2>1, <2>2
  <2>4. f = k /\ i \o d = <<>>
    BY <1>2, <1>3, <1>5, <1>6, <2>1, <2>2, <2>3
  <2> QED
    BY <1>5, <2>4 DEF k
<1>8. ASSUME NEW attempt \in Attempts, Coming(fd) = LoginFrame(attempt)
      PROVE  f = Bytes(Header(LOGIN, LoginLen)) /\ <<>> \o i \o d = Bytes(Login(attempt))
  <2> DEFINE k == Bytes(Header(LOGIN, LoginLen))
             m == Bytes(Login(attempt))
  <2>1. k \in Seq(ToServer) /\ Len(k) = HeaderSize /\ m \in Seq(ToServer)
        /\ Coming(fd) = k \o m
    BY <1>8, ClientFrames DEF LoginFrame
  <2> HIDE DEF k, m
  <2>2. f \o (i \o d) = k \o m /\ f \in Seq(ToServer) /\ Len(f) = Len(k)
    BY <1>2, <1>3, <1>5, <2>1
  <2>3. f = k /\ i \o d = m
    BY <1>5, <1>6, <2>1, <2>2
  <2> QED
    BY <1>5, <2>1, <2>3 DEF k, m
<1> QED
  BY <1>4, <1>7, <1>8 DEF f, i, d

LEMMA RecvHeaderKeepsFInv ==
    ASSUME FInv, NEW fd \in Fd, RecvHeader(fd)
    PROVE  FInv'
<1>1. IInv /\ IInv' /\ Shape /\ BytesShape /\ Conversation(fd) /\ CanRecv(fd)
      /\ Arrived(fd) = read_bytes[fd] /\ read_state[fd] = "HEADER_TO_RECV"
      /\ write_state[fd] = "MSG_SENT"
  BY RecvKeepsIInv DEF FInv, IInv, RecvHeader, CanRecv, Receiving
<1>2. PICK n \in {0, LoginLen} :
         /\ Filled(fd) = Bytes(Header(LOGIN, n))
         /\ IF n = 0 THEN <<>> \o Rest(inbox[fd], Arrived(fd)) \o draft[fd] = <<>>
            ELSE \E attempt \in Attempts :
                    <<>> \o Rest(inbox[fd], Arrived(fd)) \o draft[fd] = Bytes(Login(attempt))
         /\ Coming(fd) = KeepAliveFrame => n = 0
  <2>1. LoginLen # 0
    BY SizeAssumption
  <2>2. CASE Coming(fd) = KeepAliveFrame
    BY <1>1, <2>2, HeaderComesFirst
  <2>3. CASE Coming(fd) # KeepAliveFrame
    BY <1>1, <2>1, <2>3, HeaderComesFirst
  <2> QED
    BY <2>2, <2>3
<1>3. /\ inbox' = [inbox EXCEPT ![fd] = Rest(inbox[fd], Arrived(fd))]
      /\ ~Hears(fd) /\ fd \notin prompted \cup accept_sent
  BY <1>1, TakesWhatComes
<1>4. n \in Nat /\ LoginLen \in Nat \ {0} /\ HeaderSize \in Nat \ {0}
  BY <1>2, SizeAssumption
<1>5. IsHeader(Filled(fd)) /\ Filled(fd)[1].msg.len = n
  <2>1. Header(LOGIN, n) \in ClientMsgs /\ Size(Header(LOGIN, n)) = HeaderSize
        /\ Header(LOGIN, n).kind = "HEADER" /\ Header(LOGIN, n).len = n
    BY <1>4, ClientFrames, HeaderMessage
  <2>2. /\ Len(Filled(fd)) = HeaderSize
        /\ \A i \in 1..HeaderSize :
              Filled(fd)[i].msg = Header(LOGIN, n) /\ Filled(fd)[i].at = i
    BY <1>2, <1>4, <2>1, BytesOfMessage
  <2>3. 1 \in 1..HeaderSize
    BY <1>4
  <2> QED
    BY <2>1, <2>2, <2>3 DEF IsHeader
<1>6. /\ read_state' = [read_state EXCEPT ![fd] = "HEADER_RECVD"]
      /\ read_bytes' = [read_bytes EXCEPT ![fd] = n]
      /\ buffers' = [buffers EXCEPT ![fd] = <<>>]
      /\ UNCHANGED <<pc, write_state, write_bytes, logged_clients, accept_sent,
                     rejected_logins, peer, outbox, got, draft, prompted, kept, members>>
  BY <1>5 DEF RecvHeader, CanRecv, clear_buff, Stay, logins, client
<1>7. /\ buffers'[fd] = <<>> /\ read_bytes'[fd] = n /\ read_state'[fd] = "HEADER_RECVD"
      /\ inbox'[fd] = Rest(inbox[fd], Arrived(fd))
  BY <1>1, <1>3, <1>6 DEF BytesShape, Shape
<1>8. VerdictFits(fd)' /\ CountFits(fd)'
  BY <1>1, <1>3, <1>6, <1>7 DEF VerdictFits, CountFits
<1>9. /\ FrameOf(fd)' = FrameOf(fd) /\ Size(LastSent(fd))' = Size(LastSent(fd))
  BY <1>6, SameFrame
<1>10. SentOf(fd)' = SentOf(fd) /\ Unread(fd)' = Unread(fd)
  BY <1>6, <1>9 DEF SentOf, Unread
<1>11. Outward(fd)'
  BY <1>1, <1>6, <1>9, <1>10 DEF Conversation, Outward
<1>12. /\ Coming(fd)' = <<>> \o Rest(inbox[fd], Arrived(fd)) \o draft[fd]
       /\ ~Hears(fd)'
  BY <1>3, <1>6, <1>7, <1>10 DEF Coming, Hears
<1>13. Inward(fd)'
  <2>1. Len(<<>>) < LoginLen /\ LoginLen = LoginLen - Len(<<>>)
    BY <1>4
  <2>2. CASE n = 0
    BY <1>2, <1>3, <1>6, <1>7, <1>12, <2>2 DEF Inward
  <2>3. CASE n # 0
    BY <1>2, <1>3, <1>6, <1>7, <1>12, <2>1, <2>3 DEF Inward
  <2> QED
    BY <2>2, <2>3
<1>14. /\ write_state' = [write_state EXCEPT ![fd] = write_state[fd]]
       /\ write_bytes' = [write_bytes EXCEPT ![fd] = write_bytes[fd]]
       /\ write_bytes[fd] \in Nat /\ <<>> \in Seq(ToServer)
  BY <1>1, <1>6 DEF Shape, BytesShape
<1>15. pc' # "aborted"
  BY <1>6 DEF FInv, NeverAborts
<1>16. Keeps(fd)'
  <2>1. fd \in kept => n = 0
    BY <1>1, <1>2 DEF Conversation, Keeps
  <2> QED
    BY <1>2, <1>6, <1>7, <1>12, <2>1 DEF Keeps
<1> QED
  BY <1>1, <1>4, <1>6, <1>8, <1>11, <1>13, <1>14, <1>15, <1>16, RecvTouchesOne

(* The buffer holds the whole login, and nothing comes after it. *)
LEMMA LoginComesWhole ==
    ASSUME FInv, NEW fd \in Fd, CanRecv(fd), Arrived(fd) = read_bytes[fd],
           read_state[fd] = "HEADER_RECVD"
    PROVE  /\ <<>> \o Rest(inbox[fd], Arrived(fd)) \o draft[fd] = <<>>
           /\ \E attempt \in Attempts :
                 Coming(fd) = Bytes(Login(attempt)) /\ Filled(fd)[1].msg.attempt = attempt
<1> DEFINE f == Filled(fd)
           i == Rest(inbox[fd], Arrived(fd))
           d == draft[fd]
<1>1. BytesShape /\ Conversation(fd)
  BY DEF FInv
<1>2. /\ f \in Seq(ToServer) /\ i \in Seq(ToServer) /\ d \in Seq(ToServer)
      /\ f \o i \o d = Coming(fd) /\ Coming(fd) # <<>>
  BY <1>1, TakesWhatComes DEF BytesShape
<1>3. /\ read_bytes[fd] = LoginLen - Len(buffers[fd])
      /\ \E attempt \in Attempts : Coming(fd) = Bytes(Login(attempt))
  BY <1>1 DEF Conversation, Inward, CanRecv
<1>4. Len(f) = LoginLen
  <2>1. Len(f) = Len(buffers[fd]) + read_bytes[fd] /\ Len(buffers[fd]) \in Nat
    BY <1>1, TakesWhatComes, LenProperties DEF BytesShape
  <2>2. LoginLen \in Nat
    BY SizeAssumption
  <2> QED
    BY <1>3, <2>1, <2>2
<1>5. PICK attempt \in Attempts : Coming(fd) = Bytes(Login(attempt))
  BY <1>3
<1> DEFINE m == Bytes(Login(attempt))
<1>6. m \in Seq(ToServer) /\ Len(m) = LoginLen
  BY ClientFrames
<1>7. m[1].msg.attempt = attempt
  <2>1. Login(attempt) \in ClientMsgs /\ Size(Login(attempt)) = LoginLen
        /\ Login(attempt).attempt = attempt
    BY LoginMessage
  <2>2. LoginLen \in Nat /\ 1 \in 1..LoginLen
    BY SizeAssumption
  <2> QED
    BY <2>1, <2>2, BytesOfMessage
<1>8. f \o i \o d = m
  BY <1>2, <1>5
<1> HIDE DEF f, i, d, m
<1>9. i \o d \in Seq(ToServer) /\ f \o i \o d = f \o (i \o d) /\ <<>> \o i = i
  <2>1. i \o d \in Seq(ToServer)
    BY <1>2, ConcatProperties
  <2>2. f \o i \o d = f \o (i \o d)
    <3>1. \A x, y, z \in Seq(ToServer) : (x \o y) \o z = x \o (y \o z)
      BY ConcatAssociative
    <3> QED
      BY <1>2, <3>1
  <2>3. <<>> \o i = i
    BY <1>2, ConcatEmptySeq
  <2> QED
    BY <2>1, <2>2, <2>3
<1>10. m \o <<>> = m /\ <<>> \in Seq(ToServer)
  BY <1>6, ConcatEmptySeq
<1>11. f = m /\ i \o d = <<>>
  <2>1. \A p, q, x, y \in Seq(ToServer) :
           p \o q = x \o y /\ Len(p) = Len(x) => p = x /\ q = y
    BY PartsAreEqual
  <2>2. f \o (i \o d) = m \o <<>>
    BY <1>8, <1>9, <1>10
  <2> QED
    BY <1>2, <1>4, <1>6, <1>9, <1>10, <2>1, <2>2
<1> QED
  BY <1>5, <1>7, <1>9, <1>11 DEF f, i, d, m

LEMMA RecvLoginKeepsFInv ==
    ASSUME FInv, NEW fd \in Fd, RecvLogin(fd)
    PROVE  FInv'
<1>1. IInv /\ IInv' /\ Shape /\ BytesShape /\ Conversation(fd) /\ CanRecv(fd)
      /\ Arrived(fd) = read_bytes[fd] /\ read_state[fd] = "HEADER_RECVD"
      /\ write_state[fd] = "MSG_SENT"
  BY RecvLoginKeepsIInv DEF FInv, IInv, RecvLogin, CanRecv, Receiving
<1>2. <<>> \o Rest(inbox[fd], Arrived(fd)) \o draft[fd] = <<>>
  BY <1>1, LoginComesWhole
<1>3. /\ inbox' = [inbox EXCEPT ![fd] = Rest(inbox[fd], Arrived(fd))]
      /\ ~Hears(fd) /\ fd \notin prompted \cup accept_sent
  BY <1>1, TakesWhatComes
<1>4. HeaderSize \in Nat \ {0}
  BY SizeAssumption
<1>5. /\ write_state' = [write_state EXCEPT ![fd] = "HEADER_TO_SEND"]
      /\ write_bytes' = [write_bytes EXCEPT ![fd] = HeaderSize]
      /\ read_state' = [read_state EXCEPT ![fd] = "MSG_RECVD"]
      /\ read_bytes' = [read_bytes EXCEPT ![fd] = 0]
      /\ buffers' = [buffers EXCEPT ![fd] = <<>>]
      /\ pc' = "scan"
      /\ UNCHANGED <<accept_sent, peer, outbox, got, draft, prompted, kept, members>>
  BY DEF RecvLogin, CanRecv, TurnToSend, clear_buff, Leave, client
<1>6. \/ /\ rejected_logins' = rejected_logins \ {fd}
         /\ logged_clients' = logged_clients \cup {fd}
      \/ /\ rejected_logins' = rejected_logins \cup {fd}
         /\ UNCHANGED logged_clients
  BY DEF RecvLogin, check_login, Admit, Reject
<1>7. /\ buffers'[fd] = <<>> /\ read_state'[fd] = "MSG_RECVD"
      /\ write_state'[fd] = "HEADER_TO_SEND" /\ write_bytes'[fd] = HeaderSize
      /\ inbox'[fd] = Rest(inbox[fd], Arrived(fd))
  BY <1>1, <1>3, <1>5 DEF BytesShape, Shape
<1>8. VerdictFits(fd)'
  BY <1>3, <1>5, <1>6, <1>7 DEF VerdictFits
<1>9. CountFits(fd)'
  BY <1>4, <1>7 DEF CountFits
<1>10. Outward(fd)'
  <2>1. SentOf(fd)' = 0
    BY <1>4, <1>7 DEF SentOf
  <2>2. peer[fd] = "open" => Unread(fd)' = <<>>
    BY <1>1, <1>3, <1>5 DEF Hears, Unread
  <2> QED
    BY <1>5, <2>1, <2>2, EmptyCut DEF Outward
<1>11. Inward(fd)'
  <2>1. Coming(fd)' = <<>>
    BY <1>2, <1>5, <1>7 DEF Coming
  <2> QED
    BY <1>3, <1>5, <1>7, <2>1 DEF Inward
<1>12. \A other \in Fd \ {fd} :
          /\ other \in logged_clients' <=> other \in logged_clients
          /\ other \in rejected_logins' <=> other \in rejected_logins
  BY <1>6
<1>13. <<>> \in Seq(ToServer) /\ HeaderSize \in Nat /\ 0 \in Nat
  BY <1>4
<1>14. Keeps(fd)'
  BY <1>1, <1>5 DEF Conversation, Keeps, CanRecv
<1> QED
  BY <1>1, <1>5, <1>8, <1>9, <1>10, <1>11, <1>12, <1>13, <1>14, RecvTouchesOne

LEMMA HandlerKeepsFInv ==
    ASSUME FInv, NEW fd \in Fd, Handler(fd)
    PROVE  FInv'
<1>1. CASE Send(fd)
  BY <1>1, SendKeepsFInv
<1>2. CASE RecvEnds(fd)
  BY <1>2, GiveUpKeepsFInv DEF RecvEnds
<1>3. CASE RecvBlocks(fd)
  BY <1>3, AllUntouched DEF RecvBlocks, Leave, logins, wires
<1>4. CASE RecvPart(fd)
  BY <1>4, RecvPartKeepsFInv
<1>5. CASE RecvHeader(fd)
  BY <1>5, RecvHeaderKeepsFInv
<1>6. CASE RecvLogin(fd)
  BY <1>6, RecvLoginKeepsFInv
<1>7. CASE ServeLogged(fd)
  <2>1. CASE GiveUp(fd)
    BY <2>1, GiveUpKeepsFInv
  <2>2. CASE ~GiveUp(fd)
    BY <1>7, <2>2, AllUntouched DEF ServeLogged, Leave, logins, wires
  <2> QED
    BY <2>1, <2>2
<1> QED
  BY <1>1, <1>2, <1>3, <1>4, <1>5, <1>6, <1>7 DEF Handler

LEMMA ServerKeepsFInv ==
    ASSUME FInv, Server
    PROVE  FInv'
<1>1. CASE \E fd \in Fd : Handler(fd)
  BY <1>1, HandlerKeepsFInv
<1>2. CASE \E fd \in Fd, optionsSet \in BOOLEAN : Accept(fd, optionsSet)
  BY <1>2, AcceptKeepsFInv
<1>3. CASE Select \/ EndRound \/ AcceptFails \/ AcceptedAll
  BY <1>3, AllUntouched
     DEF Select, EndRound, AcceptFails, AcceptedAll, logins, wires
<1>4. CASE \E fd \in Fd \cup {Listening} : VisitReadable(fd) \/ VisitWritable(fd)
  BY <1>4, AllUntouched DEF VisitReadable, VisitWritable, logins, wires, FInv, NeverAborts
<1> QED
  BY <1>1, <1>2, <1>3, <1>4 DEF Server

-----------------------------------------------------------------------------
(* The clients.                                                            *)

(* A client's step leaves the server's books as they are. *)
LEMMA ClientTouchesOne ==
    ASSUME FInv, NEW fd \in Fd,
           UNCHANGED <<process, states, logins, buffers>>,
           IInv', BytesShape', NothingLeft(fd)', Outward(fd)', Inward(fd)', Keeps(fd)',
           fd \in members' => fd \in accept_sent,
           \A other \in Fd \ {fd} :
               /\ peer'[other] = peer[other]
               /\ inbox'[other] = inbox[other] /\ outbox'[other] = outbox[other]
               /\ got'[other] = got[other] /\ draft'[other] = draft[other]
               /\ other \in prompted' <=> other \in prompted
               /\ other \in kept' <=> other \in kept
               /\ other \in members' <=> other \in members
    PROVE  FInv'
<1>1. Conversation(fd)
  BY DEF FInv
<1>2. UNCHANGED <<read_state, read_bytes, write_state, write_bytes, logged_clients,
                  accept_sent, rejected_logins, pc>>
  BY DEF process, states, logins
<1>3. Size(LastSent(fd))' = Size(LastSent(fd))
  BY <1>2, SameFrame
<1>4. Conversation(fd)'
  BY <1>1, <1>2, <1>3 DEF Conversation, VerdictFits, CountFits
<1>5. \A other \in Fd \ {fd} : SameAt(other)
  BY <1>2 DEF SameAt
<1>6. NeverAborts'
  BY <1>2 DEF FInv, NeverAborts
<1> QED
  BY <1>4, <1>5, <1>6, OthersUntouched

LEMMA ConsumedAFrame ==
    ASSUME FInv, NEW fd \in Fd, peer[fd] = "open", outbox[fd] # <<>>,
           NEW frame \in Seq(ToClient), frame # <<>>, frame \o Tail(outbox[fd]) = Unread(fd),
           Tail(outbox[fd]) \in Seq(ToClient),
           Len(frame) = HeaderSize + frame[1].msg.len
    PROVE  /\ Tail(outbox[fd]) = <<>> /\ frame[Len(frame)].msg = LastSent(fd)
           /\ write_state[fd] = "MSG_SENT"
<1> DEFINE rest == Tail(outbox[fd])
           f == FrameOf(fd)
           n == SentOf(fd)
           h == HeaderSize
           b == Size(LastSent(fd))
           w == write_bytes[fd]
<1>1. IInv /\ Conversation(fd) /\ BytesShape /\ fd \in master
  BY DEF FInv, IInv, OnlyOpenSockets
<1>2. /\ h \in Nat \ {0} /\ b \in Nat \ {0} /\ f \in Seq(ToClient) /\ Len(f) = h + b
      /\ f[1].msg.len = b /\ f[h + b].msg = LastSent(fd)
  <2>1. /\ h \in Nat \ {0} /\ b \in 1..4 /\ f \in Seq(ToClient) /\ Len(f) = h + b
        /\ HeaderOf(fd).len = b /\ f[1].msg = HeaderOf(fd) /\ f[Len(f)].msg = LastSent(fd)
    BY FrameShape
  <2> HIDE DEF f, h, b
  <2> QED
    BY <2>1
<1>3. write_state[fd] \in {"HEADER_TO_SEND", "HEADER_SENT", "MSG_SENT"}
  BY <1>1 DEF IInv, HalfDuplex
<1>4. frame \o rest \in Seq(ToClient) /\ Len(frame \o rest) = Len(frame) + Len(rest)
      /\ Len(frame) \in Nat \ {0} /\ Len(rest) \in Nat
  <2>1. frame \o rest \in Seq(ToClient) /\ Len(frame \o rest) = Len(frame) + Len(rest)
    BY ConcatProperties
  <2>2. Len(frame) \in Nat \ {0} /\ Len(rest) \in Nat
    BY EmptySeq, LenProperties
  <2> QED
    BY <2>1, <2>2
<1>5. frame \o rest = First(f, n)
  <2>1. frame \o rest # <<>>
    BY <1>4, ConcatEqualIffEmpty
  <2> QED
    BY <1>1, <2>1 DEF Conversation, Outward
<1>6. /\ n \in 0..(h + b)
      /\ n = h + b => write_state[fd] = "MSG_SENT"
  <2>1. CASE write_state[fd] = "HEADER_TO_SEND"
    <3>1. n = h - w /\ w \in 1..h
      BY <1>1, <2>1 DEF SentOf, Conversation, CountFits
    <3> HIDE DEF n, h, b, w
    <3>2. n \in 0..(h + b) /\ n # h + b
      BY <1>2, <3>1
    <3> QED
      BY <3>2
  <2>2. CASE write_state[fd] = "HEADER_SENT"
    <3>1. n = h + b - w /\ w \in 1..b
      BY <1>1, <2>2 DEF SentOf, Conversation, CountFits
    <3> HIDE DEF n, h, b, w
    <3>2. n \in 0..(h + b) /\ n # h + b
      BY <1>2, <3>1
    <3> QED
      BY <3>2
  <2>3. CASE write_state[fd] = "MSG_SENT"
    <3>1. n = h + b
      BY <2>3 DEF SentOf
    <3> QED
      BY <1>2, <2>3, <3>1
  <2> QED
    BY <1>3, <2>1, <2>2, <2>3
<1> HIDE DEF rest, f, n, h, b, w
<1>7. /\ Len(First(f, n)) = n /\ \A i \in 1..n : First(f, n)[i] = f[i]
  <2>1. n \in 0..Len(f)
    BY <1>2, <1>6
  <2> QED
    BY <1>2, <2>1, CutAnywhere
<1>8. Len(frame) + Len(rest) = n
  BY <1>4, <1>5, <1>7
<1>9. \A i \in 1..Len(frame) : frame[i] = f[i]
  <2>1. \A i \in 1..(Len(frame) + Len(rest)) :
           (frame \o rest)[i] = IF i <= Len(frame) THEN frame[i] ELSE rest[i - Len(frame)]
    BY ConcatProperties DEF rest
  <2>2. \A i \in 1..Len(frame) : i \in 1..(Len(frame) + Len(rest)) /\ i <= Len(frame)
    BY <1>4
  <2> QED
    BY <1>5, <1>7, <1>8, <2>1, <2>2
<1>10. 1 \in 1..Len(frame) /\ Len(frame) \in 1..Len(frame)
  BY <1>4
<1>11. frame[1].msg.len = b
  BY <1>2, <1>9, <1>10
<1>12. Len(frame) = h + b
  BY <1>11 DEF h
<1>13. Len(rest) = 0 /\ n = h + b
  BY <1>2, <1>4, <1>6, <1>8, <1>12
<1>14. rest = <<>>
  BY <1>13, EmptySeq DEF rest
<1>15. frame[Len(frame)].msg = LastSent(fd)
  BY <1>2, <1>9, <1>10, <1>12
<1> QED
  BY <1>6, <1>13, <1>14, <1>15 DEF rest

LEMMA ClientReadKeepsFInv ==
    ASSUME FInv, NEW fd \in Fd, ClientRead(fd)
    PROVE  FInv'
<1> DEFINE frame == Append(got[fd], Head(outbox[fd]))
           body == frame[Len(frame)].msg
<1>1. IInv /\ BytesShape /\ Conversation(fd)
  BY DEF FInv
<1>2. IInv'
  BY <1>1, BooksUntouched DEF ClientRead, process, logins
<1>3. got[fd] \in Seq(ToClient) /\ outbox[fd] \in Seq(ToClient) /\ outbox[fd] # <<>>
      /\ peer[fd] = "open"
  BY <1>1 DEF BytesShape, ClientRead
<1>4. /\ frame \in Seq(ToClient) /\ Tail(outbox[fd]) \in Seq(ToClient)
      /\ frame \o Tail(outbox[fd]) = Unread(fd)
  BY <1>3, ByteMoves DEF Unread
<1>5. frame # <<>>
  <2>1. Head(outbox[fd]) \in ToClient
    BY <1>3, HeadTailProperties
  <2> QED
    BY <1>3, <2>1, AppendProperties
<1>6. Unread(fd) # <<>>
  <2>1. \A x, y \in Seq(ToClient) : x \o y = <<>> <=> x = <<>> /\ y = <<>>
    BY ConcatEqualIffEmpty
  <2> HIDE DEF frame
  <2> QED
    BY <1>4, <1>5, <2>1
<1>7. Coming(fd) = <<>> /\ fd \notin prompted /\ read_state[fd] # "HEADER_RECVD"
  BY <1>1, <1>3, <1>6 DEF Conversation, Inward, Hears
<1>8. /\ outbox' = [outbox EXCEPT ![fd] = Tail(outbox[fd])]
      /\ UNCHANGED <<process, states, logins, buffers, peer, inbox, draft, kept>>
      /\ UNCHANGED <<read_state, read_bytes, write_state, write_bytes, logged_clients,
                     accept_sent, rejected_logins>>
  BY DEF ClientRead, states, logins
<1>9. outbox'[fd] = Tail(outbox[fd]) /\ outbox' \in [Fd -> Seq(ToClient)]
  BY <1>1, <1>4, <1>8 DEF BytesShape
<1>10. Coming(fd)' = <<>>
  BY <1>7, <1>8 DEF Coming
<1>11. FrameOf(fd)' = FrameOf(fd) /\ SentOf(fd)' = SentOf(fd)
  BY <1>8, SameFrame DEF SentOf
<1>12. NothingLeft(fd)' /\ Keeps(fd)'
  <2>1. fd \notin kept
    BY <1>1, <1>3, <1>6, NotKept DEF Hears
  <2> QED
    BY <1>3, <1>8, <2>1 DEF NothingLeft, Keeps
<1>13. CASE Len(frame) = HeaderSize + frame[1].msg.len
  <2>1. /\ Tail(outbox[fd]) = <<>> /\ body = LastSent(fd) /\ write_state[fd] = "MSG_SENT"
    BY <1>3, <1>4, <1>5, <1>13, ConsumedAFrame
  <2>2. /\ got' = [got EXCEPT ![fd] = <<>>]
        /\ members' = (IF body.kind = "CLIENT_ID" THEN members \cup {fd} ELSE members)
        /\ prompted' = (IF body.kind = "CLIENT_ID" THEN prompted ELSE prompted \cup {fd})
    BY <1>13 DEF ClientRead
  <2>3. body.kind = IF fd \in logged_clients THEN "CLIENT_ID" ELSE "STATEMENT"
    BY <2>1, LastSentMessage
  <2> HIDE DEF frame, body
  <2>4. fd \in accept_sent <=> fd \in logged_clients
    BY <1>1, <2>1 DEF IInv, IdIsOwed, OnlyVerifiedLogIn
  <2>5. <<>> \in Seq(ToClient)
    OBVIOUS
  <2>6. BytesShape'
    BY <1>1, <1>8, <1>9, <2>2, <2>5 DEF BytesShape, states, logins
  <2>7. Unread(fd)' = <<>>
    BY <1>1, <1>9, <2>1, <2>2 DEF Unread, BytesShape
  <2>8. Outward(fd)'
    BY <1>8, <2>1, <2>7 DEF Outward
  <2>9. ~Hears(fd)'
    BY <1>8, <2>1, <2>7 DEF Hears
  <2>10. Inward(fd)'
    <3>1. fd \in prompted' => fd \notin accept_sent
      BY <1>7, <2>2, <2>3, <2>4
    <3> QED
      BY <1>1, <1>7, <1>8, <1>10, <2>9, <3>1 DEF Inward, Conversation
  <2>11. fd \in members' => fd \in accept_sent
    BY <1>1, <2>2, <2>3, <2>4 DEF Conversation
  <2>12. \A other \in Fd \ {fd} :
            /\ outbox'[other] = outbox[other] /\ got'[other] = got[other]
            /\ other \in prompted' <=> other \in prompted
            /\ other \in members' <=> other \in members
    BY <1>1, <1>8, <2>2 DEF BytesShape
  <2> QED
    BY <1>2, <1>8, <1>12, <2>6, <2>8, <2>10, <2>11, <2>12, ClientTouchesOne
<1>14. CASE Len(frame) # HeaderSize + frame[1].msg.len
  <2>1. got' = [got EXCEPT ![fd] = frame] /\ UNCHANGED <<members, prompted>>
    BY <1>14 DEF ClientRead
  <2> HIDE DEF frame
  <2>2. BytesShape'
    BY <1>1, <1>4, <1>8, <1>9, <2>1 DEF BytesShape, states, logins
  <2>3. Unread(fd)' = Unread(fd)
    BY <1>1, <1>4, <1>9, <2>1 DEF Unread, BytesShape
  <2>4. Outward(fd)'
    BY <1>1, <1>8, <1>11, <2>3 DEF Outward, Conversation
  <2>5. Inward(fd)'
    BY <1>1, <1>7, <1>8, <1>10, <2>1 DEF Inward, Conversation
  <2>6. fd \in members' => fd \in accept_sent
    BY <1>1, <2>1 DEF Conversation
  <2>7. \A other \in Fd \ {fd} : outbox'[other] = outbox[other] /\ got'[other] = got[other]
    BY <1>1, <1>8, <2>1 DEF BytesShape
  <2> QED
    BY <1>2, <1>8, <1>12, <2>1, <2>2, <2>4, <2>5, <2>6, <2>7, ClientTouchesOne
<1> QED
  BY <1>13, <1>14
LEMMA AllEmpty ==
    ASSUME BytesShape, NEW fd \in Fd, Coming(fd) = <<>>
    PROVE  buffers[fd] = <<>> /\ inbox[fd] = <<>> /\ draft[fd] = <<>>
<1>1. /\ buffers[fd] \in Seq(ToServer) /\ inbox[fd] \in Seq(ToServer)
      /\ draft[fd] \in Seq(ToServer)
  BY DEF BytesShape
<1>2. \A x, y \in Seq(ToServer) : x \o y = <<>> <=> x = <<>> /\ y = <<>>
  BY ConcatEqualIffEmpty
<1>3. buffers[fd] \o inbox[fd] \in Seq(ToServer)
  BY <1>1, ConcatProperties
<1> QED
  BY <1>1, <1>2, <1>3 DEF Coming

(* A client begins to send a frame, and has sent all of what it sent before. *)
LEMMA NewDraftKeepsFInv ==
    ASSUME FInv, NEW fd \in Fd, NEW frame,
           \/ frame = KeepAliveFrame
           \/ \E attempt \in Attempts : frame = LoginFrame(attempt),
           draft' = [draft EXCEPT ![fd] = frame],
           UNCHANGED <<process, states, logins, buffers, wires, got, members>>,
           Coming(fd) = <<>>, ~Hears(fd), fd \notin accept_sent,
           read_state[fd] = "HEADER_TO_RECV"
               \/ (read_state[fd] = "HEADER_RECVD" /\ read_bytes[fd] = 0),
           prompted' = prompted \ {fd}, kept' \subseteq Fd,
           fd \in kept' => frame = KeepAliveFrame /\ read_state[fd] = "HEADER_TO_RECV",
           \A other \in Fd \ {fd} : other \in kept' <=> other \in kept
    PROVE  FInv'
<1>1. IInv /\ BytesShape /\ Conversation(fd)
  BY DEF FInv
<1>2. IInv'
  BY <1>1, BooksUntouched DEF process, logins, wires
<1>3. frame \in Seq(ToServer)
  BY ClientFrames
<1>5. buffers[fd] = <<>> /\ inbox[fd] = <<>>
  BY <1>1, AllEmpty
<1>6. UNCHANGED <<peer, inbox, outbox, read_state, read_bytes, write_state, write_bytes,
                  logged_clients, accept_sent, rejected_logins>>
  BY DEF states, logins, wires
<1>7. draft'[fd] = frame
  BY <1>1 DEF BytesShape
<1>8. BytesShape'
  BY <1>1, <1>3, <1>6 DEF BytesShape
<1>9. NothingLeft(fd)' /\ (fd \in members' => fd \in accept_sent)
  BY <1>1, <1>6 DEF NothingLeft, Conversation
<1>10. Unread(fd)' = Unread(fd) /\ FrameOf(fd)' = FrameOf(fd) /\ SentOf(fd)' = SentOf(fd)
  BY <1>6, SameFrame DEF Unread, SentOf
<1>11. Outward(fd)'
  BY <1>1, <1>6, <1>10 DEF Conversation, Outward
<1>12. Coming(fd)' = frame
  <2>1. <<>> \o <<>> \o frame = frame
    BY <1>3
  <2> QED
    BY <1>5, <1>6, <1>7, <2>1 DEF Coming
<1>13. ~Hears(fd)'
  BY <1>6, <1>10 DEF Hears
<1>14. Inward(fd)'
  BY <1>1, <1>6, <1>12, <1>13 DEF Conversation, Inward
<1>15. Keeps(fd)'
  BY <1>6, <1>12 DEF Keeps
<1>16. \A other \in Fd \ {fd} :
          draft'[other] = draft[other] /\ (other \in prompted' <=> other \in prompted)
  BY <1>1 DEF BytesShape
<1> QED
  BY <1>2, <1>6, <1>8, <1>9, <1>11, <1>14, <1>15, <1>16, ClientTouchesOne

(* A client that is prompted has nothing on the way, and is listened to. *)
LEMMA PromptedIsQuiet ==
    ASSUME FInv, NEW fd \in Fd, fd \in prompted, peer[fd] = "open"
    PROVE  /\ Coming(fd) = <<>> /\ ~Hears(fd) /\ fd \notin accept_sent
           /\ read_state[fd] = "HEADER_TO_RECV" /\ fd \notin kept
<1>1. IInv /\ Conversation(fd)
  BY DEF FInv
<1>2. Coming(fd) = <<>> /\ ~Hears(fd) /\ fd \notin accept_sent
      /\ read_state[fd] # "HEADER_RECVD"
  BY <1>1 DEF Conversation, Inward
<1>3. fd \notin kept
  BY <1>1, NotKept
<1>4. read_state[fd] = "HEADER_TO_RECV"
  BY <1>1, <1>2 DEF IInv, OnlyOpenSockets, HalfDuplex, Hears
<1> QED
  BY <1>2, <1>3, <1>4

(* One that has kept its connection alive, and has sent all of the header,  *)
(* is asked for nothing more.                                               *)
LEMMA KeptIsQuiet ==
    ASSUME FInv, NEW fd \in Fd, fd \in kept, draft[fd] = <<>>, inbox[fd] = <<>>
    PROVE  /\ Coming(fd) = <<>> /\ ~Hears(fd) /\ fd \notin prompted \cup accept_sent
           /\ read_state[fd] = "HEADER_RECVD" /\ read_bytes[fd] = 0
<1>1. BytesShape /\ Conversation(fd)
  BY DEF FInv
<1>2. ~Hears(fd) /\ fd \notin prompted \cup accept_sent
  BY <1>1, NotKept
<1>3. buffers[fd] \in Seq(ToServer)
  BY <1>1 DEF BytesShape
<1>4. Coming(fd) = buffers[fd]
  <2> DEFINE x == buffers[fd]
  <2>1. x \in Seq(ToServer) /\ Coming(fd) = x \o <<>> \o <<>>
    BY <1>3 DEF Coming
  <2> HIDE DEF x
  <2>2. x \o <<>> = x
    BY <2>1, ConcatEmptySeq
  <2> QED
    BY <2>1, <2>2 DEF x
<1>5. read_state[fd] # "HEADER_TO_RECV"
  <2>1. SUFFICES ASSUME read_state[fd] = "HEADER_TO_RECV" PROVE FALSE
    OBVIOUS
  <2>2. Len(buffers[fd]) < HeaderSize /\ Coming(fd) = KeepAliveFrame
    BY <1>1, <2>1 DEF Conversation, Inward, Keeps
  <2>3. Len(KeepAliveFrame) = HeaderSize /\ HeaderSize \in Nat
    BY ClientFrames DEF KeepAliveFrame
  <2> HIDE DEF KeepAliveFrame
  <2> QED
    BY <1>4, <2>2, <2>3
<1> QED
  BY <1>1, <1>2, <1>5 DEF Conversation, Keeps

LEMMA ClientAnswerKeepsFInv ==
    ASSUME FInv, NEW fd \in Fd, NEW attempt \in Attempts,
           ClientAnswer(fd, attempt) \/ ClientAnswerLate(fd, attempt)
    PROVE  FInv'
<1>1. kept \subseteq Fd
  BY DEF FInv, BytesShape
<1>2. CASE ClientAnswer(fd, attempt)
  <2>1. /\ Coming(fd) = <<>> /\ ~Hears(fd) /\ fd \notin accept_sent
        /\ read_state[fd] = "HEADER_TO_RECV" /\ fd \notin kept
    BY <1>2, PromptedIsQuiet DEF ClientAnswer
  <2>2. /\ prompted' = prompted \ {fd} /\ kept' = kept
        /\ draft' = [draft EXCEPT ![fd] = LoginFrame(attempt)]
        /\ UNCHANGED <<process, states, logins, buffers, wires, got, members>>
    BY <1>2 DEF ClientAnswer
  <2> DEFINE frame == LoginFrame(attempt)
  <2>3. /\ frame = KeepAliveFrame \/ \E a \in Attempts : frame = LoginFrame(a)
        /\ draft' = [draft EXCEPT ![fd] = frame]
    BY <2>2
  <2>4. kept' \subseteq Fd /\ fd \notin kept'
        /\ \A other \in Fd \ {fd} : other \in kept' <=> other \in kept
    BY <1>1, <2>1, <2>2
  <2>5. /\ read_state[fd] = "HEADER_TO_RECV"
               \/ (read_state[fd] = "HEADER_RECVD" /\ read_bytes[fd] = 0)
        /\ fd \in kept' => frame = KeepAliveFrame /\ read_state[fd] = "HEADER_TO_RECV"
    BY <2>1, <2>4
  <2>6. /\ prompted' = prompted \ {fd}
        /\ UNCHANGED <<process, states, logins, buffers, wires, got, members>>
    BY <2>2
  <2>7. Coming(fd) = <<>> /\ ~Hears(fd) /\ fd \notin accept_sent
    BY <2>1
  <2> HIDE DEF frame
  <2> QED
    BY ONLY FInv, fd \in Fd, <2>3, <2>4, <2>5, <2>6, <2>7, NewDraftKeepsFInv
<1>3. CASE ClientAnswerLate(fd, attempt)
  <2>1. /\ Coming(fd) = <<>> /\ ~Hears(fd) /\ fd \notin prompted \cup accept_sent
        /\ read_state[fd] = "HEADER_RECVD" /\ read_bytes[fd] = 0
    BY <1>3, KeptIsQuiet DEF ClientAnswerLate
  <2>2. /\ prompted' = prompted \ {fd} /\ kept' = kept \ {fd}
        /\ draft' = [draft EXCEPT ![fd] = LoginFrame(attempt)]
        /\ UNCHANGED <<process, states, logins, buffers, wires, got, members>>
    BY <1>3, <2>1 DEF ClientAnswerLate
  <2> DEFINE frame == LoginFrame(attempt)
  <2>3. /\ frame = KeepAliveFrame \/ \E a \in Attempts : frame = LoginFrame(a)
        /\ draft' = [draft EXCEPT ![fd] = frame]
    BY <2>2
  <2>4. kept' \subseteq Fd /\ fd \notin kept'
        /\ \A other \in Fd \ {fd} : other \in kept' <=> other \in kept
    BY <1>1, <2>2
  <2> HIDE DEF frame
  <2> QED
    BY ONLY FInv, fd \in Fd, <2>1, <2>2, <2>3, <2>4, NewDraftKeepsFInv
<1> QED
  BY <1>2, <1>3

LEMMA ClientKeepAliveKeepsFInv ==
    ASSUME FInv, NEW fd \in Fd, ClientKeepAlive(fd)
    PROVE  FInv'
<1>1. kept \subseteq Fd
  BY DEF FInv, BytesShape
<1>2. /\ Coming(fd) = <<>> /\ ~Hears(fd) /\ fd \notin accept_sent
      /\ read_state[fd] = "HEADER_TO_RECV"
  BY PromptedIsQuiet DEF ClientKeepAlive
<1>3. /\ prompted' = prompted \ {fd} /\ kept' = kept \cup {fd}
      /\ draft' = [draft EXCEPT ![fd] = KeepAliveFrame]
      /\ UNCHANGED <<process, states, logins, buffers, wires, got, members>>
  BY DEF ClientKeepAlive
<1> DEFINE frame == KeepAliveFrame
<1>4. /\ draft' = [draft EXCEPT ![fd] = frame]
      /\ frame = KeepAliveFrame \/ \E a \in Attempts : frame = LoginFrame(a)
      /\ frame = KeepAliveFrame
  BY <1>3
<1>5. kept' \subseteq Fd /\ \A other \in Fd \ {fd} : other \in kept' <=> other \in kept
  BY <1>1, <1>3
<1>6. /\ read_state[fd] = "HEADER_TO_RECV"
             \/ (read_state[fd] = "HEADER_RECVD" /\ read_bytes[fd] = 0)
      /\ fd \in kept' => frame = KeepAliveFrame /\ read_state[fd] = "HEADER_TO_RECV"
  BY <1>2, <1>4
<1>7. /\ prompted' = prompted \ {fd}
      /\ UNCHANGED <<process, states, logins, buffers, wires, got, members>>
  BY <1>3
<1>8. Coming(fd) = <<>> /\ ~Hears(fd) /\ fd \notin accept_sent
  BY <1>2
<1> HIDE DEF frame
<1> QED
  BY ONLY FInv, fd \in Fd, <1>4, <1>5, <1>6, <1>7, <1>8, NewDraftKeepsFInv

(* A byte of a draft moves to the end of the inbox. *)
LEMMA WritingMovesAByte ==
    ASSUME BytesShape, NEW fd \in Fd, draft[fd] # <<>>
    PROVE  /\ Append(inbox[fd], Head(draft[fd])) \in Seq(ToServer)
           /\ Tail(draft[fd]) \in Seq(ToServer)
           /\ buffers[fd] \o Append(inbox[fd], Head(draft[fd])) \o Tail(draft[fd]) = Coming(fd)
<1> DEFINE x == buffers[fd]
           y == inbox[fd]
           z == draft[fd]
<1>1. x \in Seq(ToServer) /\ y \in Seq(ToServer) /\ z \in Seq(ToServer) /\ z # <<>>
  BY DEF BytesShape
<1> HIDE DEF x, y, z
<1>2. /\ Append(y, Head(z)) \in Seq(ToServer) /\ Tail(z) \in Seq(ToServer)
      /\ Append(y, Head(z)) \o Tail(z) = y \o z
  BY <1>1, ByteMoves
<1>3. \A p, q, r \in Seq(ToServer) : (p \o q) \o r = p \o (q \o r)
  BY ConcatAssociative
<1>4. /\ x \o Append(y, Head(z)) \o Tail(z) = x \o (Append(y, Head(z)) \o Tail(z))
      /\ x \o y \o z = x \o (y \o z)
  BY <1>1, <1>2, <1>3
<1> QED
  BY <1>2, <1>4 DEF Coming, x, y, z

LEMMA ClientWriteKeepsFInv ==
    ASSUME FInv, NEW fd \in Fd, ClientWrite(fd)
    PROVE  FInv'
<1>1. IInv /\ BytesShape /\ Conversation(fd)
  BY DEF FInv
<1>2. IInv'
  BY <1>1, BooksUntouched DEF ClientWrite, process, logins
<1>3. /\ buffers[fd] \in Seq(ToServer) /\ inbox[fd] \in Seq(ToServer)
      /\ draft[fd] \in Seq(ToServer) /\ draft[fd] # <<>>
  BY <1>1 DEF BytesShape, ClientWrite
<1>4. /\ Append(inbox[fd], Head(draft[fd])) \in Seq(ToServer)
      /\ Tail(draft[fd]) \in Seq(ToServer)
      /\ buffers[fd] \o Append(inbox[fd], Head(draft[fd])) \o Tail(draft[fd]) = Coming(fd)
  BY <1>1, <1>3, WritingMovesAByte
<1>5. /\ UNCHANGED <<process, states, logins, buffers, peer, outbox, got, prompted, kept,
                     members>>
      /\ UNCHANGED <<read_state, read_bytes, write_state, write_bytes, logged_clients,
                     accept_sent, rejected_logins>>
      /\ inbox' = [inbox EXCEPT ![fd] = Append(inbox[fd], Head(draft[fd]))]
      /\ draft' = [draft EXCEPT ![fd] = Tail(draft[fd])]
  BY DEF ClientWrite, states, logins
<1>6. /\ inbox'[fd] = Append(inbox[fd], Head(draft[fd])) /\ draft'[fd] = Tail(draft[fd])
  BY <1>1, <1>5 DEF BytesShape
<1>7. BytesShape'
  BY <1>1, <1>4, <1>5 DEF BytesShape, states, logins
<1>8. NothingLeft(fd)' /\ (fd \in members' => fd \in accept_sent)
  BY <1>1, <1>5 DEF NothingLeft, Conversation
<1>9. Unread(fd)' = Unread(fd) /\ FrameOf(fd)' = FrameOf(fd) /\ SentOf(fd)' = SentOf(fd)
  BY <1>5, SameFrame DEF Unread, SentOf
<1>10. Outward(fd)'
  BY <1>1, <1>5, <1>9 DEF Conversation, Outward
<1>11. Coming(fd)' = Coming(fd)
  BY <1>4, <1>5, <1>6 DEF Coming
<1>12. Hears(fd)' = Hears(fd)
  BY <1>5, <1>9 DEF Hears
<1>13. Inward(fd)' /\ Keeps(fd)'
  BY <1>1, <1>5, <1>11, <1>12 DEF Conversation, Inward, Keeps
<1>14. \A other \in Fd \ {fd} : draft'[other] = draft[other] /\ inbox'[other] = inbox[other]
  BY <1>1, <1>5 DEF BytesShape
<1> QED
  BY <1>2, <1>5, <1>7, <1>8, <1>10, <1>13, <1>14, ClientTouchesOne

LEMMA ClientLeaveKeepsFInv ==
    ASSUME FInv, NEW fd \in Fd, ClientLeave(fd)
    PROVE  FInv'
<1>1. IInv /\ BytesShape /\ Conversation(fd) /\ Shape
  BY DEF FInv, IInv
<1>2. IInv'
  <2>1. /\ peer' \in [Fd -> PeerStates]
        /\ \A other \in Fd : peer'[other] # "none" <=> peer[other] # "none"
    BY <1>1 DEF ClientLeave, Shape, PeerStates
  <2>2. UNCHANGED <<states, logged_clients, accept_sent, rejected_logins, verified,
                    buffers, master>>
    BY DEF ClientLeave, process, logins
  <2> QED
    BY <1>1, <2>1, <2>2 DEF IInv, Shape, NoEntryNoState, OnlyOpenSockets, HalfDuplex,
                            IdIsOwed, OnlyVerifiedLogIn, Registered, states
<1>3. /\ UNCHANGED <<process, states, logins, buffers, inbox, outbox, got, draft, prompted,
                     kept, members>>
      /\ UNCHANGED <<read_state, read_bytes, write_state, write_bytes, logged_clients,
                     accept_sent, rejected_logins>>
      /\ peer[fd] = "open" /\ peer'[fd] \in {"left", "reset"}
      /\ \A other \in Fd \ {fd} : peer'[other] = peer[other]
  BY <1>1 DEF ClientLeave, states, logins, client, Shape
<1>4. BytesShape'
  BY <1>1, <1>3 DEF BytesShape, states, logins
<1>5. NothingLeft(fd)' /\ Outward(fd)' /\ (fd \in members' => fd \in accept_sent)
  BY <1>1, <1>3 DEF NothingLeft, Outward, Conversation
<1>6. Coming(fd)' = Coming(fd) /\ (Hears(fd)' => Hears(fd))
  BY <1>3 DEF Coming, Hears
<1>7. Inward(fd)' /\ Keeps(fd)'
  BY <1>1, <1>3, <1>6 DEF Conversation, Inward, Keeps
<1> QED
  BY <1>2, <1>3, <1>4, <1>5, <1>7, ClientTouchesOne

LEMMA ClientKeepsFInv ==
    ASSUME FInv, Client
    PROVE  FInv'
<1>1. CASE \E fd \in Fd : ClientLeave(fd)
  BY <1>1, ClientLeaveKeepsFInv
<1>2. CASE \E fd \in Fd : ClientRead(fd)
  BY <1>2, ClientReadKeepsFInv
<1>3. CASE \E fd \in Fd : ClientWrite(fd)
  BY <1>3, ClientWriteKeepsFInv
<1>4. CASE \E fd \in Fd, attempt \in Attempts :
              ClientAnswer(fd, attempt) \/ ClientAnswerLate(fd, attempt)
  BY <1>4, ClientAnswerKeepsFInv
<1>5. CASE \E fd \in Fd : ClientKeepAlive(fd)
  BY <1>5, ClientKeepAliveKeepsFInv
<1>6. CASE ClientConnect
  BY <1>6, AllUntouched DEF ClientConnect, process, logins, FInv, NeverAborts
<1> QED
  BY <1>1, <1>2, <1>3, <1>4, <1>5, <1>6 DEF Client

LEMMA NextKeepsFInv == FInv /\ [Next]_vars => FInv'
<1> SUFFICES ASSUME FInv, [Next]_vars PROVE FInv'
  OBVIOUS
<1>1. CASE Server
  BY <1>1, ServerKeepsFInv
<1>2. CASE Client
  BY <1>2, ClientKeepsFInv
<1>3. CASE UNCHANGED vars
  BY <1>3, AllUntouched DEF vars, process, logins, wires, FInv, NeverAborts
<1> QED
  BY <1>1, <1>2, <1>3 DEF Next, Terminated

LEMMA FramesInvariance == Spec => []FInv
BY InitFInv, NextKeepsFInv, PTL DEF Spec

-----------------------------------------------------------------------------
(* What a client has got and not consumed is a prefix of one frame, as long *)
(* as the counters say.                                                     *)
LEMMA ConversationMeansIntact == FInv => FramesIntact
<1> SUFFICES ASSUME FInv, NEW fd \in Fd, peer[fd] = "open"
             PROVE  CASE write_state[fd] = "HEADER_TO_SEND" ->
                            Unread(fd) = First(Frame(get_login_state(fd)),
                                               HeaderSize - write_bytes[fd])
                      [] write_state[fd] = "HEADER_SENT" ->
                            Unread(fd) = First(Frame(get_login_state(fd)),
                                   HeaderSize + get_login_state(fd).len - write_bytes[fd])
                      [] OTHER ->
                            \/ Unread(fd) = <<>>
                            \/ Unread(fd) = Bytes(Header(IF fd \in logged_clients
                                                         THEN CLIENT_ID ELSE STATEMENT,
                                                         Size(LastSent(fd))))
                                            \o Bytes(LastSent(fd))
  BY DEF FramesIntact
<1>1. Outward(fd)
  BY DEF FInv, Conversation
<1>2. CASE write_state[fd] \in {"HEADER_TO_SEND", "HEADER_SENT"}
  <2>1. /\ Frame(get_login_state(fd)) = FrameOf(fd)
        /\ get_login_state(fd).len = Size(LastSent(fd))
    BY <1>2, MessageIsDue DEF Frame, FrameOf
  <2>2. Unread(fd) = First(FrameOf(fd), SentOf(fd))
    BY <1>1, <1>2 DEF Outward
  <2>3. CASE write_state[fd] = "HEADER_TO_SEND"
    BY <2>1, <2>2, <2>3 DEF SentOf
  <2>4. CASE write_state[fd] = "HEADER_SENT"
    BY <2>1, <2>2, <2>4 DEF SentOf
  <2> QED
    BY <1>2, <2>3, <2>4
<1>3. CASE write_state[fd] \notin {"HEADER_TO_SEND", "HEADER_SENT"}
  <2>1. SentOf(fd) = Len(FrameOf(fd)) /\ FrameOf(fd) \in Seq(ToClient)
    BY <1>3, FrameShape DEF SentOf
  <2>2. First(FrameOf(fd), SentOf(fd)) = FrameOf(fd)
    BY <2>1, SubSeqFull DEF First
  <2>3. Unread(fd) = <<>> \/ Unread(fd) = FrameOf(fd)
    BY <1>1, <2>2 DEF Outward
  <2> QED
    BY <1>3, <2>3 DEF FrameOf, HeaderOf
<1> QED
  BY <1>2, <1>3

(* No partial send repeats, skips or mixes bytes, although get_login_state  *)
(* works the message out anew on every send.                                *)
THEOREM Frames == Spec => []FramesIntact
BY FramesInvariance, ConversationMeansIntact, PTL

(* No header is parsed from other bytes than its own, and send_nbytes is    *)
(* asked for no more bytes than the message has.                            *)
THEOREM NoAbort == Spec => []NeverAborts
<1>1. FInv => NeverAborts
  BY DEF FInv
<1> QED
  BY <1>1, FramesInvariance, PTL

(* A client that has read its CLIENT_ID is one the server takes for sent.   *)
THEOREM BothEndsAgree == Spec => []MembersAreLoggedIn
<1>1. FInv => MembersAreLoggedIn
  BY DEF FInv, BytesShape, Conversation, MembersAreLoggedIn
<1> QED
  BY <1>1, FramesInvariance, PTL
-----------------------------------------------------------------------------
(* The types of what is left.                                              *)

ProcessTypes ==
    /\ pc \in {"select", "scan", "accept", "in", "out", "stopped", "aborted"}
    /\ current_desc \in Fd \cup {Listening}
    /\ read_set \subseteq Fd \cup {Listening} /\ write_set \subseteq Fd
    /\ run_server \in BOOLEAN
    /\ max_sd \in Fd \cup {Listening}

WorldTypes ==
    /\ netstate \subseteq Fd /\ verified \subseteq Fd
    /\ users \in Seq(LoginInfo)
    /\ backlog \in 0..MaxClients

LEMMA FiniteFd == IsFiniteSet(Fd)
<1>1. Fd \in SUBSET Nat /\ 1023 \in Nat /\ \A fd \in Fd : fd <= 1023
  BY FdAssumption
<1> QED
  BY <1>1, FS_BoundedSetOfNaturals

LEMMA InitTypes == Init => ProcessTypes /\ WorldTypes
BY LoginAssumption, SizeAssumption DEF Init, ProcessTypes, WorldTypes

LEMMA NextKeepsProcessTypes ==
    ASSUME FInv, ProcessTypes, [Next]_vars
    PROVE  ProcessTypes'
<1>1. master \subseteq Fd
  BY DEF FInv, IInv, Shape
<1>2. CASE Select
  BY <1>1, <1>2 DEF Select, Readable, Writable, ToWrite, ProcessTypes
<1>3. ASSUME NEW fd \in Fd \cup {Listening}, VisitReadable(fd) PROVE ProcessTypes'
  BY <1>3 DEF VisitReadable, ProcessTypes
<1>4. ASSUME NEW fd \in Fd, VisitWritable(fd) PROVE ProcessTypes'
  BY <1>4 DEF VisitWritable, ProcessTypes
<1>5. ASSUME NEW fd \in Fd, NEW optionsSet \in BOOLEAN, Accept(fd, optionsSet)
      PROVE  ProcessTypes'
  <2>1. max_sd' \in {max_sd, fd} /\ pc' \in {"accept", "scan"}
    BY <1>5 DEF Accept, Accepted
  <2> QED
    BY <1>5, <2>1 DEF Accept, ProcessTypes
<1>6. CASE EndRound \/ AcceptFails \/ AcceptedAll
  BY <1>6 DEF EndRound, AcceptFails, AcceptedAll, ProcessTypes
<1>7. ASSUME NEW fd \in Fd, Handler(fd) PROVE ProcessTypes'
  <2>1. pc' \in {pc, "scan", "aborted", "stopped"}
        /\ UNCHANGED <<current_desc, read_set, write_set, run_server, max_sd>>
    <3>1. CASE Send(fd)
      BY <3>1 DEF Send, SendTakes, HeaderSent, BodySent, SendBlocks, SendFails, SigPipe, GiveUp,
                  Leave, Stay, UnchangedScan
    <3>2. CASE RecvEnds(fd) \/ RecvBlocks(fd)
      BY <3>2 DEF RecvEnds, RecvBlocks, GiveUp, Leave, UnchangedScan
    <3>3. CASE RecvPart(fd) \/ RecvHeader(fd) \/ RecvLogin(fd)
      BY <3>3 DEF RecvPart, RecvHeader, RecvLogin, CanRecv, Leave, Stay, UnchangedScan
    <3>4. CASE ServeLogged(fd)
      BY <3>4 DEF ServeLogged, GiveUp, Leave, UnchangedScan
    <3> QED
      BY <1>7, <3>1, <3>2, <3>3, <3>4 DEF Handler
  <2> QED
    BY <2>1 DEF ProcessTypes
<1>8. CASE Client
  BY <1>8 DEF Client, ClientConnect, ClientRead, ClientWrite, ClientLeave, ClientAnswer,
              ClientAnswerLate, ClientKeepAlive, process, ProcessTypes
<1>9. CASE UNCHANGED vars
  BY <1>9 DEF vars, process, ProcessTypes
<1> QED
  BY <1>2, <1>3, <1>4, <1>5, <1>6, <1>7, <1>8, <1>9 DEF Next, Server, Terminated

LEMMA NextKeepsWorldTypes ==
    ASSUME FInv, WorldTypes, [Next]_vars
    PROVE  WorldTypes'
<1>1. CASE UNCHANGED <<netstate, verified, users, backlog>>
  BY <1>1 DEF WorldTypes
<1>2. CASE Select \/ EndRound \/ AcceptFails \/ AcceptedAll
  BY <1>1, <1>2 DEF Select, EndRound, AcceptFails, AcceptedAll, logins, wires
<1>3. CASE \E fd \in Fd \cup {Listening} : VisitReadable(fd) \/ VisitWritable(fd)
  BY <1>1, <1>3 DEF VisitReadable, VisitWritable, logins, wires
<1>4. ASSUME NEW fd \in Fd, NEW optionsSet \in BOOLEAN, Accept(fd, optionsSet)
      PROVE  WorldTypes'
  <2>1. backlog' = backlog - 1 /\ backlog > 0 /\ UNCHANGED <<netstate, verified, users>>
    BY <1>4 DEF Accept, logins
  <2>2. MaxClients \in Nat
    BY SizeAssumption
  <2> QED
    BY <2>1, <2>2 DEF WorldTypes
<1>5. ASSUME NEW fd \in Fd, GiveUp(fd) PROVE WorldTypes'
  <2>1. UNCHANGED <<netstate, users, backlog>> /\ verified' \in {verified, verified \ {fd}}
    BY <1>5 DEF GiveUp, Close, Disconnect, logins, wires
  <2> QED
    BY <2>1 DEF WorldTypes
<1>6. ASSUME NEW fd \in Fd, Handler(fd) PROVE WorldTypes'
  <2>1. CASE Send(fd)
    BY <1>1, <1>5, <2>1 DEF Send, SendTakes, PutOnWire, HeaderSent, BodySent, SendBlocks, SendFails,
                            SigPipe, logins, wires
  <2>2. CASE RecvEnds(fd) \/ RecvBlocks(fd) \/ ServeLogged(fd)
    BY <1>1, <1>5, <2>2 DEF RecvEnds, RecvBlocks, ServeLogged, logins, wires
  <2>3. CASE RecvPart(fd) \/ RecvHeader(fd)
    BY <1>1, <2>3 DEF RecvPart, RecvHeader, CanRecv, logins
  <2>4. CASE RecvLogin(fd)
    <3> DEFINE info == Filled(fd)[1].msg.attempt
    <3>1. info \in LoginInfo
      BY <2>4, LoginComesWhole, LoginAssumption DEF RecvLogin
    <3>2. users' = BufferToWrite(users, info) /\ backlog' = backlog
          /\ netstate' \in {netstate, netstate \cup {fd}}
          /\ verified' \in {verified, verified \cup {fd}}
      BY <2>4 DEF RecvLogin, CanRecv, check_login, Admit, Reject
    <3> HIDE DEF info
    <3>3. BufferToWrite(users, info) \in Seq(LoginInfo)
      BY <3>1, AppendProperties DEF BufferToWrite, WorldTypes
    <3> QED
      BY <3>2, <3>3 DEF WorldTypes
  <2> QED
    BY <1>6, <2>1, <2>2, <2>3, <2>4 DEF Handler
<1>7. CASE ClientConnect
  <2> DEFINE n == Cardinality({fd \in Fd : peer[fd] # "none"})
  <2>1. n \in Nat
    <3>1. {fd \in Fd : peer[fd] # "none"} \subseteq Fd
      OBVIOUS
    <3>2. IsFiniteSet({fd \in Fd : peer[fd] # "none"})
      BY <3>1, FiniteFd, FS_Subset
    <3> QED
      BY <3>2, FS_CardinalityType
  <2>2. backlog + n < MaxClients /\ backlog' = backlog + 1 /\ UNCHANGED logins
    BY <1>7 DEF ClientConnect
  <2> HIDE DEF n
  <2>3. MaxClients \in Nat
    BY SizeAssumption
  <2> QED
    BY <2>1, <2>2, <2>3 DEF WorldTypes, logins
<1>8. CASE Client /\ ~ClientConnect
  BY <1>1, <1>8 DEF Client, ClientRead, ClientWrite, ClientLeave, ClientAnswer,
                    ClientAnswerLate, ClientKeepAlive, logins, wires
<1>9. CASE UNCHANGED vars
  BY <1>1, <1>9 DEF vars, logins, wires
<1> QED
  BY <1>2, <1>3, <1>4, <1>6, <1>7, <1>8, <1>9 DEF Next, Server, Terminated

(* Every variable keeps its type. *)
THEOREM TypeCorrect == Spec => []TypeOK
<1>1. FInv /\ ProcessTypes /\ WorldTypes => TypeOK
  BY DEF FInv, IInv, Shape, BytesShape, ProcessTypes, WorldTypes, TypeOK, ToClient, ToServer, PeerStates
<1>2. Init => ProcessTypes /\ WorldTypes
  BY InitTypes
<1>3. FInv /\ ProcessTypes /\ WorldTypes /\ [Next]_vars => ProcessTypes' /\ WorldTypes'
  BY NextKeepsProcessTypes, NextKeepsWorldTypes
<1> QED
  BY <1>1, <1>2, <1>3, FramesInvariance, PTL DEF Spec

-----------------------------------------------------------------------------
(* While no call fails, max_sd is raised for every descriptor accepted, and *)
(* remove_socket, which looks for a new maximum in a copy, never lowers it. *)
THEOREM Scanned == CallsMayFail = FALSE /\ Spec => []EveryDescriptorScanned
<1> DEFINE Reached == CallsMayFail = FALSE /\ EveryDescriptorScanned
<1>1. CallsMayFail = FALSE /\ Init => Reached
  BY DEF Init, EveryDescriptorScanned
<1>2. ASSUME CallsMayFail = FALSE, FInv, FInv', ProcessTypes, ProcessTypes', EveryDescriptorScanned,
             [Next]_vars
      PROVE  EveryDescriptorScanned'
  <2>1. /\ master \subseteq Fd /\ max_sd \in Fd \cup {Listening}
        /\ Fd \cup {Listening} \subseteq Nat
    BY <1>2, FdAssumption DEF FInv, IInv, Shape, ProcessTypes
  <2>2. CASE master' \subseteq master /\ max_sd' = max_sd
    BY <1>2, <2>2 DEF EveryDescriptorScanned
  <2>3. ASSUME NEW fd \in Fd, NEW optionsSet \in BOOLEAN, Accept(fd, optionsSet)
        PROVE  EveryDescriptorScanned'
    <3>1. /\ master' = master \cup {fd}
          /\ max_sd' = IF fd > max_sd THEN fd ELSE max_sd
      BY <1>2, <2>3 DEF Accept, Accepted
    <3>2. \A x, y, z \in Nat : x <= y /\ z > y => x <= z
      OBVIOUS
    <3> QED
      BY <1>2, <2>1, <3>1, <3>2 DEF EveryDescriptorScanned
  <2>4. ASSUME NEW fd \in Fd, Handler(fd) PROVE master' \subseteq master /\ max_sd' = max_sd
    <3>1. CASE Send(fd)
      BY <3>1 DEF Send, SendTakes, SendBlocks, SendFails, SigPipe, GiveUp, Close, UnchangedScan
    <3>2. CASE RecvEnds(fd) \/ RecvBlocks(fd)
      BY <3>2 DEF RecvEnds, RecvBlocks, GiveUp, Close, UnchangedScan
    <3>3. CASE RecvPart(fd) \/ RecvHeader(fd) \/ RecvLogin(fd)
      BY <3>3 DEF RecvPart, RecvHeader, RecvLogin, CanRecv, UnchangedScan
    <3>4. CASE ServeLogged(fd)
      BY <3>4 DEF ServeLogged, GiveUp, Close, UnchangedScan
    <3> QED
      BY <2>4, <3>1, <3>2, <3>3, <3>4 DEF Handler
  <2>5. CASE Select \/ EndRound \/ AcceptFails \/ AcceptedAll
    BY <2>2, <2>5 DEF Select, EndRound, AcceptFails, AcceptedAll
  <2>6. CASE \E fd \in Fd \cup {Listening} : VisitReadable(fd) \/ VisitWritable(fd)
    BY <2>2, <2>6 DEF VisitReadable, VisitWritable
  <2>7. CASE Client
    BY <2>2, <2>7 DEF Client, ClientConnect, ClientRead, ClientWrite, ClientLeave, ClientAnswer,
                      ClientAnswerLate, ClientKeepAlive, process
  <2>8. CASE UNCHANGED vars
    BY <2>2, <2>8 DEF vars, process
  <2> QED
    BY <1>2, <2>2, <2>3, <2>4, <2>5, <2>6, <2>7, <2>8 DEF Next, Server, Terminated
<1>3. FInv /\ ProcessTypes /\ [Next]_vars => ProcessTypes'
  BY NextKeepsProcessTypes
<1>4. Init => ProcessTypes
  BY InitTypes
<1>5. /\ Reached /\ FInv /\ FInv' /\ ProcessTypes /\ ProcessTypes' /\ [Next]_vars => Reached'
      /\ Reached => EveryDescriptorScanned
  BY <1>2
<1> HIDE DEF Reached
<1> QED
  BY <1>1, <1>3, <1>4, <1>5, FramesInvariance, PTL DEF Spec

-----------------------------------------------------------------------------
(* LoginService decides by the operators of Accounts, as the server does.  *)

LEMMA SameFound ==
    \A lines, login : Service!find_user(lines, login) = find_user(lines, login)
BY DEF Service!find_user, find_user, Service!Matches, Matches, Service!EndsWith, EndsWith,
       Service!NON_EXISTENT, NON_EXISTENT

LEMMA SameCorrectness ==
    \A lines, info : Service!is_login_info_correct(lines, info) = is_login_info_correct(lines, info)
BY SameFound
   DEF Service!is_login_info_correct, is_login_info_correct,
       Service!is_lexically_correct, is_lexically_correct, Service!Letters, Letters,
       Service!cmp_login_info, cmp_login_info, Service!NON_EXISTENT, NON_EXISTENT,
       Service!CORRECT, CORRECT, Service!INCORRECT, INCORRECT

LEMMA SameDecision ==
    \A lines, info :
        /\ Service!Verdict(lines, info) = Verdict(lines, info)
        /\ Service!BufferToWrite(lines, info) = BufferToWrite(lines, info)
        /\ Service!CORRECT = CORRECT
BY SameCorrectness
   DEF Service!Verdict, Verdict, Service!BufferToWrite, BufferToWrite,
       Service!is_lexically_correct, is_lexically_correct, Service!Letters, Letters,
       Service!NON_EXISTENT, NON_EXISTENT,
       Service!CORRECT, CORRECT, Service!INCORRECT, INCORRECT

-----------------------------------------------------------------------------
(* Where the mapped state changes.                                         *)

(* What the stage of a connection is read off. *)
SameStage(fd) ==
    /\ peer'[fd] = "none" <=> peer[fd] = "none"
    /\ peer'[fd] = "open" <=> peer[fd] = "open"
    /\ fd \in members' <=> fd \in members
    /\ fd \in prompted' <=> fd \in prompted
    /\ fd \in logged_clients' <=> fd \in logged_clients
    /\ fd \in rejected_logins' <=> fd \in rejected_logins
    /\ read_state'[fd] = "HEADER_RECVD" <=> read_state[fd] = "HEADER_RECVD"
    /\ Submitted(fd)' = Submitted(fd)

LEMMA StageKept ==
    ASSUME NEW fd \in Fd, SameStage(fd)
    PROVE  /\ StageOf(fd)' = StageOf(fd) /\ AttemptOf(fd)' = AttemptOf(fd)
           /\ (peer[fd] = "open")' = (peer[fd] = "open")
<1>1. StageOf(fd)' = StageOf(fd)
  BY DEF SameStage, StageOf
<1>2. AttemptOf(fd)' = AttemptOf(fd)
  BY <1>1 DEF SameStage, AttemptOf
<1> QED
  BY <1>1, <1>2 DEF SameStage

LEMMA NoStep ==
    ASSUME \A fd \in Fd : SameStage(fd), users' = users
    PROVE  UNCHANGED Service!vars
BY StageKept DEF Service!vars

LEMMA OneStep ==
    ASSUME NEW fd \in Fd, \A other \in Fd \ {fd} : SameStage(other)
    PROVE  /\ [x \in Fd |-> StageOf(x)]'
                  = [[x \in Fd |-> StageOf(x)] EXCEPT ![fd] = StageOf(fd)']
           /\ [x \in Fd |-> AttemptOf(x)]'
                  = [[x \in Fd |-> AttemptOf(x)] EXCEPT ![fd] = AttemptOf(fd)']
           /\ [x \in Fd |-> peer[x] = "open"]'
                  = [[x \in Fd |-> peer[x] = "open"] EXCEPT ![fd] = (peer[fd] = "open")']
<1>1. \A other \in Fd \ {fd} :
         /\ StageOf(other)' = StageOf(other) /\ AttemptOf(other)' = AttemptOf(other)
         /\ (peer[other] = "open")' = (peer[other] = "open")
  BY StageKept
<1>2. [x \in Fd |-> StageOf(x)]' = [[x \in Fd |-> StageOf(x)] EXCEPT ![fd] = StageOf(fd)']
  BY <1>1
<1>3. [x \in Fd |-> AttemptOf(x)]' = [[x \in Fd |-> AttemptOf(x)] EXCEPT ![fd] = AttemptOf(fd)']
  BY <1>1
<1>4. [x \in Fd |-> peer[x] = "open"]'
          = [[x \in Fd |-> peer[x] = "open"] EXCEPT ![fd] = (peer[fd] = "open")']
  BY <1>1
<1> QED
  BY <1>2, <1>3, <1>4

TheStage   == [fd \in Fd |-> StageOf(fd)]
TheAttempt == [fd \in Fd |-> AttemptOf(fd)]
Here       == [fd \in Fd |-> peer[fd] = "open"]

LEMMA MoveStep ==
    ASSUME NEW fd \in Fd, \A other \in Fd \ {fd} : SameStage(other),
           NEW from, NEW to, StageOf(fd) = from, StageOf(fd)' = to
    PROVE  Service!Move(fd, from, to)
<1>1. TheStage' = [TheStage EXCEPT ![fd] = to] /\ TheStage[fd] = from
  BY OneStep DEF TheStage
<1> QED
  BY <1>1 DEF Service!Move, TheStage

LEMMA AttemptStep ==
    ASSUME NEW fd \in Fd, \A other \in Fd \ {fd} : SameStage(other)
    PROVE  /\ TheAttempt' = [TheAttempt EXCEPT ![fd] = AttemptOf(fd)']
           /\ AttemptOf(fd)' = AttemptOf(fd) => TheAttempt' = TheAttempt
<1>1. TheAttempt' = [TheAttempt EXCEPT ![fd] = AttemptOf(fd)']
  BY OneStep DEF TheAttempt
<1>2. AttemptOf(fd)' = AttemptOf(fd) => TheAttempt' = TheAttempt
  BY <1>1 DEF TheAttempt
<1> QED
  BY <1>1, <1>2

LEMMA HereStep ==
    ASSUME NEW fd \in Fd, \A other \in Fd \ {fd} : SameStage(other)
    PROVE  /\ Here' = [Here EXCEPT ![fd] = (peer'[fd] = "open")]
           /\ (peer'[fd] = "open" <=> peer[fd] = "open") => Here' = Here
<1>1. Here' = [Here EXCEPT ![fd] = (peer'[fd] = "open")]
  BY OneStep DEF Here
<1>2. (peer'[fd] = "open" <=> peer[fd] = "open") => Here' = Here
  BY <1>1 DEF Here
<1> QED
  BY <1>1, <1>2

-----------------------------------------------------------------------------
(* The steps of the server.                                                *)

LEMMA SubmittedIsComing == ASSUME NEW fd PROVE Submitted(fd) = Coming(fd)
BY DEF Submitted, Coming

LEMMA AcceptConnects ==
    ASSUME FInv, NEW fd \in Fd, NEW optionsSet \in BOOLEAN, Accept(fd, optionsSet)
    PROVE  Service!Connect(fd)
<1>1. IInv /\ Shape /\ BytesShape /\ Conversation(fd)
  BY DEF FInv, IInv
<1>2. /\ peer[fd] = "none" /\ read_state[fd] = "NONE" /\ write_state[fd] = "NONE"
      /\ fd \notin logged_clients \cup accept_sent \cup rejected_logins
  BY <1>1 DEF Accept, Free, IInv, OnlyOpenSockets, Registered, NoEntryNoState
<1>3. /\ read_state' = [read_state EXCEPT ![fd] = "IDLE"]
      /\ peer' = [peer EXCEPT ![fd] = "open"]
      /\ UNCHANGED <<logged_clients, rejected_logins, buffers, inbox, draft, prompted, members,
                     users>>
  BY <1>2 DEF Accept, add_new_cli, logins, client
<1>4. read_state'[fd] = "IDLE" /\ peer'[fd] = "open"
  BY <1>1, <1>3 DEF Shape
<1>5. Submitted(fd)' = <<>> /\ fd \notin prompted /\ fd \notin members
  BY <1>1, <1>2, <1>3 DEF Submitted, Coming, Conversation, Inward, Hears
<1>6. \A other \in Fd \ {fd} : SameStage(other)
  BY <1>1, <1>3 DEF SameStage, Submitted, Shape
<1>7. StageOf(fd) = "none" /\ AttemptOf(fd) = NoAttempt
  BY <1>2 DEF StageOf, AttemptOf
<1>8. StageOf(fd)' = "greeted"
  BY <1>2, <1>3, <1>4, <1>5 DEF StageOf
<1>9. AttemptOf(fd)' = NoAttempt
  BY <1>8 DEF AttemptOf
<1>10. Service!Move(fd, "none", "greeted")
  BY <1>6, <1>7, <1>8, MoveStep
<1>11. Here' = [Here EXCEPT ![fd] = TRUE] /\ TheAttempt' = TheAttempt
  BY <1>4, <1>6, <1>7, <1>9, HereStep, AttemptStep
<1> QED
  BY <1>3, <1>10, <1>11 DEF Service!Connect, Here, TheAttempt

LEMMA CloseHangsUp ==
    ASSUME FInv, NEW fd \in Fd, peer[fd] # "none", Close(fd)
    PROVE  Service!HangUp(fd)
<1>1. Shape /\ BytesShape
  BY DEF FInv, IInv
<1>2. peer'[fd] = "none" /\ users' = users
  BY <1>1 DEF Close, Disconnect, Shape
<1>3. \A other \in Fd \ {fd} : SameStage(other)
  BY <1>1 DEF Close, remove_socket, clear_buff, Disconnect, BytesShape, Shape, SameStage, Submitted
<1>4. StageOf(fd) # "none"
  BY DEF StageOf
<1>5. StageOf(fd)' = "none"
  BY <1>2 DEF StageOf
<1>6. AttemptOf(fd)' = NoAttempt
  BY <1>5 DEF AttemptOf
<1>7. TheStage' = [TheStage EXCEPT ![fd] = "none"] /\ TheStage[fd] # "none"
  BY <1>3, <1>4, <1>5, OneStep DEF TheStage
<1>8. Here' = [Here EXCEPT ![fd] = FALSE] /\ TheAttempt' = [TheAttempt EXCEPT ![fd] = NoAttempt]
  BY <1>2, <1>3, <1>6, HereStep, AttemptStep
<1> QED
  BY <1>2, <1>7, <1>8 DEF Service!HangUp, TheStage, Here, TheAttempt

LEMMA GiveUpHangsUp ==
    ASSUME FInv, NEW fd \in Fd, peer[fd] # "none", GiveUp(fd)
    PROVE  Service!HangUp(fd) \/ UNCHANGED Service!vars
<1>1. CASE pc = "in"
  BY <1>1, CloseHangsUp DEF GiveUp
<1>2. CASE pc # "in"
  <2>1. /\ \A other \in Fd : SameStage(other)
        /\ users' = users
    BY <1>2 DEF GiveUp, states, logins, wires, client, SameStage, Submitted
  <2> QED
    BY <2>1, NoStep
<1> QED
  BY <1>1, <1>2

(* Sending is not visible: the client has not read it. *)
LEMMA SendIsInvisible ==
    ASSUME FInv, NEW fd \in Fd, Send(fd)
    PROVE  Service!HangUp(fd) \/ UNCHANGED Service!vars
<1>1. Sending(fd) /\ IInv /\ Shape
  BY DEF Send, FInv, IInv
<1>2. peer[fd] # "none" /\ read_state[fd] \in {"IDLE", "MSG_RECVD"}
  BY <1>1, StatesMeanOpen DEF Sending, IInv, HalfDuplex
<1>3. CASE SendTakes(fd)
  <2>1. UNCHANGED <<logged_clients, rejected_logins, users, buffers, inbox, draft, prompted, members>>
    BY <1>3 DEF SendTakes, PutOnWire, HeaderSent, BodySent, logins, client
  <2>2. \A other \in Fd : /\ peer'[other] = "none" <=> peer[other] = "none"
                          /\ peer'[other] = "open" <=> peer[other] = "open"
    <3>1. CASE peer' = peer
      BY <3>1
    <3>2. ASSUME peer[fd] # "open",
                 NEW fate \in {"left", "reset"}, peer' = [peer EXCEPT ![fd] = fate]
          PROVE  \A other \in Fd : /\ peer'[other] = "none" <=> peer[other] = "none"
                                   /\ peer'[other] = "open" <=> peer[other] = "open"
      BY <1>1, <1>2, <3>2 DEF Shape
    <3> QED
      BY <1>3, <3>1, <3>2 DEF SendTakes, PutOnWire
  <2>3. read_state' \in {read_state, [read_state EXCEPT ![fd] = "HEADER_TO_RECV"]}
    BY <1>3 DEF SendTakes, HeaderSent, BodySent, TurnToRecv
  <2>4. \A other \in Fd : read_state'[other] = "HEADER_RECVD" <=> read_state[other] = "HEADER_RECVD"
    BY <1>1, <1>2, <2>3 DEF Shape
  <2>5. \A other \in Fd : SameStage(other)
    BY <2>1, <2>2, <2>4 DEF SameStage, Submitted
  <2> QED
    BY <2>1, <2>5, NoStep
<1>4. CASE SendFails(fd)
  BY <1>2, <1>4, GiveUpHangsUp DEF SendFails
<1>5. CASE UNCHANGED <<states, logins, buffers, wires, client>>
  <2>1. /\ \A other \in Fd : SameStage(other)
        /\ users' = users
    BY <1>5 DEF states, logins, wires, client, SameStage, Submitted
  <2> QED
    BY <2>1, NoStep
<1>6. CASE SendBlocks(fd) \/ SigPipe(fd)
  BY <1>5, <1>6 DEF SendBlocks, SigPipe
<1> QED
  BY <1>3, <1>4, <1>5, <1>6 DEF Send
(* What the last byte of an answer says. *)
LEMMA LastBytes ==
    /\ /\ KeepAliveFrame # <<>>
       /\ KeepAliveFrame[Len(KeepAliveFrame)].msg.kind = "HEADER"
    /\ \A a \in Attempts :
          /\ LoginFrame(a) # <<>>
          /\ LoginFrame(a)[Len(LoginFrame(a))].msg.kind = "LOGIN"
          /\ LoginFrame(a)[Len(LoginFrame(a))].msg.attempt = a
          /\ Bytes(Login(a)) # <<>>
          /\ Bytes(Login(a))[Len(Bytes(Login(a)))].msg.kind = "LOGIN"
          /\ Bytes(Login(a))[Len(Bytes(Login(a)))].msg.attempt = a
<1>1. HeaderSize \in Nat \ {0} /\ LoginLen \in Nat \ {0} /\ 0 \in Nat
      /\ HeaderSize \in Nat /\ LoginLen \in Nat
  BY SizeAssumption
<1>2. /\ KeepAliveFrame # <<>>
      /\ KeepAliveFrame[Len(KeepAliveFrame)].msg.kind = "HEADER"
  <2>1. Header(LOGIN, 0) \in ClientMsgs /\ Size(Header(LOGIN, 0)) = HeaderSize
        /\ Header(LOGIN, 0).kind = "HEADER"
    BY <1>1, HeaderMessage, ClientFrames
  <2>2. /\ Len(KeepAliveFrame) = HeaderSize
        /\ \A i \in 1..HeaderSize : KeepAliveFrame[i].msg = Header(LOGIN, 0)
    BY <1>1, <2>1, BytesOfMessage DEF KeepAliveFrame
  <2>3. HeaderSize \in 1..HeaderSize
    BY <1>1
  <2> QED
    BY <1>1, <2>1, <2>2, <2>3
<1>3. ASSUME NEW a \in Attempts
      PROVE  /\ Bytes(Login(a)) # <<>>
             /\ Bytes(Login(a))[Len(Bytes(Login(a)))].msg = Login(a)
             /\ LoginFrame(a) # <<>>
             /\ LoginFrame(a)[Len(LoginFrame(a))].msg = Login(a)
  <2> DEFINE h == Bytes(Header(LOGIN, LoginLen))
             b == Bytes(Login(a))
  <2>1. Login(a) \in ClientMsgs /\ Size(Login(a)) = LoginLen
    BY LoginMessage
  <2>2. /\ b \in Seq(ToServer) /\ Len(b) = LoginLen
        /\ \A i \in 1..LoginLen : b[i].msg = Login(a)
    BY <1>1, <2>1, BytesOfMessage DEF ToServer
  <2>3. h \in Seq(ToServer) /\ Len(h) = HeaderSize /\ LoginFrame(a) = h \o b
    BY ClientFrames DEF LoginFrame
  <2> HIDE DEF h, b
  <2>4. /\ Len(h \o b) = HeaderSize + LoginLen
        /\ \A i \in 1..(HeaderSize + LoginLen) :
              (h \o b)[i] = IF i <= HeaderSize THEN h[i] ELSE b[i - HeaderSize]
    BY <2>2, <2>3, ConcatProperties
  <2>5. \A i, j \in Nat \ {0} : i + j \in 1..(i + j) /\ ~(i + j <= i) /\ i + j - i = j /\ j \in 1..j
                                /\ i + j # 0
    OBVIOUS
  <2>6. (h \o b)[HeaderSize + LoginLen] = b[LoginLen] /\ LoginLen \in 1..LoginLen
        /\ HeaderSize + LoginLen # 0
    BY <1>1, <2>4, <2>5
  <2>7. b # <<>> /\ h \o b # <<>>
    BY <1>1, <2>2, <2>4, <2>6
  <2> QED
    BY <2>2, <2>3, <2>4, <2>6, <2>7 DEF b
<1> QED
  BY <1>2, <1>3 DEF Login

(* The server receives an answer only where one is being given. *)
LEMMA ReceivingMeansAsked ==
    ASSUME FInv, NEW fd \in Fd, CanRecv(fd)
    PROVE  /\ peer[fd] # "none" /\ StageOf(fd) = "asked"
           /\ fd \notin prompted \cup logged_clients \cup members
           /\ Submitted(fd) = Coming(fd) /\ Submitted(fd) # <<>>
<1>1. fd \notin prompted \cup accept_sent \cup members /\ Coming(fd) # <<>>
  BY TakesWhatComes
<1>2. peer[fd] # "none" /\ fd \notin logged_clients \ accept_sent
  BY StatesMeanOpen DEF FInv, CanRecv, Receiving, IInv, IdIsOwed
<1>3. Submitted(fd) = Coming(fd)
  BY DEF Submitted, Coming
<1> QED
  BY <1>1, <1>2, <1>3 DEF StageOf

(* Nothing of the other connections changes when the server receives. *)
LEMMA RecvElsewhere ==
    ASSUME FInv, NEW fd \in Fd, CanRecv(fd),
           \A other \in Fd \ {fd} :
               /\ read_state'[other] = read_state[other] /\ buffers'[other] = buffers[other]
               /\ other \in logged_clients' <=> other \in logged_clients
               /\ other \in rejected_logins' <=> other \in rejected_logins
    PROVE  /\ \A other \in Fd \ {fd} : SameStage(other)
           /\ UNCHANGED <<peer, prompted, members, draft>>
<1>1. UNCHANGED <<peer, prompted, members, draft>>
  BY DEF CanRecv, client
<1>2. \A other \in Fd \ {fd} : inbox'[other] = inbox[other]
  BY DEF CanRecv, FInv, BytesShape
<1> QED
  BY <1>1, <1>2 DEF SameStage, Submitted

LEMMA RecvPartIsInvisible ==
    ASSUME FInv, NEW fd \in Fd, RecvPart(fd)
    PROVE  UNCHANGED Service!vars
<1>1. CanRecv(fd) /\ BytesShape
  BY DEF RecvPart, FInv
<1>2. /\ buffers' = [buffers EXCEPT ![fd] = Filled(fd)]
      /\ UNCHANGED <<read_state, logged_clients, rejected_logins, users>>
  BY DEF RecvPart, logins
<1>3. /\ \A other \in Fd \ {fd} : SameStage(other)
      /\ UNCHANGED <<peer, prompted, members, draft>>
  BY <1>1, <1>2, RecvElsewhere DEF BytesShape
<1>4. /\ Filled(fd) \o Rest(inbox[fd], Arrived(fd)) \o draft[fd] = Coming(fd)
      /\ inbox' = [inbox EXCEPT ![fd] = Rest(inbox[fd], Arrived(fd))]
  BY <1>1, TakesWhatComes
<1>5. Submitted(fd)' = Submitted(fd)
  BY <1>1, <1>2, <1>3, <1>4 DEF Submitted, Coming, BytesShape
<1>6. SameStage(fd)
  BY <1>2, <1>3, <1>5 DEF SameStage
<1> QED
  BY <1>2, <1>3, <1>6, NoStep

(* A header is taken off an answer: what was presented does not change. *)
LEMMA RecvHeaderIsInvisible ==
    ASSUME FInv, NEW fd \in Fd, RecvHeader(fd)
    PROVE  UNCHANGED Service!vars
<1>1. CanRecv(fd) /\ BytesShape /\ Shape /\ Arrived(fd) = read_bytes[fd]
      /\ read_state[fd] = "HEADER_TO_RECV" /\ Conversation(fd)
  BY DEF RecvHeader, FInv, IInv
<1>2. FInv' /\ NeverAborts'
  BY RecvHeaderKeepsFInv DEF FInv
<1>3. /\ read_state' = [read_state EXCEPT ![fd] = "HEADER_RECVD"]
      /\ buffers' = [buffers EXCEPT ![fd] = <<>>]
      /\ UNCHANGED <<logged_clients, rejected_logins, users>>
  BY <1>2 DEF RecvHeader, NeverAborts, clear_buff, logins
<1>4. /\ \A other \in Fd \ {fd} : SameStage(other)
      /\ UNCHANGED <<peer, prompted, members, draft>>
  BY <1>1, <1>3, RecvElsewhere DEF BytesShape, Shape
<1>5. /\ peer[fd] # "none" /\ StageOf(fd) = "asked"
      /\ fd \notin prompted \cup logged_clients \cup members
      /\ Submitted(fd) = Coming(fd) /\ Submitted(fd) # <<>>
  BY <1>1, ReceivingMeansAsked
<1>6. read_state'[fd] = "HEADER_RECVD"
  BY <1>1, <1>3 DEF Shape
<1>7. StageOf(fd)' = "asked"
  BY <1>3, <1>4, <1>5, <1>6 DEF StageOf
<1>8. inbox' = [inbox EXCEPT ![fd] = Rest(inbox[fd], Arrived(fd))]
  BY <1>1, TakesWhatComes
<1>9. Submitted(fd)' = <<>> \o Rest(inbox[fd], Arrived(fd)) \o draft[fd]
  BY <1>1, <1>3, <1>4, <1>8 DEF Submitted, BytesShape
<1>10. AttemptOf(fd)' = AttemptOf(fd)
  <2>1. CASE Coming(fd) = KeepAliveFrame
    <3>1. AttemptOf(fd) = NoAttempt
      BY <1>5, <2>1, LastBytes DEF AttemptOf
    <3>2. Submitted(fd)' = <<>>
      BY <1>1, <1>9, <2>1, HeaderComesFirst
    <3> QED
      BY <3>1, <3>2 DEF AttemptOf
  <2>2. ASSUME NEW a \in Attempts, Coming(fd) = LoginFrame(a)
        PROVE  AttemptOf(fd)' = AttemptOf(fd)
    <3>1. AttemptOf(fd) = a
      BY <1>5, <2>2, LastBytes DEF AttemptOf
    <3>2. Submitted(fd)' = Bytes(Login(a))
      BY <1>1, <1>9, <2>2, HeaderComesFirst
    <3>3. AttemptOf(fd)' = a
      BY <1>7, <3>2, LastBytes DEF AttemptOf
    <3> QED
      BY <3>1, <3>3
  <2> QED
    BY <1>1, <1>5, <2>1, <2>2 DEF Conversation, Inward
<1>11. TheStage' = TheStage
  <2>1. TheStage' = [TheStage EXCEPT ![fd] = StageOf(fd)']
    BY <1>4, OneStep DEF TheStage
  <2> QED
    BY <1>5, <1>7, <2>1 DEF TheStage
<1>12. TheAttempt' = TheAttempt /\ Here' = Here
  BY <1>4, <1>10, AttemptStep, HereStep
<1> QED
  BY <1>3, <1>11, <1>12 DEF Service!vars, TheStage, TheAttempt, Here

(* check_login decides. *)
LEMMA RecvLoginDecides ==
    ASSUME FInv, NEW fd \in Fd, RecvLogin(fd)
    PROVE  Service!Decide(fd)
<1>1. CanRecv(fd) /\ BytesShape /\ Shape /\ Arrived(fd) = read_bytes[fd]
      /\ read_state[fd] = "HEADER_RECVD" /\ Conversation(fd)
  BY DEF RecvLogin, FInv, IInv
<1>2. /\ read_state' = [read_state EXCEPT ![fd] = "MSG_RECVD"]
      /\ buffers' = [buffers EXCEPT ![fd] = <<>>]
  BY DEF RecvLogin, TurnToSend, clear_buff
<1>3. /\ peer[fd] # "none" /\ StageOf(fd) = "asked"
      /\ fd \notin prompted \cup logged_clients \cup members
      /\ Submitted(fd) = Coming(fd) /\ Submitted(fd) # <<>>
  BY <1>1, ReceivingMeansAsked
<1>4. PICK a \in Attempts :
         Coming(fd) = Bytes(Login(a)) /\ Filled(fd)[1].msg.attempt = a
  BY <1>1, LoginComesWhole
<1>5. AttemptOf(fd) = a
  BY <1>3, <1>4, LastBytes DEF AttemptOf
<1>6. /\ users' = BufferToWrite(users, a)
      /\ IF Verdict(users, a) = CORRECT
         THEN /\ rejected_logins' = rejected_logins \ {fd}
              /\ logged_clients' = logged_clients \cup {fd}
         ELSE /\ rejected_logins' = rejected_logins \cup {fd}
              /\ UNCHANGED logged_clients
  BY <1>4 DEF RecvLogin, check_login, Admit, Reject
<1>7. /\ \A other \in Fd \ {fd} : SameStage(other)
      /\ UNCHANGED <<peer, prompted, members, draft>>
  BY <1>1, <1>2, <1>6, RecvElsewhere DEF BytesShape, Shape
<1>8. Submitted(fd)' = <<>>
  <2>1. <<>> \o Rest(inbox[fd], Arrived(fd)) \o draft[fd] = <<>>
    BY <1>1, LoginComesWhole
  <2>2. inbox' = [inbox EXCEPT ![fd] = Rest(inbox[fd], Arrived(fd))]
    BY <1>1, TakesWhatComes
  <2> QED
    BY <1>1, <1>2, <1>7, <2>1, <2>2 DEF Submitted, BytesShape
<1>9. read_state'[fd] = "MSG_RECVD"
  BY <1>1, <1>2 DEF Shape
<1>10. StageOf(fd)' = IF Verdict(users, a) = CORRECT THEN "granted" ELSE "denied"
  <2>1. CASE Verdict(users, a) = CORRECT
    <3>1. fd \in logged_clients' \ members' /\ fd \notin prompted' /\ peer'[fd] # "none"
      BY <1>3, <1>6, <1>7, <2>1
    <3> QED
      BY <2>1, <3>1 DEF StageOf
  <2>2. CASE Verdict(users, a) # CORRECT
    <3>1. /\ fd \notin logged_clients' \cup prompted' /\ fd \notin members'
          /\ peer'[fd] # "none" /\ fd \in rejected_logins'
      BY <1>3, <1>6, <1>7, <2>2
    <3> QED
      BY <1>8, <1>9, <2>2, <3>1 DEF StageOf
  <2> QED
    BY <2>1, <2>2
<1>11. AttemptOf(fd)' = NoAttempt
  BY <1>8 DEF AttemptOf
<1>12. Service!Move(fd, "asked", IF Verdict(users, a) = CORRECT THEN "granted" ELSE "denied")
  BY <1>3, <1>7, <1>10, MoveStep
<1>13. /\ TheAttempt' = [TheAttempt EXCEPT ![fd] = NoAttempt] /\ TheAttempt[fd] = a
       /\ Here' = Here
  BY <1>5, <1>7, <1>11, AttemptStep, HereStep DEF TheAttempt
<1>14. a # NoAttempt
  BY LoginAssumption, NoAttemptAssumption
<1> QED
  BY <1>6, <1>12, <1>13, <1>14, SameDecision DEF Service!Decide, TheAttempt, Here
LEMMA HandlerImplements ==
    ASSUME FInv, NEW fd \in Fd, Handler(fd)
    PROVE  Service!HangUp(fd) \/ Service!Decide(fd) \/ UNCHANGED Service!vars
<1>1. CASE Send(fd)
  BY <1>1, SendIsInvisible
<1>2. CASE RecvEnds(fd)
  <2>1. peer[fd] # "none"
    BY <1>2, StatesMeanOpen DEF RecvEnds, Receiving, FInv
  <2> QED
    BY <1>2, <2>1, GiveUpHangsUp DEF RecvEnds
<1>3. CASE UNCHANGED <<states, logins, buffers, wires, client>>
  <2>1. /\ \A other \in Fd : SameStage(other)
        /\ users' = users
    BY <1>3 DEF states, logins, wires, client, SameStage, Submitted
  <2> QED
    BY <2>1, NoStep
<1>4. CASE RecvBlocks(fd)
  BY <1>3, <1>4 DEF RecvBlocks
<1>5. CASE RecvPart(fd)
  BY <1>5, RecvPartIsInvisible
<1>6. CASE RecvHeader(fd)
  BY <1>6, RecvHeaderIsInvisible
<1>7. CASE RecvLogin(fd)
  BY <1>7, RecvLoginDecides
<1>8. CASE ServeLogged(fd)
  <2>1. CASE peer[fd] \in {"left", "reset"}
    BY <1>8, <2>1, GiveUpHangsUp DEF ServeLogged
  <2>2. CASE peer[fd] \notin {"left", "reset"}
    BY <1>3, <1>8, <2>2 DEF ServeLogged
  <2> QED
    BY <2>1, <2>2
<1> QED
  BY <1>1, <1>2, <1>4, <1>5, <1>6, <1>7, <1>8 DEF Handler

LEMMA ServerImplements ==
    ASSUME FInv, Server
    PROVE  Service!Next \/ UNCHANGED Service!vars
<1>1. CASE \E fd \in Fd : Handler(fd)
  BY <1>1, HandlerImplements DEF Service!Next
<1>2. CASE \E fd \in Fd, optionsSet \in BOOLEAN : Accept(fd, optionsSet)
  BY <1>2, AcceptConnects DEF Service!Next
<1>3. CASE UNCHANGED <<states, logins, buffers, wires, client>>
  <2>1. /\ \A other \in Fd : SameStage(other)
        /\ users' = users
    BY <1>3 DEF states, logins, wires, client, SameStage, Submitted
  <2> QED
    BY <2>1, NoStep
<1>4. CASE Select \/ EndRound \/ AcceptFails \/ AcceptedAll
  BY <1>3, <1>4 DEF Select, EndRound, AcceptFails, AcceptedAll
<1>5. CASE \E fd \in Fd \cup {Listening} : VisitReadable(fd) \/ VisitWritable(fd)
  BY <1>3, <1>5 DEF VisitReadable, VisitWritable
<1> QED
  BY <1>1, <1>2, <1>4, <1>5 DEF Server

-----------------------------------------------------------------------------
(* The steps of the clients.                                               *)

(* A client that has read a whole frame is prompted or a member, whichever  *)
(* was decided.                                                             *)
LEMMA ReadImplements ==
    ASSUME FInv, NEW fd \in Fd, ClientRead(fd)
    PROVE  Service!Prompt(fd) \/ Service!Answer(fd) \/ UNCHANGED Service!vars
<1> DEFINE frame == Append(got[fd], Head(outbox[fd]))
           body == frame[Len(frame)].msg
<1>1. IInv /\ BytesShape /\ Conversation(fd)
  BY DEF FInv
<1>2. got[fd] \in Seq(ToClient) /\ outbox[fd] \in Seq(ToClient) /\ outbox[fd] # <<>>
      /\ peer[fd] = "open"
  BY <1>1 DEF BytesShape, ClientRead
<1>3. /\ frame \in Seq(ToClient) /\ Tail(outbox[fd]) \in Seq(ToClient)
      /\ frame \o Tail(outbox[fd]) = Unread(fd)
  BY <1>2, ByteMoves DEF Unread
<1>4. frame # <<>>
  <2>1. Head(outbox[fd]) \in ToClient
    BY <1>2, HeadTailProperties
  <2> QED
    BY <1>2, <2>1, AppendProperties
<1>5. Unread(fd) # <<>>
  <2>1. \A x, y \in Seq(ToClient) : x \o y = <<>> <=> x = <<>> /\ y = <<>>
    BY ConcatEqualIffEmpty
  <2> HIDE DEF frame
  <2> QED
    BY <1>3, <1>4, <2>1
<1>6. Submitted(fd) = <<>> /\ fd \notin prompted /\ read_state[fd] # "HEADER_RECVD"
  BY <1>1, <1>2, <1>5 DEF Conversation, Inward, Hears, Submitted, Coming
<1>7. UNCHANGED <<peer, read_state, logged_clients, rejected_logins, users, buffers, inbox, draft>>
  BY DEF ClientRead, states, logins
<1>8. Submitted(fd)' = <<>>
  BY <1>6, <1>7 DEF Submitted
<1>9. CASE Len(frame) = HeaderSize + frame[1].msg.len
  <2>1. body = LastSent(fd) /\ write_state[fd] = "MSG_SENT"
    BY <1>2, <1>3, <1>4, <1>9, ConsumedAFrame
  <2>2. /\ members' = (IF body.kind = "CLIENT_ID" THEN members \cup {fd} ELSE members)
        /\ prompted' = (IF body.kind = "CLIENT_ID" THEN prompted ELSE prompted \cup {fd})
    BY <1>9 DEF ClientRead
  <2>3. body.kind = IF fd \in logged_clients THEN "CLIENT_ID" ELSE "STATEMENT"
    BY <2>1, LastSentMessage
  <2> HIDE DEF frame, body
  <2>4. \A other \in Fd \ {fd} : SameStage(other)
    BY <1>7, <2>2 DEF SameStage, Submitted
  <2>5. Here' = Here /\ AttemptOf(fd) = NoAttempt /\ AttemptOf(fd)' = NoAttempt
    BY <1>6, <1>7, <1>8, <2>4, HereStep DEF AttemptOf
  <2>6. TheAttempt' = TheAttempt
    BY <2>4, <2>5, AttemptStep
  <2>7. Here[fd]
    BY <1>2 DEF Here
  <2>8. CASE fd \in logged_clients /\ fd \in members
    <3>1. \A other \in Fd : SameStage(other)
      <4>1. SameStage(fd)
        BY <1>6, <1>7, <1>8, <2>2, <2>3, <2>8 DEF SameStage
      <4> QED
        BY <2>4, <4>1
    <3> QED
      BY <1>7, <3>1, NoStep
  <2>9. CASE fd \in logged_clients /\ fd \notin members
    <3>1. StageOf(fd) = "granted"
      BY <1>2, <1>6, <2>9 DEF StageOf
    <3>2. fd \in members'
      BY <2>2, <2>3, <2>9
    <3>3. peer'[fd] # "none" /\ fd \in logged_clients' /\ fd \notin prompted'
      BY <1>2, <1>6, <1>7, <2>2, <2>3, <2>9
    <3>4. StageOf(fd)' = "member"
      BY <3>2, <3>3 DEF StageOf
    <3>5. Service!Move(fd, "granted", "member")
      BY <2>4, <3>1, <3>4, MoveStep
    <3> QED
      BY <1>7, <2>5, <2>6, <2>7, <3>5 DEF Service!Answer, Here, TheAttempt
  <2>10. CASE fd \notin logged_clients
    <3>1. fd \notin members
      BY <1>1, <2>10 DEF Conversation, IInv, OnlyVerifiedLogIn
    <3>2. StageOf(fd) = IF fd \in rejected_logins THEN "denied" ELSE "greeted"
      BY <1>2, <1>6, <2>10, <3>1 DEF StageOf
    <3>3. fd \in prompted' /\ fd \notin members'
      BY <2>2, <2>3, <2>10, <3>1
    <3>4. StageOf(fd)' = "turn"
      BY <1>2, <1>7, <2>10, <3>3 DEF StageOf
    <3>5. Service!Move(fd, StageOf(fd), "turn")
      BY <2>4, <3>4, MoveStep
    <3> QED
      BY <1>7, <2>5, <2>6, <2>7, <3>2, <3>5
         DEF Service!Answer, Service!Prompt, Here, TheAttempt
  <2> QED
    BY <2>8, <2>9, <2>10
<1>10. CASE Len(frame) # HeaderSize + frame[1].msg.len
  <2>1. UNCHANGED <<members, prompted>>
    BY <1>10 DEF ClientRead
  <2>2. \A other \in Fd : SameStage(other)
    BY <1>7, <2>1 DEF SameStage, Submitted
  <2> QED
    BY <1>7, <2>2, NoStep
<1> QED
  BY <1>9, <1>10

(* A client that begins a frame is asking, for what the frame says. *)
LEMMA NewDraftAsks ==
    ASSUME FInv, NEW fd \in Fd, NEW frame, NEW a, peer[fd] = "open",
           Coming(fd) = <<>>, ~Hears(fd), fd \notin accept_sent, fd \notin members,
           \/ frame = KeepAliveFrame /\ a = NoAttempt
           \/ a \in Attempts /\ frame = LoginFrame(a),
           draft' = [draft EXCEPT ![fd] = frame], prompted' = prompted \ {fd},
           UNCHANGED <<process, states, logins, buffers, wires, got, members>>
    PROVE  /\ fd \notin logged_clients
           /\ \A other \in Fd \ {fd} : SameStage(other)
           /\ AttemptOf(fd) = NoAttempt
           /\ StageOf(fd)' = "asked"
           /\ TheAttempt' = [TheAttempt EXCEPT ![fd] = a] /\ Here' = Here /\ Here[fd]
           /\ users' = users
<1>1. IInv /\ BytesShape /\ Conversation(fd)
  BY DEF FInv
<1>4. fd \notin logged_clients
  BY <1>1 DEF Hears, IInv, IdIsOwed
<1>5. buffers[fd] = <<>> /\ inbox[fd] = <<>>
  BY <1>1, AllEmpty
<1>6. UNCHANGED <<peer, read_state, logged_clients, rejected_logins, users, buffers, inbox,
                  members>>
  BY DEF states, logins, wires
<1>7. /\ frame \in Seq(ToServer) /\ frame # <<>>
      /\ a = IF frame[Len(frame)].msg.kind = "LOGIN" THEN frame[Len(frame)].msg.attempt
            ELSE NoAttempt
  <2>1. CASE frame = KeepAliveFrame /\ a = NoAttempt
    <3>1. /\ KeepAliveFrame \in Seq(ToServer) /\ KeepAliveFrame # <<>>
          /\ KeepAliveFrame[Len(KeepAliveFrame)].msg.kind = "HEADER"
      BY ClientFrames, LastBytes
    <3> HIDE DEF KeepAliveFrame
    <3> QED
      BY <2>1, <3>1
  <2>2. CASE a \in Attempts /\ frame = LoginFrame(a)
    <3>1. /\ LoginFrame(a) \in Seq(ToServer) /\ LoginFrame(a) # <<>>
          /\ LoginFrame(a)[Len(LoginFrame(a))].msg.kind = "LOGIN"
          /\ LoginFrame(a)[Len(LoginFrame(a))].msg.attempt = a
      BY <2>2, ClientFrames, LastBytes
    <3> QED
      BY <2>2, <3>1
  <2> QED
    BY <2>1, <2>2
<1>8. Submitted(fd)' = frame
  <2>1. frame \in Seq(ToServer)
    BY <1>7
  <2>2. <<>> \o <<>> \o frame = frame
    BY <2>1
  <2>3. buffers'[fd] = <<>> /\ inbox'[fd] = <<>> /\ draft'[fd] = frame
    BY <1>1, <1>5, <1>6 DEF BytesShape
  <2> QED
    BY <2>2, <2>3 DEF Submitted
<1>9. \A other \in Fd \ {fd} : SameStage(other)
  BY <1>1, <1>6 DEF SameStage, Submitted, BytesShape
<1>10. AttemptOf(fd) = NoAttempt
  BY SubmittedIsComing DEF AttemptOf
<1>11. StageOf(fd)' = "asked"
  BY <1>4, <1>6, <1>7, <1>8 DEF StageOf
<1>12. AttemptOf(fd)' = a
  BY <1>7, <1>8, <1>11 DEF AttemptOf
<1>13. TheAttempt' = [TheAttempt EXCEPT ![fd] = a] /\ Here' = Here /\ Here[fd]
  BY <1>6, <1>9, <1>12, AttemptStep, HereStep DEF Here
<1> QED
  BY <1>4, <1>6, <1>9, <1>10, <1>11, <1>13

LEMMA AnswerImplements ==
    ASSUME FInv, NEW fd \in Fd, NEW frame, NEW a,
           fd \in prompted, peer[fd] = "open",
           \/ frame = KeepAliveFrame /\ a = NoAttempt
           \/ a \in Attempts /\ frame = LoginFrame(a),
           draft' = [draft EXCEPT ![fd] = frame], prompted' = prompted \ {fd},
           UNCHANGED <<process, states, logins, buffers, wires, got, members>>
    PROVE  Service!Present(fd, a)
<1>1. Coming(fd) = <<>> /\ ~Hears(fd) /\ fd \notin accept_sent
  BY PromptedIsQuiet
<1>2. fd \notin members
  BY <1>1 DEF FInv, Conversation
<1>3. /\ fd \notin logged_clients
      /\ \A other \in Fd \ {fd} : SameStage(other)
      /\ StageOf(fd)' = "asked"
      /\ TheAttempt' = [TheAttempt EXCEPT ![fd] = a] /\ Here' = Here /\ Here[fd]
      /\ users' = users
  BY <1>1, <1>2, NewDraftAsks
<1>4. StageOf(fd) = "turn"
  BY <1>2, <1>3 DEF StageOf
<1>5. Service!Move(fd, "turn", "asked")
  BY <1>3, <1>4, MoveStep
<1>6. /\ [x \in Fd |-> peer[x] = "open"][fd]
      /\ [x \in Fd |-> AttemptOf(x)]' = [[x \in Fd |-> AttemptOf(x)] EXCEPT ![fd] = a]
      /\ [x \in Fd |-> peer[x] = "open"]' = [x \in Fd |-> peer[x] = "open"]
  BY <1>3 DEF TheAttempt, Here
<1> QED
  BY ONLY <1>3, <1>5, <1>6 DEF Service!Present

LEMMA LateAnswerImplements ==
    ASSUME FInv, NEW fd \in Fd, NEW a \in Attempts, ClientAnswerLate(fd, a)
    PROVE  Service!PresentLate(fd, a)
<1>1. Coming(fd) = <<>> /\ ~Hears(fd) /\ fd \notin prompted \cup accept_sent
      /\ read_state[fd] = "HEADER_RECVD"
  BY KeptIsQuiet DEF ClientAnswerLate
<1>2. fd \notin members /\ peer[fd] = "open"
  BY <1>1 DEF FInv, Conversation, ClientAnswerLate
<1>3. /\ draft' = [draft EXCEPT ![fd] = LoginFrame(a)] /\ prompted' = prompted \ {fd}
      /\ UNCHANGED <<process, states, logins, buffers, wires, got, members>>
  BY <1>1 DEF ClientAnswerLate
<1>4. /\ fd \notin logged_clients
      /\ \A other \in Fd \ {fd} : SameStage(other)
      /\ AttemptOf(fd) = NoAttempt
      /\ StageOf(fd)' = "asked"
      /\ TheAttempt' = [TheAttempt EXCEPT ![fd] = a] /\ Here' = Here /\ Here[fd]
      /\ users' = users
  BY <1>1, <1>2, <1>3, NewDraftAsks
<1>5. StageOf(fd) = "asked"
  BY <1>1, <1>2, <1>4 DEF StageOf
<1>6. TheStage' = TheStage /\ TheStage[fd] = "asked" /\ TheAttempt[fd] = NoAttempt
  <2>1. TheStage' = [TheStage EXCEPT ![fd] = StageOf(fd)']
    BY <1>4, OneStep DEF TheStage
  <2> QED
    BY <1>4, <1>5, <2>1 DEF TheStage, TheAttempt
<1> QED
  BY <1>4, <1>6 DEF Service!PresentLate, TheStage, TheAttempt, Here

LEMMA WriteImplements ==
    ASSUME FInv, NEW fd \in Fd, ClientWrite(fd)
    PROVE  UNCHANGED Service!vars
<1>1. BytesShape
  BY DEF FInv
<1>2. /\ buffers[fd] \in Seq(ToServer) /\ inbox[fd] \in Seq(ToServer)
      /\ draft[fd] \in Seq(ToServer) /\ draft[fd] # <<>>
  BY <1>1 DEF BytesShape, ClientWrite
<1>3. /\ UNCHANGED <<peer, read_state, logged_clients, rejected_logins, users, buffers, members,
                     prompted>>
      /\ inbox' = [inbox EXCEPT ![fd] = Append(inbox[fd], Head(draft[fd]))]
      /\ draft' = [draft EXCEPT ![fd] = Tail(draft[fd])]
  BY DEF ClientWrite, states, logins
<1>4. Submitted(fd)' = buffers[fd] \o Append(inbox[fd], Head(draft[fd])) \o Tail(draft[fd])
  BY <1>1, <1>3 DEF Submitted, BytesShape
<1>5. Submitted(fd)' = Submitted(fd)
  BY <1>1, <1>2, <1>4, SubmittedIsComing, WritingMovesAByte
<1>6. \A other \in Fd : SameStage(other)
  <2>1. SameStage(fd)
    BY <1>3, <1>5 DEF SameStage
  <2>2. \A other \in Fd \ {fd} : SameStage(other)
    BY <1>1, <1>3 DEF SameStage, Submitted, BytesShape
  <2> QED
    BY <2>1, <2>2
<1> QED
  BY <1>3, <1>6, NoStep

LEMMA LeaveImplements ==
    ASSUME FInv, NEW fd \in Fd, ClientLeave(fd)
    PROVE  Service!Leave(fd)
<1>1. Shape
  BY DEF FInv, IInv
<1>2. /\ UNCHANGED <<read_state, logged_clients, rejected_logins, users, buffers, inbox, draft,
                     members, prompted>>
      /\ peer[fd] = "open" /\ peer'[fd] \in {"left", "reset"}
      /\ \A other \in Fd \ {fd} : peer'[other] = peer[other]
  BY <1>1 DEF ClientLeave, states, logins, client, Shape
<1>3. \A other \in Fd \ {fd} : SameStage(other)
  BY <1>2 DEF SameStage, Submitted
<1>4. Submitted(fd)' = Submitted(fd)
  BY <1>2 DEF Submitted
<1>5. StageOf(fd)' = StageOf(fd)
  BY <1>2, <1>4 DEF StageOf
<1>6. AttemptOf(fd)' = AttemptOf(fd)
  BY <1>4, <1>5 DEF AttemptOf
<1>7. TheStage' = TheStage
  <2>1. TheStage' = [TheStage EXCEPT ![fd] = StageOf(fd)']
    BY <1>3, OneStep DEF TheStage
  <2> QED
    BY <1>5, <2>1 DEF TheStage
<1>8. TheAttempt' = TheAttempt /\ Here' = [Here EXCEPT ![fd] = FALSE] /\ Here[fd]
  BY <1>2, <1>3, <1>6, AttemptStep, HereStep DEF Here
<1> QED
  BY <1>2, <1>7, <1>8 DEF Service!Leave, TheStage, TheAttempt, Here

LEMMA ClientImplements ==
    ASSUME FInv, Client
    PROVE  Service!Next \/ UNCHANGED Service!vars
<1>1. CASE \E fd \in Fd : ClientRead(fd)
  BY <1>1, ReadImplements DEF Service!Next
<1>2. CASE \E fd \in Fd : ClientWrite(fd)
  BY <1>2, WriteImplements
<1>3. CASE \E fd \in Fd : ClientLeave(fd)
  BY <1>3, LeaveImplements DEF Service!Next
<1>4. CASE \E fd \in Fd, a \in Attempts : ClientAnswer(fd, a) \/ ClientAnswerLate(fd, a)
  <2>1. PICK fd \in Fd, a \in Attempts : ClientAnswer(fd, a) \/ ClientAnswerLate(fd, a)
    BY <1>4
  <2>2. CASE ClientAnswer(fd, a)
    <3>1. Service!Present(fd, a)
      BY <2>2, AnswerImplements DEF ClientAnswer
    <3> QED
      BY <3>1 DEF Service!Next
  <2>3. CASE ClientAnswerLate(fd, a)
    <3>1. Service!PresentLate(fd, a)
      BY <2>3, LateAnswerImplements
    <3> QED
      BY <3>1 DEF Service!Next
  <2> QED
    BY <2>1, <2>2, <2>3
<1>5. CASE \E fd \in Fd : ClientKeepAlive(fd)
  <2>1. PICK fd \in Fd : ClientKeepAlive(fd)
    BY <1>5
  <2>2. Service!Present(fd, NoAttempt)
    BY <2>1, AnswerImplements DEF ClientKeepAlive
  <2> QED
    BY <2>2 DEF Service!Next
<1>6. CASE ClientConnect
  <2>1. /\ \A other \in Fd : SameStage(other)
        /\ users' = users
    BY <1>6 DEF ClientConnect, states, logins, client, SameStage, Submitted
  <2> QED
    BY <2>1, NoStep
<1> QED
  BY <1>1, <1>2, <1>3, <1>4, <1>5, <1>6 DEF Client

LEMMA StepImplements == FInv /\ [Next]_vars => [Service!Next]_Service!vars
<1> SUFFICES ASSUME FInv, [Next]_vars PROVE Service!Next \/ UNCHANGED Service!vars
  OBVIOUS
<1>1. CASE UNCHANGED vars
  <2>1. /\ \A other \in Fd : SameStage(other)
        /\ users' = users
    BY <1>1 DEF vars, states, logins, wires, client, SameStage, Submitted
  <2> QED
    BY <2>1, NoStep
<1> QED
  BY <1>1, ServerImplements, ClientImplements DEF Next, Terminated

LEMMA InitImplements == Init => Service!Init
<1> SUFFICES ASSUME Init PROVE Service!Init
  OBVIOUS
<1>1. \A fd \in Fd : peer[fd] = "none"
  BY DEF Init
<1>2. \A fd \in Fd : StageOf(fd) = "none"
  BY <1>1 DEF StageOf
<1>3. \A fd \in Fd : AttemptOf(fd) = NoAttempt
  BY <1>2 DEF AttemptOf
<1> QED
  BY <1>1, <1>2, <1>3 DEF Init, Service!Init

(* Each login is decided once, against the users file as it is then, and    *)
(* answered by what was decided, however its bytes are cut and whatever the *)
(* other connections do.                                                    *)
THEOREM Implements == Spec => ImplementsService
BY InitImplements, StepImplements, FramesInvariance, PTL DEF ImplementsService, Service!Spec, Spec
=============================================================================
