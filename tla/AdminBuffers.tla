---------------------------- MODULE AdminBuffers ----------------------------
(***************************************************************************)
(* How the administrator's client makes messages of bytes and bytes of     *)
(* messages: SendBuffer, ReceiveBuffer and KeepAlive of socket_client.py,  *)
(* the socket thread's loop over them, and the two ends of the connection. *)
(*                                                                         *)
(* The buffers' queues are shared with the controller behind a lock; all   *)
(* else belongs to the socket thread, so that one part of its loop (an     *)
(* update of the keep-alive, a receive, a send, the check for the end) is  *)
(* one step.  A part does nothing when its socket is not ready, so the     *)
(* parts may come in any order.                                            *)
(*                                                                         *)
(* A message is [type, data], data a sequence of characters of Framing.    *)
(* An operator X_Y is X with the fault Y put in; no specification uses it. *)
(***************************************************************************)
EXTENDS Framing

CONSTANTS
    OutMessages,   \* what the controller sends
    InMessages,    \* what the server sends
    MaxMessages,   \* bound: how many of both together
    MaxSent,       \* bound: bytes sent (a keep-alive that was cut is sent for ever)
    MaxKeepAlives  \* bound: how often the thread has nothing to do for half the time

(* Message types of protocol_wrapper.py, and the statement that ends the work. *)
STATEMENT  == 1
KEEP_ALIVE == 66
END_OF_WORK == [type |-> STATEMENT, data |-> <<5 % Base>>]

Messages == [type : Nat, data : Seq(Character)]

(* What fits a header, and is no keep-alive: those the thread makes itself.  *)
ASSUME MessageAssumption ==
    /\ OutMessages \subseteq Messages /\ InMessages \subseteq Messages
    /\ \A m \in OutMessages \cup InMessages :
           m.type < Hundred /\ m.data # <<>> /\ Len(encode(m.data)) < Hundred * Hundred
    /\ \A m \in OutMessages : m.type # KEEP_ALIVE
ASSUME BoundAssumption == MaxMessages \in Nat /\ MaxSent \in Nat /\ MaxKeepAlives \in Nat

VARIABLES
    \* SendBuffer
    queue, completed_sending, current_message, total_sent, bytes_to_send,
    \* ReceiveBuffer
    received, status, message, total_received, bytes_to_receive,
    type_of_incoming_message,
    \* Client and KeepAlive
    thread,        \* running | ended | broken | dead (an exception run does not catch)
    work_end_flag, sent_keepalive,
    \* the connection
    outgoing,      \* all bytes that send() has taken
    incoming,      \* bytes the server has sent that recv() has not returned
    \* auxiliary
    accepted,      \* the messages put into the send buffer
    posted,        \* the messages the server has sent
    taken,         \* the messages the controller has popped
    keepalives,    \* how many keep-alives have been put
    cut,           \* a keep-alive has been sent in part
    before_end     \* how many messages were accepted when end_work had set its flag

sendBuffer == <<queue, completed_sending, current_message, total_sent, bytes_to_send>>
recvBuffer == <<received, status, message, total_received, bytes_to_receive,
                type_of_incoming_message>>
control == <<thread, work_end_flag, sent_keepalive>>
history == <<accepted, posted, taken, keepalives, cut, before_end>>
vars == <<sendBuffer, recvBuffer, control, outgoing, incoming, history>>

TypeOK ==
    /\ queue \in Seq(Messages)
    /\ completed_sending \in BOOLEAN
    /\ current_message \in Seq(Character)
    /\ total_sent \in Nat /\ bytes_to_send \in Nat
    /\ received \in Seq(Messages)
    /\ status \in {"waiting_for_header", "waiting_for_message"}
    /\ message \in Seq(Character)
    /\ bytes_to_receive \in Nat \ {0} /\ total_received \in 0..bytes_to_receive - 1
    /\ total_received = Len(message)
    /\ thread \in {"running", "ended", "broken", "dead"}
    /\ work_end_flag \in BOOLEAN /\ sent_keepalive \in BOOLEAN

Init ==
    /\ queue = <<>> /\ completed_sending = TRUE /\ current_message = <<>>
    /\ total_sent = 0 /\ bytes_to_send = 0
    /\ received = <<>> /\ status = "waiting_for_header" /\ message = <<>>
    /\ total_received = 0 /\ bytes_to_receive = HEADER_LENGTH
    /\ type_of_incoming_message = KEEP_ALIVE \* None in the code: read only after a header
    /\ thread = "running" /\ work_end_flag = FALSE /\ sent_keepalive = FALSE
    /\ outgoing = <<>> /\ incoming = <<>>
    /\ accepted = <<>> /\ posted = <<>> /\ taken = <<>>
    /\ keepalives = 0 /\ cut = FALSE /\ before_end = 0

-----------------------------------------------------------------------------
WithinBound == Len(SelectSeq(accepted, LAMBDA m : m # END_OF_WORK)) + Len(posted) < MaxMessages

(* Of n bytes a socket moves one or all: cuts fall anywhere. *)
Pieces(n) == {1, n} \ {0}

(* The controller and the GUI. *)

PassMessage(m) ==
    /\ WithinBound
    /\ queue' = Append(queue, m)
    /\ accepted' = Append(accepted, m)
    /\ UNCHANGED <<completed_sending, current_message, total_sent, bytes_to_send, recvBuffer,
                   control, outgoing, incoming, posted, taken, keepalives, cut, before_end>>

PopMessage ==
    /\ received # <<>>
    /\ taken' = Append(taken, Head(received))
    /\ received' = Tail(received)
    /\ UNCHANGED <<sendBuffer, status, message, total_received, bytes_to_receive,
                   type_of_incoming_message, control, outgoing, incoming,
                   accepted, posted, keepalives, cut, before_end>>

(* end_work: a thread that is alive is given a last message, then told.      *)
EndWorkMessage ==
    /\ ~work_end_flag /\ END_OF_WORK \notin Range(accepted)
    /\ thread = "running"
    /\ queue' = Append(queue, END_OF_WORK)
    /\ accepted' = Append(accepted, END_OF_WORK)
    /\ UNCHANGED <<completed_sending, current_message, total_sent, bytes_to_send, recvBuffer,
                   control, outgoing, incoming, posted, taken, keepalives, cut, before_end>>

EndWorkFlag ==
    /\ ~work_end_flag
    /\ END_OF_WORK \in Range(accepted) \/ thread # "running"
    /\ work_end_flag' = TRUE
    /\ before_end' = Len(accepted)
    /\ UNCHANGED <<sendBuffer, recvBuffer, thread, sent_keepalive, outgoing, incoming,
                   accepted, posted, taken, keepalives, cut>>

-----------------------------------------------------------------------------
(* The send buffer. *)

(* The text of a message on the wire: a keep-alive is a header of its own.   *)
Text(m) ==
    IF m.type = KEEP_ALIVE THEN keep_alive ELSE Header(m.type, Len(m.data)) \o m.data

(* SendBuffer.get_message: the head of the queue, or what is left of it.     *)
GetMessage_FromStart ==
    IF completed_sending THEN Text(Head(queue)) ELSE current_message
GetMessage ==
    IF completed_sending THEN Text(Head(queue))
    ELSE SubSeq(current_message, total_sent + 1, Len(current_message))

(* ... which it notes as the one under way, unless it is a keep-alive.       *)
BeginSending_BodyOnly ==
    IF ~completed_sending THEN UNCHANGED <<current_message, bytes_to_send>>
    ELSE /\ current_message' = Text(Head(queue))
         /\ bytes_to_send' = Len(Head(queue).data)
BeginSending ==
    IF ~completed_sending THEN UNCHANGED <<current_message, bytes_to_send>>
    ELSE /\ current_message' = Text(Head(queue))
         /\ bytes_to_send' = Len(current_message')

(* Client.send: get_message, send() of its bytes, update_on_total_sent.      *)
Send(n) ==
    /\ thread = "running"
    /\ BeginSending
    /\ outgoing' = outgoing \o SubSeq(encode(GetMessage), 1, n)
    /\ LET total == total_sent + n
           done  == total = bytes_to_send'
           alive == completed_sending /\ Head(queue).type = KEEP_ALIVE
       IN  /\ total_sent' = IF done THEN 0 ELSE total
           /\ completed_sending' = (done \/ alive)
           /\ queue' = IF done THEN Tail(queue) ELSE queue
           /\ cut' = (cut \/ (alive /\ n < HEADER_LENGTH))
    /\ UNCHANGED <<recvBuffer, control, incoming, accepted, posted, taken, keepalives, before_end>>

(* At the end of an iteration, told to end and with nothing left to send.    *)
NothingToSend_NoneUnderWay == completed_sending
NothingToSend == completed_sending /\ queue = <<>>
CheckEnd ==
    /\ thread = "running" /\ work_end_flag /\ NothingToSend
    /\ thread' = "ended"
    /\ UNCHANGED <<sendBuffer, recvBuffer, work_end_flag, sent_keepalive, outgoing, incoming,
                   history>>

(* ... with something left, the question alone begins to send it. *)
CheckGoesOn ==
    /\ thread = "running" /\ work_end_flag /\ completed_sending /\ queue # <<>>
    /\ BeginSending
    /\ completed_sending' = (Head(queue).type = KEEP_ALIVE)
    /\ UNCHANGED <<queue, total_sent, recvBuffer, control, outgoing, incoming, history>>

(* KeepAlive.update *)
SendKeepAlive ==
    /\ thread = "running" /\ ~sent_keepalive /\ keepalives < MaxKeepAlives
    /\ queue' = Append(queue, [type |-> KEEP_ALIVE, data |-> keep_alive])
    /\ sent_keepalive' = TRUE
    /\ keepalives' = keepalives + 1
    /\ UNCHANGED <<completed_sending, current_message, total_sent, bytes_to_send, recvBuffer,
                   thread, work_end_flag, outgoing, incoming,
                   accepted, posted, taken, cut, before_end>>

(* The other half of the time is over, or the connection is.                 *)
ConnectionLost ==
    /\ thread = "running"
    /\ thread' = "broken"
    /\ UNCHANGED <<sendBuffer, recvBuffer, work_end_flag, sent_keepalive, outgoing, incoming,
                   history>>

-----------------------------------------------------------------------------
(* The receive buffer. *)

get_length_Whole == bytes_to_receive
get_length_of_incoming_message == bytes_to_receive - total_received

(* collect_message when what is expected is there: a header ... *)
HeaderComplete(text) ==
    LET correct == IsNumber(SubSeq(text, 1, 2)) /\ IsNumber(SubSeq(text, 5, HEADER_LENGTH))
        length  == IF correct THEN LengthRead(text) ELSE 0
    IN  /\ type_of_incoming_message' = IF correct THEN TypeRead(text)
                                       ELSE type_of_incoming_message
        /\ status' = IF length = 0 THEN "waiting_for_header" ELSE "waiting_for_message"
        /\ bytes_to_receive' = IF length = 0 THEN HEADER_LENGTH ELSE length
        /\ received' = received

(* ... or a body. *)
BodyComplete(text) ==
    /\ status' = "waiting_for_header"
    /\ bytes_to_receive' = HEADER_LENGTH
    /\ received' = Append(received, [type |-> type_of_incoming_message, data |-> text])
    /\ UNCHANGED type_of_incoming_message

(* Client.receive: a decode that fails in the middle of a character is no    *)
(* socket.error, and ends the thread.                                        *)
Receive(n) ==
    /\ thread = "running"
    /\ incoming' = SubSeq(incoming, n + 1, Len(incoming))
    /\ LET bytes == SubSeq(incoming, 1, n)
           text  == message \o decode(bytes)
       IN  \/ /\ ~Decodable(bytes)
              /\ thread' = "dead"
              /\ UNCHANGED <<recvBuffer, sent_keepalive>>
           \/ /\ Decodable(bytes) /\ Len(text) # bytes_to_receive
              /\ message' = text /\ total_received' = Len(text)
              /\ sent_keepalive' = FALSE
              /\ UNCHANGED <<received, status, bytes_to_receive, type_of_incoming_message, thread>>
           \/ /\ Decodable(bytes) /\ Len(text) = bytes_to_receive
              /\ IF status = "waiting_for_header" THEN HeaderComplete(text)
                                                  ELSE BodyComplete(text)
              /\ message' = <<>> /\ total_received' = 0
              /\ sent_keepalive' = FALSE
              /\ UNCHANGED thread
    /\ UNCHANGED <<sendBuffer, work_end_flag, outgoing, history>>

(* The server sends a message: lengths count bytes there.                    *)
ServerPost(m) ==
    /\ WithinBound
    /\ incoming' = incoming \o encode(Header(m.type, Len(encode(m.data))) \o m.data)
    /\ posted' = Append(posted, m)
    /\ UNCHANGED <<sendBuffer, recvBuffer, control, outgoing, accepted, taken, keepalives,
                   cut, before_end>>

-----------------------------------------------------------------------------
(* What a socket that is ready may move; a text of which all is sent but     *)
(* which is not complete for update_on_total_sent moves nothing for ever.    *)
Readable == IF incoming = <<>> THEN {}
            ELSE Pieces(IF Len(incoming) < get_length_of_incoming_message
                        THEN Len(incoming) ELSE get_length_of_incoming_message)
Writable == IF NothingToSend \/ encode(GetMessage) = <<>> \/ Len(outgoing) >= MaxSent THEN {}
            ELSE Pieces(Len(encode(GetMessage)))

ReceivePart == \E n \in Readable : Receive(n)
SendPart == \E n \in Writable : Send(n)

Loop == ReceivePart \/ SendPart \/ CheckEnd \/ CheckGoesOn

Controller == PopMessage \/ EndWorkMessage \/ EndWorkFlag \/ \E m \in OutMessages : PassMessage(m)

Next == Loop \/ SendKeepAlive \/ ConnectionLost \/ Controller \/ \E m \in InMessages : ServerPost(m)

Spec == Init /\ [][Next]_vars

(* The thread runs, and the server reads what it is sent, so that the socket *)
(* can be written again and again.                                           *)
Fairness == WF_vars(SendPart)

FairSpec == Spec /\ Fairness

-----------------------------------------------------------------------------
AsBytes(m) == [type |-> m.type, body |-> encode(m.data)]
BytesOf(ms) == [i \in DOMAIN ms |-> AsBytes(ms[i])]
IsWide(m) == \E i \in DOMAIN m.data : Width(m.data[i]) > 1

(* What the stream to the server withstands: any cut of any message, but not *)
(* of a keep-alive, and no character of more than one byte.                  *)
OutIntact == ~cut /\ \A i \in DOMAIN accepted : ~IsWide(accepted[i])

(* What the stream from the server withstands: bodies whose length has two   *)
(* digits, without such characters.                                          *)
InIntact == \A i \in DOMAIN posted : ~IsWide(posted[i]) /\ Len(posted[i].data) < Hundred

Arrived == taken \o received

ToServer == INSTANCE MessageStream WITH
    Message <- {AsBytes(m) : m \in OutMessages \cup {END_OF_WORK}},
    sent <- BytesOf(accepted), delivered <- Frames(outgoing), intact <- OutIntact
FromServer == INSTANCE MessageStream WITH
    Message <- InMessages, sent <- posted, delivered <- Arrived, intact <- InIntact

(* However send() and recv() cut the bytes, and whenever the controller adds *)
(* to the queue that is being sent from, the server finds the messages that  *)
(* were put into the send buffer, in order and once each, and the controller *)
(* those that the server sent.                                               *)
SendsWhatWasPut      == ToServer!Spec
ReceivesWhatWasSent == FromServer!Spec

(* A thread that ends because it was told to has sent all that was put into  *)
(* its buffer before it was told, the end-of-work statement included.        *)
EndsWithEverythingSent ==
    thread = "ended" /\ OutIntact => Len(Frames(outgoing)) >= before_end

(* What has been put is sent in the end, unless the thread is over.          *)
BufferDrains == ~NothingToSend ~> (NothingToSend \/ thread # "running" \/ ~OutIntact)
=============================================================================
