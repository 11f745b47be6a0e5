------------------------- MODULE SharedNotepadProofs -------------------------
(***************************************************************************)
(* For any set of descriptors, any number of clients, messages and         *)
(* queued lengths: the file holds the note when the last editor has gone,  *)
(* changes are kept for exactly the editors, what is kept is applied, and  *)
(* a note with one editor at a time is safe.                               *)
(*                                                                         *)
(* The first three are proved together.  That an edit is handled only for  *)
(* a client registered as editing (Owners) is what keeps the note and the  *)
(* file together, and it holds because the body a client is expected to    *)
(* send is that of its last header: its stream alternates (Stream), and    *)
(* requests come before edits (Requests), so no body of a request can be   *)
(* taken for an edit's.                                                    *)
(*                                                                         *)
(* The last one needs to know besides that no character still under way is *)
(* in the note or under way twice (Fresh), and that whatever is passed on  *)
(* is passed on to nobody (Quiet).                                         *)
(***************************************************************************)
EXTENDS SharedNotepad, SequenceTheorems, FiniteSetTheorems,
        WellFoundedInduction, TLAPS

-----------------------------------------------------------------------------
(* The inductive invariant.                                                  *)

Lengths == Nat \cup {-1}

SocketsShape ==
    /\ conn \in [Fd -> {"none", "login", "logged"}]
    /\ peer \in [Fd -> {"here", "left", "reset"}]
    /\ inbox \in [Fd -> Seq(Unit)]
    /\ sent \in Nat

MonitorShape ==
    /\ read_state \in [Fd -> ReadStates] /\ read_bytes \in [Fd -> Nat]
    /\ write_state \in [Fd -> WriteStates] /\ write_bytes \in [Fd -> Nat]
    /\ msg_type \in [Fd -> {NO_ENTRY, HEADER, LOGIN, STATEMENT, EDIT}]
    /\ msg_len \in [Fd -> Lengths] /\ send_queues \in [Fd -> Seq(Lengths)]

ChangesShape ==
    /\ contributors \subseteq Fd
    /\ changes_tracker \in [contributors -> Seq(Fd)]
    /\ changes_buffs \in [DOMAIN changes_buffs -> Seq(Edits)]

NoteShape ==
    /\ addedChars \in Seq(Char) /\ deletedChars \in Seq(Char)
    /\ \E T : files \in Seq(T)
    /\ contributors # {} => files # <<>>

(* On a connection that is not logged in nothing has arrived; a header that  *)
(* announces a body is followed by it, unless the client is gone; and when a *)
(* body is expected, it is next.                                             *)
Stream ==
    \A fd \in Fd :
        /\ conn[fd] # "logged" => inbox[fd] = <<>> /\ read_state[fd] = "NONE"
        /\ \A i \in 1..Len(inbox[fd]) :
              inbox[fd][i].part = "header" /\ inbox[fd][i].len > 0 =>
                  IF i < Len(inbox[fd]) THEN inbox[fd][i + 1].part = "body" ELSE peer[fd] # "here"
        /\ read_state[fd] = "HEADER_RECVD" /\ read_bytes[fd] > 0 =>
               IF inbox[fd] = <<>> THEN peer[fd] # "here" ELSE inbox[fd][1].part = "body"

(* Requests come from clients that do not edit, and before their edits.      *)
Requests ==
    \A fd \in Fd : \A i \in 1..Len(inbox[fd]) :
        /\ inbox[fd][i].part = "body" =>
              \/ inbox[fd][i].type = EDIT /\ inbox[fd][i].edit \in Edits
              \/ inbox[fd][i].type = STATEMENT
        /\ inbox[fd][i].type = STATEMENT =>
              /\ fd \notin contributors
              /\ \A j \in 1..i : inbox[fd][j].type # EDIT

(* Whoever has an edit under way edits.                                      *)
Owners ==
    \A fd \in Fd :
        /\ conn[fd] = "logged" /\ msg_type[fd] = EDIT
        /\ \/ read_state[fd] = "HEADER_RECVD"
           \/ write_state[fd] \in {"HEADER_TO_SEND", "HEADER_SENT"}
        => fd \in contributors

IInv ==
    /\ SocketsShape /\ MonitorShape /\ ChangesShape /\ NoteShape
    /\ Stream /\ Requests /\ Owners
    /\ SavedIsCurrent /\ TrackersAreContributors /\ StoredIsApplied

-----------------------------------------------------------------------------
(* What the operators of the model yield.                                    *)

LEMMA EditFacts ==
    /\ EditLen \in Nat \ {0}
    /\ \A edit \in Edits : edit.add \in Seq(Char) /\ edit.del \in Seq(Char)
    /\ sent \in 0..MaxMsgs - 1 => Add(sent + 1) \in Edits
    /\ \A c \in Char : Del(c) \in Edits
<1>1. MaxMsgs \in Nat /\ EditLen \in Nat \ {0}
  BY LengthAssumption DEF EditLen
<1>2. \A c \in Char : Add(c).add \in Seq(Char) /\ Add(c).del \in Seq(Char)
  BY DEF Add
<1>3. \A c \in Char : Del(c).add \in Seq(Char) /\ Del(c).del \in Seq(Char)
  BY DEF Del
<1>4. sent \in 0..MaxMsgs - 1 => sent + 1 \in Char
  BY <1>1 DEF Char
<1> QED
  BY <1>1, <1>2, <1>3, <1>4 DEF Edits

LEMMA FileLenType == addedChars \in Seq(Char) => FileLen \in Nat
<1> SUFFICES ASSUME addedChars \in Seq(Char) PROVE FileLen \in Nat
  OBVIOUS
<1> DEFINE here == {i \in DOMAIN addedChars : addedChars[i] \notin ToSet(deletedChars)}
<1>1. DOMAIN addedChars = 1..Len(addedChars) /\ Len(addedChars) \in Nat
  OBVIOUS
<1>2. IsFiniteSet(1..Len(addedChars))
  BY <1>1, FS_Interval
<1>3. IsFiniteSet(here)
  BY <1>1, <1>2, FS_Subset
<1>4. Cardinality(here) \in Nat
  BY <1>3, FS_CardinalityType
<1>5. FileLen = 1 + CharLen * Cardinality(here)
  BY DEF FileLen
<1> QED
  BY <1>4, <1>5, LengthAssumption

LEMMA ToSetConcat ==
    ASSUME NEW S, NEW s \in Seq(S), NEW t \in Seq(S)
    PROVE  ToSet(s \o t) = ToSet(s) \cup ToSet(t)
<1>1. \A x \in ToSet(s) : x \in ToSet(s \o t)
  BY DEF ToSet
<1>2. \A x \in ToSet(t) : x \in ToSet(s \o t)
  <2> SUFFICES ASSUME NEW i \in 1..Len(t) PROVE t[i] \in ToSet(s \o t)
    BY DEF ToSet
  <2>1. Len(s) + i \in 1..Len(s \o t) /\ (s \o t)[Len(s) + i] = t[i]
    OBVIOUS
  <2> QED
    BY <2>1 DEF ToSet
<1>3. \A x \in ToSet(s \o t) : x \in ToSet(s) \cup ToSet(t)
  BY DEF ToSet
<1> QED
  BY <1>1, <1>2, <1>3

LEMMA ToSetTail ==
    ASSUME NEW S, NEW s \in Seq(S), s # <<>>
    PROVE  ToSet(Tail(s)) \subseteq ToSet(s) /\ Head(s) \in ToSet(s)
<1>1. \A i \in 1..Len(Tail(s)) : i + 1 \in 1..Len(s) /\ Tail(s)[i] = s[i + 1]
  OBVIOUS
<1>2. Tail(s) \in Seq(S) /\ Len(s) >= 1 /\ Head(s) = s[1]
  OBVIOUS
<1> QED
  BY <1>1, <1>2 DEF ToSet

LEMMA ToSetAppend ==
    ASSUME NEW S, NEW s \in Seq(S), NEW e \in S
    PROVE  ToSet(Append(s, e)) = ToSet(s) \cup {e}
<1>1. Append(s, e) = s \o <<e>> /\ <<e>> \in Seq(S)
  OBVIOUS
<1>2. ToSet(<<e>>) = {e}
  BY DEF ToSet
<1>3. \A t \in Seq(S) : ToSet(s \o t) = ToSet(s) \cup ToSet(t)
  BY ToSetConcat
<1> QED
  BY <1>1, <1>2, <1>3

(* What applying one edit, or the edits kept, does to the note.              *)
LEMMA Applied ==
    ASSUME NEW text \in Seq(Edits), NoteShape, pc = "run", edit_contents(text)
    PROVE  /\ pc' \in {"run", "aborted"}
           /\ addedChars' \in Seq(Char) /\ deletedChars' \in Seq(Char)
           /\ ToSet(addedChars) \subseteq ToSet(addedChars')
           /\ ToSet(deletedChars) \subseteq ToSet(deletedChars')
           /\ text # <<>> => /\ ToSet(text[1].add) \subseteq ToSet(addedChars')
                             /\ ToSet(text[1].del) \subseteq ToSet(deletedChars')
<1>1. pc' \in {"run", "aborted"}
  BY DEF edit_contents
<1>2. CASE text = <<>>
  BY <1>1, <1>2 DEF edit_contents, note, NoteShape
<1>3. CASE text # <<>>
  <2> DEFINE second == IF Len(text) > 1 THEN text[2].del ELSE <<>>
  <2>1. text[1] \in Edits /\ (Len(text) > 1 => text[2] \in Edits)
    BY <1>3
  <2>2. /\ text[1].add \in Seq(Char) /\ text[1].del \in Seq(Char)
        /\ second \in Seq(Char)
    BY <2>1, EditFacts
  <2>3. SecondPiece(text) = text[1].add \o second
    BY DEF SecondPiece
  <2> HIDE DEF second
  <2>4. SecondPiece(text) \in Seq(Char) /\ ToSet(text[1].add) \subseteq ToSet(SecondPiece(text))
    BY <2>2, <2>3, ToSetConcat
  <2>5. addedChars' = addedChars \o SecondPiece(text) /\ deletedChars' = deletedChars \o text[1].del
    BY <1>3 DEF edit_contents
  <2>6. addedChars \in Seq(Char) /\ deletedChars \in Seq(Char)
    BY DEF NoteShape
  <2>7. addedChars' \in Seq(Char) /\ deletedChars' \in Seq(Char)
    BY <2>2, <2>4, <2>5, <2>6
  <2>8. /\ ToSet(addedChars') = ToSet(addedChars) \cup ToSet(SecondPiece(text))
        /\ ToSet(deletedChars') = ToSet(deletedChars) \cup ToSet(text[1].del)
    BY <2>2, <2>4, <2>5, <2>6, ToSetConcat
  <2> QED
    BY <1>1, <1>3, <2>4, <2>7, <2>8
<1> QED
  BY <1>2, <1>3

(* A message is a header, and a body when the header announces one.          *)
LEMMA MessageParts ==
    ASSUME NEW type \in {LOGIN, STATEMENT, EDIT}, NEW len \in Nat,
           NEW edit \in Edits \cup {<<>>}
    PROVE  LET m == Message(type, len, edit)
           IN  /\ m \in Seq(Unit)
               /\ Len(m) = (IF len = 0 THEN 1 ELSE 2)
               /\ m[1] = [part |-> "header", type |-> type, len |-> len, edit |-> <<>>]
               /\ len # 0 => m[2] = [part |-> "body", type |-> type, len |-> len, edit |-> edit]
<1> DEFINE header == [part |-> "header", type |-> type, len |-> len, edit |-> <<>>]
           body   == [part |-> "body", type |-> type, len |-> len, edit |-> edit]
<1>1. header \in Unit /\ body \in Unit
  BY DEF Unit
<1>2. Message(type, len, edit) = <<header>> \o (IF len = 0 THEN <<>> ELSE <<body>>)
  BY DEF Message
<1> HIDE DEF header, body
<1>3. CASE len = 0
  BY <1>1, <1>2, <1>3 DEF header
<1>4. CASE len # 0
  <2>1. Message(type, len, edit) = <<header>> \o <<body>>
    BY <1>2, <1>4
  <2> QED
    BY <1>1, <2>1, <1>4 DEF header, body
<1> QED
  BY <1>3, <1>4

-----------------------------------------------------------------------------
(* The initial states.                                                       *)

LEMMA InitIInv == Init => IInv
<1> SUFFICES ASSUME Init PROVE IInv
  OBVIOUS
<1> USE DEF Init
<1>1. SocketsShape /\ MonitorShape
  BY DEF SocketsShape, MonitorShape, ReadStates, WriteStates, Lengths
<1>2. ChangesShape
  BY DEF ChangesShape
<1>3. NoteShape
  <2>1. files \in Seq({}) /\ addedChars \in Seq(Char) /\ deletedChars \in Seq(Char)
    OBVIOUS
  <2> QED
    BY <2>1 DEF NoteShape
<1>4. Stream /\ Requests /\ Owners
  BY DEF Stream, Requests, Owners
<1>5. SavedIsCurrent /\ TrackersAreContributors /\ StoredIsApplied
  BY DEF SavedIsCurrent, TrackersAreContributors, StoredIsApplied
<1> QED
  BY <1>1, <1>2, <1>3, <1>4, <1>5 DEF IInv

-----------------------------------------------------------------------------
(* Steps that leave a part of the state alone.                               *)

LEMMA NoteUntouched ==
    ASSUME IInv, UNCHANGED <<users, changes, files, note>>, pc' = "run" => pc = "run"
    PROVE  ChangesShape' /\ NoteShape'
           /\ SavedIsCurrent' /\ TrackersAreContributors' /\ StoredIsApplied'
<1> USE DEF users, changes, note
<1>1. ChangesShape' /\ TrackersAreContributors'
  BY DEF IInv, ChangesShape, TrackersAreContributors
<1>2. NoteShape'
  BY DEF IInv, NoteShape
<1>3. SavedIsCurrent'
  BY DEF IInv, SavedIsCurrent, Live
<1>4. StoredIsApplied'
  BY DEF IInv, StoredIsApplied
<1> QED
  BY <1>1, <1>2, <1>3, <1>4

LEMMA SocketsUntouched ==
    ASSUME IInv, UNCHANGED <<sockets, users, sent, read_state, read_bytes>>
    PROVE  SocketsShape' /\ Stream' /\ Requests'
<1> USE DEF sockets, users
<1>1. SocketsShape'
  BY DEF IInv, SocketsShape
<1>2. Stream'
  BY DEF IInv, Stream
<1>3. Requests'
  BY DEF IInv, Requests
<1> QED
  BY <1>1, <1>2, <1>3

LEMMA EndsKeepsIInv ==
    ASSUME IInv, \E how \in {"stopped", "aborted"} : Ends(how)
    PROVE  IInv'
<1>1. /\ UNCHANGED <<users, changes, files, note, sockets, sent, monitor, networking>>
      /\ pc' # "run"
  BY DEF Ends, clients
<1>2. SocketsShape' /\ Stream' /\ Requests'
  BY <1>1, SocketsUntouched DEF monitor
<1>3. MonitorShape'
  BY <1>1 DEF IInv, MonitorShape, monitor, networking
<1>4. Owners'
  BY <1>1 DEF IInv, Owners, monitor, networking, sockets, users
<1> QED
  BY <1>1, <1>2, <1>3, <1>4, NoteUntouched DEF IInv

-----------------------------------------------------------------------------
(* Connections.                                                              *)

LEMMA JoinKeepsIInv ==
    ASSUME IInv, NEW fd \in Fd, Join(fd)
    PROVE  IInv'
<1>1. /\ conn' = [conn EXCEPT ![fd] = "login"] /\ peer' = [peer EXCEPT ![fd] = "here"]
      /\ conn[fd] = "none"
      /\ UNCHANGED <<pc, inbox, sent, monitor, networking, users, changes, files, note>>
  BY DEF Join
<1> USE <1>1 DEF monitor, networking, users
<1>2. SocketsShape'
  BY DEF IInv, SocketsShape
<1>3. MonitorShape'
  BY DEF IInv, MonitorShape
<1>4. Stream'
  <2>1. inbox[fd] = <<>> /\ read_state[fd] = "NONE"
    BY DEF IInv, Stream
  <2>2. \A d \in Fd \ {fd} : conn'[d] = conn[d] /\ peer'[d] = peer[d]
    BY DEF IInv, SocketsShape
  <2>3. conn'[fd] = "login" /\ Len(inbox[fd]) = 0
    BY <2>1 DEF IInv, SocketsShape
  <2> QED
    BY <2>1, <2>2, <2>3 DEF IInv, Stream
<1>5. Requests'
  BY DEF IInv, Requests
<1>6. Owners'
  BY DEF IInv, Owners, SocketsShape
<1> QED
  BY <1>2, <1>3, <1>4, <1>5, <1>6, NoteUntouched DEF IInv

LEMMA LoginDoneKeepsIInv ==
    ASSUME IInv, NEW fd \in Fd, LoginDone(fd)
    PROVE  IInv'
<1>1. /\ conn[fd] = "login" /\ conn' = [conn EXCEPT ![fd] = "logged"]
      /\ read_state' = [read_state EXCEPT ![fd] = "HEADER_TO_RECV"]
      /\ read_bytes' = [read_bytes EXCEPT ![fd] = HeaderSize]
      /\ write_state' = [write_state EXCEPT ![fd] = "MSG_SENT"]
      /\ write_bytes' = [write_bytes EXCEPT ![fd] = 0]
      /\ msg_type' = [msg_type EXCEPT ![fd] = IF @ = NO_ENTRY THEN HEADER ELSE @]
      /\ UNCHANGED <<pc, peer, inbox, msg_len, send_queues, users, changes, files, note, sent>>
  BY DEF LoginDone, clients
<1> USE <1>1 DEF users
<1>2. SocketsShape'
  BY DEF IInv, SocketsShape
<1>3. MonitorShape'
  BY DEF IInv, MonitorShape, ReadStates, WriteStates, HeaderSize
<1>4. Stream'
  BY DEF IInv, Stream, SocketsShape, MonitorShape
<1>5. Requests'
  BY DEF IInv, Requests
<1>6. Owners'
  BY DEF IInv, Owners, SocketsShape, MonitorShape, EDIT, HEADER
<1> QED
  BY <1>2, <1>3, <1>4, <1>5, <1>6, NoteUntouched DEF IInv

(* What a connection that ends does to all but the changes kept.             *)
LEMMA CloseKeeps ==
    ASSUME IInv, NEW fd \in Fd, Close(fd), contributors' \in {contributors, contributors \ {fd}}
    PROVE  SocketsShape' /\ MonitorShape' /\ Stream' /\ Requests' /\ Owners'
<1>1. /\ conn' = [conn EXCEPT ![fd] = "none"] /\ peer' = [peer EXCEPT ![fd] = "left"]
      /\ inbox' = [inbox EXCEPT ![fd] = <<>>]
      /\ read_state' = [read_state EXCEPT ![fd] = "NONE"]
      /\ read_bytes' = [read_bytes EXCEPT ![fd] = 0]
      /\ write_state' = [write_state EXCEPT ![fd] = "NONE"]
      /\ write_bytes' = [write_bytes EXCEPT ![fd] = 0]
      /\ UNCHANGED <<networking, sent>>
  BY DEF Close, clients
<1> USE <1>1 DEF networking
<1>2. SocketsShape'
  BY DEF IInv, SocketsShape
<1>3. MonitorShape'
  BY DEF IInv, MonitorShape, ReadStates, WriteStates
<1>4. Stream'
  BY DEF IInv, Stream, SocketsShape, MonitorShape
<1>5. Requests'
  BY DEF IInv, Requests, SocketsShape
<1>6. Owners'
  BY DEF IInv, Owners, SocketsShape, MonitorShape
<1> QED
  BY <1>2, <1>3, <1>4, <1>5, <1>6

LEMMA ClosedKeepsIInv ==
    ASSUME IInv, NEW fd \in Fd, Closed(fd)
    PROVE  IInv'
<1>1. Close(fd) /\ UNCHANGED <<users, changes, files>>
  BY DEF Closed
<1>2. UNCHANGED <<pc, note>>
  BY <1>1 DEF Close
<1> QED
  BY <1>1, <1>2, CloseKeeps, NoteUntouched DEF IInv, users

LEMMA ClientGoneKeepsIInv ==
    ASSUME IInv, NEW fd \in Fd, ClientGone(fd)
    PROVE  IInv'
<1>1. Close(fd) /\ pc' = pc /\ addedChars' = addedChars /\ deletedChars' = deletedChars
  BY DEF ClientGone, Close, note
<1>2. CASE fd \notin contributors
  <2>1. UNCHANGED <<users, changes, files>>
    BY <1>2 DEF ClientGone
  <2> QED
    BY <1>1, <2>1, CloseKeeps, NoteUntouched DEF IInv, users, note
<1>3. CASE fd \in contributors
  <2>1. /\ contributors' = contributors \ {fd} /\ to_fetch_changes' = to_fetch_changes
        /\ changes_buffs' \in {changes_buffs, Without(changes_buffs, fd)}
        /\ changes_tracker' = Without(changes_tracker, fd)
        /\ IF contributors = {fd} THEN save_to_file ELSE UNCHANGED files
    BY <1>3 DEF ClientGone, remove_contributor
  <2>2. ChangesShape' /\ TrackersAreContributors'
    BY <2>1 DEF IInv, ChangesShape, TrackersAreContributors, Without, Restrict
  <2>3. StoredIsApplied'
    BY <1>1, <2>1 DEF IInv, StoredIsApplied, Without, Restrict
  <2>4. CASE contributors # {fd}
    BY <1>1, <1>3, <2>1, <2>2, <2>3, <2>4, CloseKeeps DEF IInv, NoteShape, SavedIsCurrent
  <2>5. CASE contributors = {fd}
    <3>1. files' = [files EXCEPT ![Len(files)] = Live] /\ contributors' = {} /\ Live' = Live
      BY <1>1, <2>1, <2>5 DEF save_to_file, Live
    <3>2. PICK T : files \in Seq(T)
      BY DEF IInv, NoteShape
    <3>3. Len(files) \in 1..Len(files)
      BY <1>3, <3>2 DEF IInv, NoteShape
    <3>4. files' \in Seq(T \cup {Live}) /\ Len(files') = Len(files) /\ files'[Len(files)] = Live
      BY <3>1, <3>2, <3>3
    <3>5. NoteShape'
      BY <1>1, <3>1, <3>4 DEF IInv, NoteShape
    <3>6. SavedIsCurrent'
      BY <3>1, <3>4 DEF SavedIsCurrent, Last
    <3> QED
      BY <1>1, <2>1, <2>2, <2>3, <3>5, <3>6, CloseKeeps DEF IInv
  <2> QED
    BY <2>4, <2>5
<1> QED
  BY <1>2, <1>3

-----------------------------------------------------------------------------
(* What is received.                                                         *)

LEMMA UnitTaken ==
    ASSUME IInv, NEW fd \in Fd, inbox[fd] # <<>>, inbox' = [inbox EXCEPT ![fd] = Tail(@)],
           contributors' # contributors =>
               contributors' = contributors \cup {fd} /\ Head(inbox[fd]).type = EDIT
    PROVE  /\ inbox' \in [Fd -> Seq(Unit)] /\ Requests'
           /\ Head(inbox[fd]) = inbox[fd][1] /\ Head(inbox[fd]) \in Unit
           /\ Len(inbox[fd]) \in Nat \ {0} /\ Len(inbox'[fd]) = Len(inbox[fd]) - 1
           /\ \A i \in 1..Len(inbox'[fd]) : inbox'[fd][i] = inbox[fd][i + 1]
           /\ \A d \in Fd \ {fd} : inbox'[d] = inbox[d]
<1>1. inbox \in [Fd -> Seq(Unit)] /\ inbox[fd] \in Seq(Unit)
  BY DEF IInv, SocketsShape
<1>2. inbox'[fd] = Tail(inbox[fd]) /\ \A d \in Fd \ {fd} : inbox'[d] = inbox[d]
  BY <1>1
<1>3. /\ Tail(inbox[fd]) \in Seq(Unit) /\ Head(inbox[fd]) \in Unit
      /\ Len(Tail(inbox[fd])) = Len(inbox[fd]) - 1 /\ Len(inbox[fd]) \in Nat \ {0}
      /\ \A i \in 1..Len(Tail(inbox[fd])) : Tail(inbox[fd])[i] = inbox[fd][i + 1]
      /\ Head(inbox[fd]) = inbox[fd][1]
  BY <1>1
<1>4. inbox' \in [Fd -> Seq(Unit)]
  BY <1>1, <1>3
<1>5. ASSUME NEW d \in Fd, NEW i \in 1..Len(inbox'[d]),
             inbox'[d][i].part = "body"
      PROVE  \/ inbox'[d][i].type = EDIT /\ inbox'[d][i].edit \in Edits
             \/ inbox'[d][i].type = STATEMENT
  BY <1>2, <1>3, <1>5 DEF IInv, Requests
<1>6. ASSUME NEW d \in Fd, NEW i \in 1..Len(inbox'[d]), inbox'[d][i].type = STATEMENT
      PROVE  d \notin contributors' /\ \A j \in 1..i : inbox'[d][j].type # EDIT
  <2>1. CASE d # fd
    BY <1>2, <1>6, <2>1 DEF IInv, Requests
  <2>2. CASE d = fd
    <3>0. /\ Len(inbox'[fd]) = Len(inbox[fd]) - 1 /\ i \in 1..Len(inbox'[fd])
          /\ \A j \in 1..Len(inbox'[fd]) : inbox'[fd][j] = inbox[fd][j + 1]
          /\ inbox'[fd][i].type = STATEMENT
      BY <1>2, <1>3, <1>6, <2>2
    <3>1. i + 1 \in 1..Len(inbox[fd]) /\ inbox[fd][i + 1].type = STATEMENT
      BY <1>3, <3>0
    <3>2. fd \notin contributors /\ \A j \in 1..i + 1 : inbox[fd][j].type # EDIT
      BY <3>1 DEF IInv, Requests
    <3>3. \A j \in 1..i : inbox'[fd][j] = inbox[fd][j + 1] /\ j + 1 \in 1..i + 1
      BY <1>3, <3>0
    <3>4. Head(inbox[fd]).type # EDIT
      BY <1>3, <3>2
    <3> QED
      BY <2>2, <3>2, <3>3, <3>4
  <2> QED
    BY <2>1, <2>2
<1> QED
  BY <1>2, <1>3, <1>4, <1>5, <1>6 DEF Requests

LEMMA RecvHeaderKeepsIInv ==
    ASSUME IInv, NEW fd \in Fd, RecvHeader(fd)
    PROVE  IInv'
<1> DEFINE header == Head(inbox[fd])
           joins  == header.type = EDIT /\ fd \notin contributors
<1>1. /\ conn[fd] = "logged" /\ inbox[fd] # <<>> /\ header.part = "header"
      /\ inbox' = [inbox EXCEPT ![fd] = Tail(@)]
      /\ read_state' = [read_state EXCEPT ![fd] = "HEADER_RECVD"]
      /\ read_bytes' = [read_bytes EXCEPT ![fd] = header.len]
      /\ msg_type' = [msg_type EXCEPT ![fd] = header.type]
      /\ msg_len' = [msg_len EXCEPT ![fd] = header.len]
      /\ UNCHANGED <<pc, conn, peer, write_state, write_bytes, send_queues, changes_buffs,
                     addedChars, deletedChars, sent>>
  BY DEF RecvHeader, WaitingForHeader, Logged, Arrived, Readable, clients, note
<1>2. IF joins THEN add_client(fd) ELSE UNCHANGED <<users, changes_tracker, files>>
  BY DEF RecvHeader
<1>3. contributors' = IF joins THEN contributors \cup {fd} ELSE contributors
  BY <1>2 DEF add_client, users
<1>4. /\ inbox' \in [Fd -> Seq(Unit)] /\ Requests' /\ header = inbox[fd][1] /\ header \in Unit
      /\ Len(inbox[fd]) \in Nat \ {0} /\ Len(inbox'[fd]) = Len(inbox[fd]) - 1
      /\ \A i \in 1..Len(inbox'[fd]) : inbox'[fd][i] = inbox[fd][i + 1]
      /\ \A d \in Fd \ {fd} : inbox'[d] = inbox[d]
  BY <1>1, <1>3, UnitTaken
<1>5. SocketsShape'
  BY <1>1, <1>4 DEF IInv, SocketsShape
<1>6. header.len \in Nat /\ header.type \in {LOGIN, STATEMENT, EDIT}
  BY <1>4 DEF Unit
<1>7. MonitorShape'
  BY <1>1, <1>6 DEF IInv, MonitorShape, ReadStates, Lengths
<1>8. Stream'
  <2>1. ASSUME NEW d \in Fd \ {fd}
        PROVE  /\ inbox'[d] = inbox[d] /\ read_state'[d] = read_state[d]
               /\ read_bytes'[d] = read_bytes[d]
    BY <1>1, <1>4 DEF IInv, MonitorShape
  <2>2. read_state'[fd] = "HEADER_RECVD" /\ read_bytes'[fd] = header.len
    BY <1>1 DEF IInv, MonitorShape
  <2>3. \A i \in 1..Len(inbox'[fd]) :
              inbox'[fd][i].part = "header" /\ inbox'[fd][i].len > 0 =>
                  IF i < Len(inbox'[fd]) THEN inbox'[fd][i + 1].part = "body" ELSE peer[fd] # "here"
    <3> SUFFICES ASSUME NEW i \in 1..Len(inbox'[fd]),
                        inbox'[fd][i].part = "header" /\ inbox'[fd][i].len > 0
                 PROVE  IF i < Len(inbox'[fd]) THEN inbox'[fd][i + 1].part = "body"
                        ELSE peer[fd] # "here"
      OBVIOUS
    <3> HIDE DEF header
    <3>1. i + 1 \in 1..Len(inbox[fd]) /\ inbox'[fd][i] = inbox[fd][i + 1]
      BY <1>4
    <3>2. i < Len(inbox'[fd]) <=> i + 1 < Len(inbox[fd])
      BY <1>4
    <3>3. i < Len(inbox'[fd]) => inbox'[fd][i + 1] = inbox[fd][(i + 1) + 1]
      BY <1>4
    <3> QED
      BY <3>1, <3>2, <3>3 DEF IInv, Stream
  <2>4. header.len > 0 =>
            IF inbox'[fd] = <<>> THEN peer[fd] # "here" ELSE inbox'[fd][1].part = "body"
    <3> SUFFICES ASSUME header.len > 0
                 PROVE  IF inbox'[fd] = <<>> THEN peer[fd] # "here" ELSE inbox'[fd][1].part = "body"
      OBVIOUS
    <3>1. IF 1 < Len(inbox[fd]) THEN inbox[fd][2].part = "body" ELSE peer[fd] # "here"
      BY <1>1, <1>4 DEF IInv, Stream
    <3>2. inbox'[fd] = <<>> <=> ~(1 < Len(inbox[fd]))
      BY <1>4
    <3>3. 1 < Len(inbox[fd]) => inbox'[fd][1] = inbox[fd][2]
      BY <1>4
    <3> QED
      BY <3>1, <3>2, <3>3
  <2> HIDE DEF header
  <2> QED
    BY <1>1, <2>1, <2>2, <2>3, <2>4 DEF IInv, Stream
<1>9. Owners'
  BY <1>1, <1>3 DEF IInv, Owners, MonitorShape
<1>10. /\ ChangesShape' /\ NoteShape'
       /\ TrackersAreContributors' /\ SavedIsCurrent' /\ StoredIsApplied'
  <2>1. CASE ~joins
    BY <1>1, <1>2, <2>1, NoteUntouched DEF users, changes, note
  <2>2. CASE joins
    <3>1. /\ changes_tracker' = Put(changes_tracker, fd, <<>>)
          /\ files' = (IF contributors = {} THEN Append(files, <<>>) ELSE files)
          /\ contributors' = contributors \cup {fd}
          /\ to_fetch_changes \subseteq to_fetch_changes'
      BY <1>2, <2>2 DEF add_client
    <3>2. ChangesShape' /\ TrackersAreContributors'
      <4>1. changes_tracker \in [contributors -> Seq(Fd)]
        BY DEF IInv, ChangesShape
      <4>2. changes_tracker' \in [contributors' -> Seq(Fd)]
        BY <3>1, <4>1 DEF Put
      <4>3. changes_tracker'[fd] = <<>> /\ ToSet(<<>>) = {}
        BY <3>1, <4>1 DEF Put, ToSet
      <4>4. \A d \in contributors \ {fd} : changes_tracker'[d] = changes_tracker[d]
        BY <3>1, <4>1 DEF Put
      <4>5. ChangesShape'
        BY <1>1, <3>1, <4>2 DEF IInv, ChangesShape
      <4> QED
        BY <3>1, <4>2, <4>3, <4>4, <4>5 DEF IInv, TrackersAreContributors
    <3>3. NoteShape'
      <4>1. PICK T : files \in Seq(T)
        BY DEF IInv, NoteShape
      <4>2. files \in Seq(T \cup {<<>>})
        BY <4>1, SeqMonotonic
      <4>3. files' \in Seq(T \cup {<<>>}) /\ files' # <<>>
        BY <3>1, <4>2 DEF IInv, NoteShape
      <4> QED
        BY <1>1, <4>3 DEF IInv, NoteShape
    <3>4. SavedIsCurrent'
      BY <3>1 DEF SavedIsCurrent
    <3>5. StoredIsApplied'
      BY <1>1, <3>1 DEF IInv, StoredIsApplied
    <3> QED
      BY <3>2, <3>3, <3>4, <3>5
  <2> QED
    BY <2>1, <2>2
<1> QED
  BY <1>4, <1>5, <1>7, <1>8, <1>9, <1>10 DEF IInv

(* A body that is expected is next, and one of an edit comes from an editor. *)
LEMMA BodyTaken ==
    ASSUME IInv, NEW fd \in Fd, BodyRecvd(fd)
    PROVE  /\ SocketsShape' /\ Stream' /\ Requests'
           /\ read_state' \in [Fd -> ReadStates] /\ read_bytes' \in [Fd -> Nat]
           /\ read_state'[fd] = "MSG_RECVD" /\ \A d \in Fd \ {fd} : read_state'[d] = read_state[d]
           /\ contributors' = contributors /\ UNCHANGED <<conn, to_fetch_changes, files>>
           /\ msg_type[fd] = EDIT =>
                 /\ fd \in contributors /\ Head(inbox[fd]).edit \in Edits
                 /\ Head(inbox[fd]).part = "body" /\ Head(inbox[fd]).type = EDIT
<1>1. /\ conn[fd] = "logged" /\ inbox[fd] # <<>>
      /\ read_state[fd] = "HEADER_RECVD" /\ read_bytes[fd] > 0
      /\ inbox' = [inbox EXCEPT ![fd] = Tail(@)]
      /\ read_state' = [read_state EXCEPT ![fd] = "MSG_RECVD"]
      /\ read_bytes' = [read_bytes EXCEPT ![fd] = 0]
      /\ UNCHANGED <<conn, peer, contributors, to_fetch_changes, files, sent>>
  BY DEF BodyRecvd, WaitingForMsg, Logged, Arrived, users, clients
<1>2. /\ inbox' \in [Fd -> Seq(Unit)] /\ Requests' /\ Head(inbox[fd]) = inbox[fd][1]
      /\ Len(inbox[fd]) \in Nat \ {0} /\ Len(inbox'[fd]) = Len(inbox[fd]) - 1
      /\ \A i \in 1..Len(inbox'[fd]) : inbox'[fd][i] = inbox[fd][i + 1]
      /\ \A d \in Fd \ {fd} : inbox'[d] = inbox[d]
  BY <1>1, UnitTaken
<1>3. SocketsShape'
  BY <1>1, <1>2 DEF IInv, SocketsShape
<1>4. /\ read_state' \in [Fd -> ReadStates] /\ read_bytes' \in [Fd -> Nat]
      /\ read_state'[fd] = "MSG_RECVD"
      /\ \A d \in Fd \ {fd} : read_state'[d] = read_state[d] /\ read_bytes'[d] = read_bytes[d]
  BY <1>1 DEF IInv, MonitorShape, ReadStates
<1>5. Stream'
  <2>1. \A i \in 1..Len(inbox'[fd]) :
              inbox'[fd][i].part = "header" /\ inbox'[fd][i].len > 0 =>
                  IF i < Len(inbox'[fd]) THEN inbox'[fd][i + 1].part = "body" ELSE peer[fd] # "here"
    <3> SUFFICES ASSUME NEW i \in 1..Len(inbox'[fd]),
                        inbox'[fd][i].part = "header" /\ inbox'[fd][i].len > 0
                 PROVE  IF i < Len(inbox'[fd]) THEN inbox'[fd][i + 1].part = "body"
                        ELSE peer[fd] # "here"
      OBVIOUS
    <3>1. i + 1 \in 1..Len(inbox[fd]) /\ inbox'[fd][i] = inbox[fd][i + 1]
      BY <1>2
    <3>2. i < Len(inbox'[fd]) <=> i + 1 < Len(inbox[fd])
      BY <1>2
    <3>3. i < Len(inbox'[fd]) => inbox'[fd][i + 1] = inbox[fd][(i + 1) + 1]
      BY <1>2
    <3> QED
      BY <3>1, <3>2, <3>3 DEF IInv, Stream
  <2> QED
    BY <1>1, <1>2, <1>4, <2>1 DEF IInv, Stream
<1>6. msg_type[fd] = EDIT => /\ fd \in contributors /\ Head(inbox[fd]).edit \in Edits
                             /\ Head(inbox[fd]).part = "body" /\ Head(inbox[fd]).type = EDIT
  <2>1. inbox[fd][1].part = "body" /\ 1 \in 1..Len(inbox[fd])
    BY <1>1, <1>2 DEF IInv, Stream
  <2>2. msg_type[fd] = EDIT => fd \in contributors
    BY <1>1 DEF IInv, Owners
  <2> QED
    BY <1>2, <2>1, <2>2 DEF IInv, Requests
<1> QED
  BY <1>1, <1>2, <1>3, <1>4, <1>5, <1>6

(* set_multicast: the lengths stay lengths, and whoever is set to be sent to *)
(* edits.                                                                    *)
LEMMA Multicast ==
    ASSUME IInv, NEW receivers \in SUBSET contributors, NEW len \in Nat,
           NEW bytes \in [Fd -> Nat], NEW states \in [Fd -> WriteStates],
           set_multicast(receivers, len, bytes, states),
           read_state' \in [Fd -> ReadStates], read_bytes' \in [Fd -> Nat],
           contributors' = contributors, conn' = conn,
           \A fd \in Fd \ contributors :
              /\ read_state'[fd] = "HEADER_RECVD" => read_state[fd] = "HEADER_RECVD"
              /\ states[fd] \in {"HEADER_TO_SEND", "HEADER_SENT"} =>
                    write_state[fd] \in {"HEADER_TO_SEND", "HEADER_SENT"}
    PROVE  MonitorShape' /\ Owners'
<1>1. /\ write_bytes' = [fd \in Fd |-> IF fd \in receivers THEN len ELSE bytes[fd]]
      /\ write_state' = [fd \in Fd |-> IF fd \in receivers THEN "HEADER_TO_SEND" ELSE states[fd]]
      /\ send_queues' = [fd \in Fd |-> IF fd \in receivers
                                       THEN Append(send_queues[fd], len) ELSE send_queues[fd]]
  BY DEF set_multicast
<1>2. /\ msg_type' = [fd \in Fd |-> IF fd \in receivers /\ msg_type[fd] # NO_ENTRY
                                    THEN EDIT ELSE msg_type[fd]]
      /\ msg_len' = [fd \in Fd |-> IF fd \in receivers /\ msg_type[fd] # NO_ENTRY
                                   THEN len ELSE msg_len[fd]]
  BY DEF set_multicast
<1>3. len \in Lengths
  BY DEF Lengths
<1>4. write_bytes' \in [Fd -> Nat] /\ write_state' \in [Fd -> WriteStates]
  BY <1>1 DEF WriteStates
<1>5. send_queues' \in [Fd -> Seq(Lengths)]
  BY <1>1, <1>3 DEF IInv, MonitorShape
<1>6. /\ msg_type' \in [Fd -> {NO_ENTRY, HEADER, LOGIN, STATEMENT, EDIT}]
      /\ msg_len' \in [Fd -> Lengths]
  BY <1>2, <1>3 DEF IInv, MonitorShape
<1>7. MonitorShape'
  BY <1>4, <1>5, <1>6 DEF MonitorShape
<1>8. Owners'
  <2> SUFFICES ASSUME NEW fd \in Fd, fd \notin contributors,
                      conn[fd] = "logged", msg_type'[fd] = EDIT,
                      \/ read_state'[fd] = "HEADER_RECVD"
                      \/ write_state'[fd] \in {"HEADER_TO_SEND", "HEADER_SENT"}
               PROVE  FALSE
    BY DEF Owners
  <2>1. msg_type[fd] = EDIT /\ write_state'[fd] = states[fd]
    BY <1>1, <1>2
  <2> QED
    BY <2>1 DEF IInv, Owners
<1> QED
  BY <1>7, <1>8

Kept(fd) == IF fd \in DOMAIN changes_buffs THEN ToSet(changes_buffs[fd]) ELSE {}

(* store_changes: the edit is kept, for everyone but the one it comes from.  *)
LEMMA Stored ==
    ASSUME IInv, NEW fd \in contributors, NEW edit \in Edits, store_changes(fd, edit),
           contributors' = contributors
    PROVE  /\ ChangesShape' /\ TrackersAreContributors'
           /\ DOMAIN changes_buffs' = DOMAIN changes_buffs \cup {fd}
           /\ \A d \in DOMAIN changes_buffs \ {fd} : changes_buffs'[d] = changes_buffs[d]
           /\ ToSet(changes_buffs'[fd]) =
                 {edit} \cup Kept(fd)
<1>1. Buffer(fd) \in Seq(Edits)
  BY DEF IInv, ChangesShape, Buffer
<1>2. /\ changes_buffs' = [d \in DOMAIN changes_buffs \cup {fd} |->
                              IF d = fd THEN Append(Buffer(fd), edit) ELSE changes_buffs[d]]
      /\ changes_tracker' = [other \in DOMAIN changes_tracker |->
            IF other = fd THEN changes_tracker[fd] ELSE Append(changes_tracker[other], fd)]
  BY DEF store_changes, Put
<1>3. fd \in Fd /\ changes_tracker \in [contributors -> Seq(Fd)]
  BY DEF IInv, ChangesShape
<1>4. changes_tracker' \in [contributors -> Seq(Fd)]
  BY <1>2, <1>3
<1>5. changes_buffs' \in [DOMAIN changes_buffs \cup {fd} -> Seq(Edits)]
  BY <1>1, <1>2 DEF IInv, ChangesShape
<1>6. ChangesShape'
  BY <1>4, <1>5 DEF IInv, ChangesShape
<1>7. \A other \in contributors : other \notin ToSet(changes_tracker'[other])
  <2> TAKE other \in contributors
  <2>1. CASE other = fd
    BY <1>2, <1>3, <2>1 DEF IInv, TrackersAreContributors
  <2>2. CASE other # fd
    <3>1. changes_tracker[other] \in Seq(Fd) /\ other \notin ToSet(changes_tracker[other])
      BY <1>3 DEF IInv, TrackersAreContributors
    <3>2. changes_tracker'[other] = Append(changes_tracker[other], fd)
      BY <1>2, <1>3, <2>2
    <3>3. ToSet(Append(changes_tracker[other], fd)) = ToSet(changes_tracker[other]) \cup {fd}
      BY <1>3, <3>1, ToSetAppend
    <3> QED
      BY <2>2, <3>1, <3>2, <3>3
  <2> QED
    BY <2>1, <2>2
<1>8. ToSet(Append(Buffer(fd), edit)) = ToSet(Buffer(fd)) \cup {edit}
  BY <1>1, ToSetAppend
<1>9. ToSet(<<>>) = {}
  BY DEF ToSet
<1> QED
  BY <1>2, <1>4, <1>6, <1>7, <1>8, <1>9 DEF Kept, TrackersAreContributors, Buffer

LEMMA RecvOtherKeepsIInv ==
    ASSUME IInv, NEW fd \in Fd, RecvOther(fd)
    PROVE  IInv'
<1>1. /\ BodyRecvd(fd) /\ msg_type[fd] # EDIT
      /\ write_state' = [write_state EXCEPT ![fd] = "HEADER_TO_SEND"]
      /\ write_bytes' = [write_bytes EXCEPT ![fd] = HeaderSize]
      /\ UNCHANGED <<pc, msg_type, msg_len, send_queues, changes, note>>
  BY DEF RecvOther, StatesToSend, BytesToSend, networking
<1>2. MonitorShape'
  BY <1>1, BodyTaken DEF IInv, MonitorShape, WriteStates, HeaderSize
<1>3. Owners'
  BY <1>1, BodyTaken DEF IInv, Owners, MonitorShape
<1> QED
  BY <1>1, <1>2, <1>3, BodyTaken, NoteUntouched DEF IInv, users

LEMMA RecvEditToFetchKeepsIInv ==
    ASSUME IInv, NEW fd \in Fd, RecvEditToFetch(fd)
    PROVE  IInv'
<1> DEFINE edit == Head(inbox[fd]).edit
<1>1. /\ BodyRecvd(fd) /\ msg_type[fd] = EDIT /\ fd \in to_fetch_changes
      /\ store_changes(fd, edit)
      /\ write_state' = [write_state EXCEPT ![fd] = "HEADER_TO_SEND"]
      /\ write_bytes' = [write_bytes EXCEPT ![fd] = HeaderSize]
      /\ send_queues' = [send_queues EXCEPT ![fd] = Append(@, -1)]
      /\ UNCHANGED <<pc, msg_type, msg_len, addedChars, deletedChars>>
  BY DEF RecvEditToFetch, StatesToSend, BytesToSend, note
<1> HIDE DEF edit
<1>2. fd \in contributors /\ edit \in Edits
  BY <1>1, BodyTaken DEF edit
<1>3. contributors' = contributors /\ UNCHANGED <<to_fetch_changes, files, conn>>
  BY <1>1, BodyTaken
<1>4. MonitorShape'
  BY <1>1, BodyTaken DEF IInv, MonitorShape, WriteStates, HeaderSize, Lengths
<1>5. Owners'
  BY <1>1, <1>2, BodyTaken DEF IInv, Owners, MonitorShape
<1>6. /\ ChangesShape' /\ TrackersAreContributors'
      /\ DOMAIN changes_buffs' = DOMAIN changes_buffs \cup {fd}
      /\ \A d \in DOMAIN changes_buffs \ {fd} : changes_buffs'[d] = changes_buffs[d]
  BY <1>1, <1>2, <1>3, Stored
<1>7. StoredIsApplied'
  BY <1>1, <1>3, <1>6 DEF IInv, StoredIsApplied
<1>8. NoteShape' /\ SavedIsCurrent'
  BY <1>1, <1>2, <1>3 DEF IInv, NoteShape, SavedIsCurrent
<1> QED
  BY <1>1, <1>4, <1>5, <1>6, <1>7, <1>8, BodyTaken DEF IInv

LEMMA RecvEditKeepsIInv ==
    ASSUME IInv, NEW fd \in Fd, RecvEdit(fd)
    PROVE  IInv'
<1> DEFINE edit == Head(inbox[fd]).edit
<1>1. /\ BodyRecvd(fd) /\ msg_type[fd] = EDIT /\ fd \notin to_fetch_changes
      /\ store_changes(fd, edit)
      /\ edit_contents(<<edit>>)
      /\ set_multicast(contributors \ {fd}, EditLen, BytesToSend(fd), StatesToSend(fd))
      /\ pc = "run"
  BY DEF RecvEdit, BodyRecvd, WaitingForMsg, Logged
<1> HIDE DEF edit
<1>2. fd \in contributors /\ edit \in Edits
  BY <1>1, BodyTaken DEF edit
<1>3. contributors' = contributors /\ UNCHANGED <<to_fetch_changes, files, conn>>
  BY <1>1, BodyTaken
<1>4. BytesToSend(fd) \in [Fd -> Nat] /\ StatesToSend(fd) \in [Fd -> WriteStates]
  BY DEF IInv, MonitorShape, BytesToSend, StatesToSend, HeaderSize, WriteStates
<1>5. \A d \in Fd \ contributors :
              /\ read_state'[d] = "HEADER_RECVD" => read_state[d] = "HEADER_RECVD"
              /\ StatesToSend(fd)[d] = write_state[d]
  BY <1>1, <1>2, BodyTaken DEF IInv, MonitorShape, StatesToSend
<1>6. read_state' \in [Fd -> ReadStates] /\ read_bytes' \in [Fd -> Nat]
  BY <1>1, BodyTaken
<1>7. MonitorShape' /\ Owners'
  BY <1>1, <1>3, <1>4, <1>5, <1>6, EditFacts, Multicast
<1>8. /\ ChangesShape' /\ TrackersAreContributors'
      /\ DOMAIN changes_buffs' = DOMAIN changes_buffs \cup {fd}
      /\ \A d \in DOMAIN changes_buffs \ {fd} : changes_buffs'[d] = changes_buffs[d]
      /\ ToSet(changes_buffs'[fd]) =
            {edit} \cup Kept(fd)
  BY <1>1, <1>2, <1>3, Stored
<1>9. /\ addedChars' \in Seq(Char) /\ deletedChars' \in Seq(Char)
      /\ ToSet(addedChars) \subseteq ToSet(addedChars')
      /\ ToSet(deletedChars) \subseteq ToSet(deletedChars')
      /\ ToSet(edit.add) \subseteq ToSet(addedChars')
      /\ ToSet(edit.del) \subseteq ToSet(deletedChars')
  <2>1. <<edit>> \in Seq(Edits) /\ <<edit>> # <<>> /\ <<edit>>[1] = edit
    BY <1>2
  <2> QED
    BY <1>1, <2>1, Applied DEF IInv
<1>10. StoredIsApplied'
  BY <1>1, <1>3, <1>8, <1>9 DEF Kept, IInv, StoredIsApplied
<1>11. NoteShape' /\ SavedIsCurrent'
  BY <1>2, <1>3, <1>9 DEF IInv, NoteShape, SavedIsCurrent
<1> QED
  BY <1>1, <1>7, <1>8, <1>10, <1>11, BodyTaken DEF IInv

-----------------------------------------------------------------------------
(* What is sent.                                                             *)

LEMMA SendHeaderKeepsIInv ==
    ASSUME IInv, NEW fd \in Fd, SendHeader(fd)
    PROVE  IInv'
<1>0. PICK len \in HeaderLen(fd) : \E bytes \in Coded(len) :
          /\ msg_len' = [msg_len EXCEPT ![fd] = len]
          /\ write_bytes' = [write_bytes EXCEPT ![fd] = bytes]
  BY DEF SendHeader
<1>1. PICK bytes \in Coded(len) :
          /\ msg_len' = [msg_len EXCEPT ![fd] = len]
          /\ write_bytes' = [write_bytes EXCEPT ![fd] = bytes]
  BY <1>0
<1>2. /\ write_state[fd] = "HEADER_TO_SEND" /\ send_queues[fd] # <<>> /\ pc = "run"
      /\ write_state' = [write_state EXCEPT ![fd] = "HEADER_SENT"]
      /\ UNCHANGED <<sockets, read_state, read_bytes, msg_type, send_queues,
                     users, changes, files, note, sent>>
  BY DEF SendHeader, ToSend, Logged, clients
<1>3. len \in Lengths
  <2>1. FileLen \in Nat
    BY FileLenType DEF IInv, NoteShape
  <2>2. Head(send_queues[fd]) \in Lengths
    BY <1>2 DEF IInv, MonitorShape
  <2>3. msg_len[fd] \in Lengths
    BY DEF IInv, MonitorShape
  <2> QED
    BY <2>1, <2>2, <2>3, <1>2 DEF HeaderLen, FirstLen, Lengths
<1>4. bytes \in Nat
  <2>1. CASE len = -1
    BY <2>1 DEF Coded
  <2>2. ASSUME len # -1
        PROVE  bytes \in Nat
    <3>1. PICK ten \in {1, 10, 100, 1000, 10000, 100000, 1000000} : bytes = len \div ten
      BY <2>2 DEF Coded
    <3>2. len \in Nat
      BY <2>2, <1>3 DEF Lengths
    <3> QED
      BY <3>1, <3>2
  <2> QED
    BY <2>1, <2>2
<1>5. MonitorShape'
  BY <1>1, <1>2, <1>3, <1>4 DEF IInv, MonitorShape, WriteStates
<1>6. Owners'
  BY <1>2 DEF IInv, Owners, MonitorShape, sockets, users
<1> QED
  BY <1>2, <1>5, <1>6, SocketsUntouched, NoteUntouched DEF IInv

(* The list of what is to be sent is not empty when there is a body to send, *)
(* and get_changes only adds an empty buffer to those kept.                  *)
LEMMA ChangesSent ==
    ASSUME IInv, NEW fd \in Fd, ChangesToSend(fd)
    PROVE  /\ fd \in contributors /\ changes_tracker[fd] \in Seq(Fd) /\ changes_tracker[fd] # <<>>
           /\ LET editor == Head(changes_tracker[fd])
                  buffs  == BuffsRead(editor)
              IN  /\ editor \in Fd
                  /\ buffs \in [DOMAIN buffs -> Seq(Edits)]
                  /\ DOMAIN changes_buffs \subseteq DOMAIN buffs
                  /\ DOMAIN buffs \subseteq DOMAIN changes_buffs \cup {editor}
                  /\ \A d \in DOMAIN buffs :
                        ToSet(buffs[d]) = Kept(d)
<1> DEFINE editor == Head(changes_tracker[fd])
           buffs  == BuffsRead(editor)
<1>1. fd \notin to_fetch_changes /\ BodyLen(fd) >= write_bytes[fd] /\ write_bytes[fd] \in Nat
  BY DEF ChangesToSend, BodyReady, IInv, MonitorShape
<1>2. ~NothingTracked(fd)
  BY <1>1 DEF BodyLen
<1>3. fd \in contributors /\ changes_tracker[fd] # <<>> /\ changes_tracker[fd] \in Seq(Fd)
  BY <1>2 DEF NothingTracked, IInv, ChangesShape
<1>4. editor \in Fd
  BY <1>3
<1> HIDE DEF editor
<1>5. Buffer(editor) \in Seq(Edits)
  BY DEF IInv, ChangesShape, Buffer
<1>6. changes_buffs \in [DOMAIN changes_buffs -> Seq(Edits)] /\ ToSet(<<>>) = {}
  BY DEF IInv, ChangesShape, ToSet
<1>7. CASE Skips(editor)
  BY <1>3, <1>4, <1>6, <1>7 DEF Kept, BuffsRead, editor
<1>8. CASE ~Skips(editor)
  <2>1. buffs = [e \in DOMAIN changes_buffs \cup {editor} |->
                    IF e = editor THEN Buffer(editor) ELSE changes_buffs[e]]
    BY <1>8 DEF BuffsRead, Put
  <2> HIDE DEF buffs
  <2>2. buffs \in [DOMAIN changes_buffs \cup {editor} -> Seq(Edits)]
    BY <1>5, <1>6, <2>1
  <2>3. \A d \in DOMAIN buffs :
            ToSet(buffs[d]) = Kept(d)
    BY <1>6, <2>1, <2>2 DEF Kept, Buffer
  <2> QED
    BY <1>3, <1>4, <2>2, <2>3 DEF editor, buffs
<1> QED
  BY <1>7, <1>8

LEMMA SendPartKeepsIInv ==
    ASSUME IInv, NEW fd \in Fd, SendPart(fd)
    PROVE  IInv'
<1>1. PICK n \in Part \cup {0} :
          n < write_bytes[fd] /\ write_bytes' = [write_bytes EXCEPT ![fd] = @ - n]
  BY DEF SendPart
<1>2. UNCHANGED <<pc, sockets, read_state, read_bytes, write_state, networking,
                  users, changes_tracker, files, note, sent>>
  BY DEF SendPart, clients
<1>3. MonitorShape'
  <2>1. n \in Nat /\ write_bytes[fd] - n \in Nat
    BY <1>1, LengthAssumption DEF IInv, MonitorShape
  <2> QED
    BY <1>1, <1>2, <2>1 DEF IInv, MonitorShape, networking
<1>4. Owners'
  BY <1>2 DEF IInv, Owners, sockets, networking, users
<1>5. NoteShape' /\ SavedIsCurrent' /\ TrackersAreContributors'
  BY <1>2 DEF IInv, NoteShape, SavedIsCurrent, Live, TrackersAreContributors, users, note
<1>6. ChangesShape' /\ StoredIsApplied'
  <2>1. CASE FileToSend(fd)
    <3>1. changes_buffs' = changes_buffs
      BY <2>1 DEF SendPart, FileToSend, ChangesToSend
    <3> QED
      BY <1>2, <3>1 DEF IInv, ChangesShape, StoredIsApplied, users, note
  <2>2. CASE ~FileToSend(fd)
    <3> DEFINE buffs == BuffsRead(Head(changes_tracker[fd]))
    <3>1. ChangesToSend(fd) /\ changes_buffs' = buffs
      BY <2>2 DEF SendPart
    <3>2. /\ buffs \in [DOMAIN buffs -> Seq(Edits)]
          /\ \A d \in DOMAIN buffs :
                ToSet(buffs[d]) = Kept(d)
      BY <3>1, ChangesSent
    <3> HIDE DEF buffs
    <3>3. ChangesShape'
      BY <1>2, <3>1, <3>2 DEF IInv, ChangesShape, users
    <3>4. StoredIsApplied'
      BY <1>2, <3>1, <3>2 DEF Kept, IInv, StoredIsApplied, users, note
    <3> QED
      BY <3>3, <3>4
  <2> QED
    BY <2>1, <2>2
<1> QED
  BY <1>2, <1>3, <1>4, <1>5, <1>6, SocketsUntouched DEF IInv

(* After a body the server waits for the client's next header.               *)
LEMMA BodySentKeeps ==
    ASSUME IInv, NEW fd \in Fd, BodySent(fd), conn[fd] = "logged"
    PROVE  /\ SocketsShape' /\ Stream' /\ Requests'
           /\ read_state' \in [Fd -> ReadStates] /\ read_bytes' \in [Fd -> Nat]
           /\ \A d \in Fd : read_state'[d] = "HEADER_RECVD" => read_state[d] = "HEADER_RECVD"
           /\ contributors' = contributors /\ UNCHANGED <<conn, to_fetch_changes, files>>
<1>1. /\ read_state' = [read_state EXCEPT ![fd] = "HEADER_TO_RECV"]
      /\ read_bytes' = [read_bytes EXCEPT ![fd] = HeaderSize]
      /\ UNCHANGED <<conn, peer, inbox, contributors, to_fetch_changes, files, sent>>
  BY DEF BodySent, sockets, users, clients
<1>2. SocketsShape' /\ Requests'
  BY <1>1 DEF IInv, SocketsShape, Requests
<1>3. /\ read_state' \in [Fd -> ReadStates] /\ read_bytes' \in [Fd -> Nat]
      /\ \A d \in Fd : read_state'[d] = "HEADER_RECVD" => read_state[d] = "HEADER_RECVD"
  BY <1>1 DEF IInv, MonitorShape, ReadStates, HeaderSize
<1>4. Stream'
  <2>1. \A d \in Fd \ {fd} : read_state'[d] = read_state[d] /\ read_bytes'[d] = read_bytes[d]
    BY <1>1 DEF IInv, MonitorShape
  <2>2. read_state'[fd] = "HEADER_TO_RECV" /\ conn[fd] = "logged"
    BY <1>1 DEF IInv, MonitorShape
  <2> QED
    BY <1>1, <2>1, <2>2 DEF IInv, Stream
<1> QED
  BY <1>1, <1>2, <1>3, <1>4

LEMMA SendFileKeepsIInv ==
    ASSUME IInv, NEW fd \in Fd, SendFile(fd)
    PROVE  IInv'
<1> DEFINE kept == changes_buffs[fd]
           len  == EditLen * Len(kept)
<1>1. /\ BodySent(fd) /\ fd \in DOMAIN changes_buffs
      /\ edit_contents(kept)
      /\ set_multicast(contributors \ {fd}, len, BytesSent(fd), StatesSent(fd))
      /\ UNCHANGED changes
      /\ pc = "run" /\ conn[fd] = "logged" /\ write_state[fd] = "HEADER_SENT" /\ msg_type[fd] = EDIT
  BY DEF SendFile, FileToSend, BodyReady, Sending, ToSend, Logged
<1>2. kept \in Seq(Edits)
  BY <1>1 DEF IInv, ChangesShape
<1>3. len \in Nat
  BY <1>2, EditFacts
<1> HIDE DEF kept, len
<1>4. fd \in contributors
  BY <1>1 DEF IInv, Owners
<1>5. /\ SocketsShape' /\ Stream' /\ Requests'
      /\ read_state' \in [Fd -> ReadStates] /\ read_bytes' \in [Fd -> Nat]
      /\ \A d \in Fd : read_state'[d] = "HEADER_RECVD" => read_state[d] = "HEADER_RECVD"
      /\ contributors' = contributors /\ UNCHANGED <<conn, to_fetch_changes, files>>
  BY <1>1, BodySentKeeps
<1>6. /\ BytesSent(fd) \in [Fd -> Nat] /\ StatesSent(fd) \in [Fd -> WriteStates]
      /\ \A d \in Fd \ contributors : StatesSent(fd)[d] = write_state[d]
  BY <1>4 DEF IInv, MonitorShape, BytesSent, StatesSent, WriteStates
<1>7. MonitorShape' /\ Owners'
  BY <1>1, <1>3, <1>5, <1>6, Multicast
<1>8. /\ addedChars' \in Seq(Char) /\ deletedChars' \in Seq(Char)
      /\ ToSet(addedChars) \subseteq ToSet(addedChars')
      /\ ToSet(deletedChars) \subseteq ToSet(deletedChars')
  BY <1>1, <1>2, Applied DEF IInv
<1>9. ChangesShape' /\ TrackersAreContributors'
  BY <1>1, <1>5 DEF IInv, ChangesShape, TrackersAreContributors, changes
<1>10. StoredIsApplied'
  BY <1>1, <1>5, <1>8 DEF IInv, StoredIsApplied, changes
<1>11. NoteShape' /\ SavedIsCurrent'
  BY <1>4, <1>5, <1>8 DEF IInv, NoteShape, SavedIsCurrent
<1> QED
  BY <1>5, <1>7, <1>9, <1>10, <1>11 DEF IInv

LEMMA SendChangesKeepsIInv ==
    ASSUME IInv, NEW fd \in Fd, SendChanges(fd)
    PROVE  IInv'
<1> DEFINE editor == Head(changes_tracker[fd])
           buffs  == BuffsRead(editor)
           rest   == IF Buffer(editor) = <<>> THEN <<>> ELSE Tail(Buffer(editor))
<1>1. /\ ChangesToSend(fd) /\ BodySent(fd) /\ conn[fd] = "logged"
      /\ write_state' = [write_state EXCEPT ![fd] = "MSG_SENT"]
      /\ write_bytes' = [write_bytes EXCEPT ![fd] = 0]
      /\ remove_sent_changes(fd, buffs)
      /\ send_queues' = [send_queues EXCEPT ![fd] = Tail(@)] /\ send_queues[fd] # <<>>
      /\ UNCHANGED <<pc, msg_type, msg_len, addedChars, deletedChars>>
  BY DEF SendChanges, ChangesToSend, BodyReady, Sending, ToSend, Logged,
     StatesSent, BytesSent, note
<1>2. /\ fd \in contributors /\ changes_tracker[fd] \in Seq(Fd) /\ changes_tracker[fd] # <<>>
      /\ editor \in Fd
      /\ buffs \in [DOMAIN buffs -> Seq(Edits)]
      /\ DOMAIN changes_buffs \subseteq DOMAIN buffs
      /\ DOMAIN buffs \subseteq DOMAIN changes_buffs \cup {editor}
      /\ \A d \in DOMAIN buffs :
            ToSet(buffs[d]) = Kept(d)
  BY <1>1, ChangesSent
<1>3. /\ changes_tracker' = [changes_tracker EXCEPT ![fd] = Tail(@)]
      /\ changes_buffs' \in {buffs, Put(buffs, editor, rest), Without(buffs, editor)}
  BY <1>1 DEF remove_sent_changes
<1>4. /\ SocketsShape' /\ Stream' /\ Requests'
      /\ read_state' \in [Fd -> ReadStates] /\ read_bytes' \in [Fd -> Nat]
      /\ \A d \in Fd : read_state'[d] = "HEADER_RECVD" => read_state[d] = "HEADER_RECVD"
      /\ contributors' = contributors /\ UNCHANGED <<conn, to_fetch_changes, files>>
  BY <1>1, BodySentKeeps
<1> HIDE DEF editor, buffs
<1>5. MonitorShape'
  <2>1. send_queues \in [Fd -> Seq(Lengths)] /\ Tail(send_queues[fd]) \in Seq(Lengths)
    BY <1>1 DEF IInv, MonitorShape
  <2> QED
    BY <1>1, <1>4, <2>1 DEF IInv, MonitorShape, WriteStates
<1>6. Owners'
  BY <1>1, <1>4 DEF IInv, Owners, MonitorShape
<1>7. TrackersAreContributors' /\ changes_tracker' \in [contributors -> Seq(Fd)]
  <2>1. changes_tracker \in [contributors -> Seq(Fd)]
    BY DEF IInv, ChangesShape
  <2>2. Tail(changes_tracker[fd]) \in Seq(Fd)
        /\ ToSet(Tail(changes_tracker[fd])) \subseteq ToSet(changes_tracker[fd])
    BY <1>2, ToSetTail
  <2> QED
    BY <1>2, <1>3, <1>4, <2>1, <2>2 DEF IInv, TrackersAreContributors
<1>8. /\ rest \in Seq(Edits)
      /\ (editor \in DOMAIN changes_buffs => ToSet(rest) \subseteq ToSet(changes_buffs[editor]))
      /\ (editor \notin DOMAIN changes_buffs => rest = <<>>)
  <2>1. Buffer(editor) \in Seq(Edits) /\ ToSet(<<>>) = {}
    BY DEF IInv, ChangesShape, Buffer, ToSet
  <2>2. Buffer(editor) # <<>> =>
            /\ Tail(Buffer(editor)) \in Seq(Edits)
            /\ ToSet(Tail(Buffer(editor))) \subseteq ToSet(Buffer(editor))
    BY <2>1, ToSetTail
  <2> QED
    BY <2>1, <2>2 DEF Buffer
<1> HIDE DEF rest
<1>9. /\ changes_buffs' \in [DOMAIN changes_buffs' -> Seq(Edits)]
      /\ DOMAIN changes_buffs' \subseteq DOMAIN changes_buffs \cup {editor}
      /\ \A d \in DOMAIN changes_buffs' :
            ToSet(changes_buffs'[d]) \subseteq Kept(d)
  <2>1. ToSet(<<>>) = {}
    BY DEF ToSet
  <2>2. CASE changes_buffs' = buffs
    BY <1>2, <2>2
  <2>3. CASE changes_buffs' = Put(buffs, editor, rest)
    BY <1>2, <1>8, <2>1, <2>3 DEF Kept, Put
  <2>4. CASE changes_buffs' = Without(buffs, editor)
    BY <1>2, <2>4 DEF Without, Restrict
  <2> QED
    BY <1>3, <2>2, <2>3, <2>4
<1>10. ChangesShape'
  BY <1>4, <1>7, <1>9 DEF IInv, ChangesShape
<1>11. StoredIsApplied'
  BY <1>1, <1>4, <1>9 DEF Kept, IInv, StoredIsApplied
<1>12. NoteShape' /\ SavedIsCurrent'
  BY <1>1, <1>2, <1>4 DEF IInv, NoteShape, SavedIsCurrent
<1> QED
  BY <1>4, <1>5, <1>6, <1>7, <1>10, <1>11, <1>12 DEF IInv

-----------------------------------------------------------------------------
(* The clients.                                                              *)

(* The clients read nothing of the server's state but whether they edit.     *)
LEMMA OnlySockets ==
    ASSUME IInv, UNCHANGED <<pc, conn, monitor, networking, users, changes, files, note>>,
           SocketsShape', Stream', Requests'
    PROVE  IInv'
<1>1. MonitorShape'
  BY DEF IInv, MonitorShape, monitor, networking
<1>2. Owners'
  BY DEF IInv, Owners, monitor, networking, users
<1> QED
  BY <1>1, <1>2, NoteUntouched DEF IInv

(* What a client writes: a header, and a body when the header announces one, *)
(* at the end of the n units that have arrived.                              *)
Written(fd, type, len, edit, n) ==
    /\ \/ type = EDIT /\ edit \in Edits /\ ToSet(edit.add) \subseteq {sent + 1} /\ len # 0
       \/ /\ type = STATEMENT /\ len # 0 /\ fd \notin contributors
          /\ \A i \in 1..n : inbox[fd][i].type # EDIT
       \/ type = LOGIN /\ len = 0
    /\ n = Len(inbox[fd]) /\ n \in Nat
    /\ Len(inbox'[fd]) = (IF len = 0 THEN n + 1 ELSE n + 2)
    /\ \A i \in 1..n : inbox'[fd][i] = inbox[fd][i]
    /\ inbox'[fd][n + 1].part = "header" /\ inbox'[fd][n + 1].type = type
    /\ inbox'[fd][n + 1].len = len
    /\ len # 0 => /\ inbox'[fd][n + 2].part = "body" /\ inbox'[fd][n + 2].type = type
                  /\ inbox'[fd][n + 2].edit = edit
    /\ \A i \in 1..Len(inbox'[fd]) : i \in 1..n \/ i = n + 1 \/ (i = n + 2 /\ len # 0)

LEMMA ClientWritesOneMessage ==
    ASSUME IInv, NEW fd \in Fd, ClientEdits(fd) \/ ClientAsks(fd) \/ ClientKeepsAlive(fd)
    PROVE  /\ conn[fd] = "logged" /\ peer[fd] = "here" /\ sent' = sent + 1
           /\ UNCHANGED <<pc, conn, peer, monitor, networking, users, changes, files, note>>
           /\ inbox' \in [Fd -> Seq(Unit)] /\ \A d \in Fd \ {fd} : inbox'[d] = inbox[d]
           /\ \E type \in {LOGIN, STATEMENT, EDIT}, len \in Nat, edit \in Edits \cup {<<>>} :
                 Written(fd, type, len, edit, Len(inbox[fd]))
<1>1. PICK type \in {LOGIN, STATEMENT, EDIT}, len \in Nat, edit \in Edits \cup {<<>>} :
          /\ ClientWrites(fd, Message(type, len, edit))
          /\ \/ type = EDIT /\ edit \in Edits /\ ToSet(edit.add) \subseteq {sent + 1} /\ len # 0
             \/ /\ type = STATEMENT /\ len # 0 /\ fd \notin contributors
                /\ \A i \in DOMAIN inbox[fd] : inbox[fd][i].type # EDIT
             \/ type = LOGIN /\ len = 0
  <2>1. CASE ClientEdits(fd)
    <3>1. PICK edit \in {Add(sent + 1)}
                         \cup {Del(c) : c \in ToSet(addedChars) \ ToSet(deletedChars)} :
              ClientWrites(fd, Message(EDIT, EditLen, edit))
      BY <2>1 DEF ClientEdits
    <3>2. sent \in 0..MaxMsgs - 1
      BY <3>1, LengthAssumption DEF ClientWrites, IInv, SocketsShape
    <3>3. ToSet(addedChars) \subseteq Char
      BY DEF IInv, NoteShape, ToSet
    <3>4. edit \in Edits
      BY <3>1, <3>2, <3>3, EditFacts
    <3>5. ToSet(edit.add) \subseteq {sent + 1}
      BY <3>1 DEF Add, Del, ToSet
    <3> QED
      BY <3>1, <3>4, <3>5, EditFacts
  <2>2. CASE ClientAsks(fd)
    BY <2>2 DEF ClientAsks
  <2>3. CASE ClientKeepsAlive(fd)
    BY <2>3 DEF ClientKeepsAlive
  <2> QED
    BY <2>1, <2>2, <2>3
<1> DEFINE m == Message(type, len, edit)
           old == inbox[fd]
<1>2. /\ conn[fd] = "logged" /\ peer[fd] = "here"
      /\ inbox' = [inbox EXCEPT ![fd] = @ \o m] /\ sent' = sent + 1
      /\ UNCHANGED <<pc, conn, peer, monitor, networking, users, changes, files, note>>
  BY <1>1 DEF ClientWrites, Logged
<1>3. /\ m \in Seq(Unit) /\ Len(m) = (IF len = 0 THEN 1 ELSE 2)
      /\ m[1] = [part |-> "header", type |-> type, len |-> len, edit |-> <<>>]
      /\ len # 0 => m[2] = [part |-> "body", type |-> type, len |-> len, edit |-> edit]
  BY MessageParts
<1> HIDE DEF m
<1>4. inbox \in [Fd -> Seq(Unit)] /\ old \in Seq(Unit) /\ sent \in Nat
  BY DEF IInv, SocketsShape
<1>5. /\ inbox'[fd] = old \o m /\ \A d \in Fd \ {fd} : inbox'[d] = inbox[d]
      /\ inbox' \in [Fd -> Seq(Unit)]
  BY <1>2, <1>3, <1>4
<1> DEFINE n == Len(old)
<1>6. /\ n \in Nat
      /\ Len(inbox'[fd]) = (IF len = 0 THEN n + 1 ELSE n + 2)
      /\ \A i \in 1..n : inbox'[fd][i] = old[i]
      /\ inbox'[fd][n + 1].part = "header" /\ inbox'[fd][n + 1].type = type
      /\ inbox'[fd][n + 1].len = len
      /\ len # 0 => /\ inbox'[fd][n + 2].part = "body" /\ inbox'[fd][n + 2].type = type
                    /\ inbox'[fd][n + 2].edit = edit
  <2>1. n \in Nat /\ Len(m) \in 1..2 /\ (len # 0 => Len(m) = 2)
    BY <1>3, <1>4
  <2>2. /\ Len(old \o m) = n + Len(m)
        /\ \A i \in 1..n + Len(m) : (old \o m)[i] = IF i <= n THEN old[i] ELSE m[i - n]
    BY <1>3, <1>4, ConcatProperties
  <2> HIDE DEF old, n
  <2>3. \A i \in 1..n : inbox'[fd][i] = old[i]
    BY <1>5, <2>1, <2>2
  <2>4. inbox'[fd][n + 1] = m[1]
    BY <1>5, <2>1, <2>2
  <2>5. ASSUME len # 0 PROVE inbox'[fd][n + 2] = m[2]
    <3> DEFINE k == Len(m)
    <3>1. n \in Nat /\ k = 2
      BY <2>1, <2>5
    <3> HIDE DEF k
    <3>2. n + 2 \in 1..n + k /\ ~(n + 2 <= n) /\ (n + 2) - n = 2
      BY <3>1
    <3> QED
      BY <1>5, <2>2, <3>1, <3>2 DEF k
  <2>6. Len(inbox'[fd]) = (IF len = 0 THEN n + 1 ELSE n + 2)
    BY <1>3, <1>5, <2>1, <2>2
  <2>7. /\ m[1].part = "header" /\ m[1].type = type /\ m[1].len = len
        /\ len # 0 => m[2].part = "body" /\ m[2].type = type /\ m[2].edit = edit
    BY <1>3
  <2> QED
    BY <2>1, <2>3, <2>4, <2>5, <2>6, <2>7
<1> HIDE DEF n
<1>7. \A i \in 1..Len(inbox'[fd]) : i \in 1..n \/ i = n + 1 \/ (i = n + 2 /\ len # 0)
  BY <1>6
<1>8. type = STATEMENT => \A i \in 1..n : old[i].type # EDIT
  BY <1>1, <1>4 DEF LOGIN, STATEMENT, EDIT, n
<1>9. Written(fd, type, len, edit, n)
  BY <1>1, <1>6, <1>7, <1>8 DEF Written, n
<1> QED
  BY <1>2, <1>5, <1>9 DEF n

LEMMA ClientWritesKeepsIInv ==
    ASSUME IInv, NEW fd \in Fd, ClientEdits(fd) \/ ClientAsks(fd) \/ ClientKeepsAlive(fd)
    PROVE  IInv'
<1> DEFINE old == inbox[fd]
<1>1. PICK type \in {LOGIN, STATEMENT, EDIT}, len \in Nat, edit \in Edits \cup {<<>>} :
          Written(fd, type, len, edit, Len(old))
  BY ClientWritesOneMessage
<1> DEFINE n == Len(old)
<1> USE <1>1 DEF Written
<1>2. /\ conn[fd] = "logged" /\ peer[fd] = "here" /\ sent' = sent + 1
      /\ UNCHANGED <<pc, conn, peer, monitor, networking, users, changes, files, note>>
      /\ inbox' \in [Fd -> Seq(Unit)] /\ \A d \in Fd \ {fd} : inbox'[d] = inbox[d]
  BY ClientWritesOneMessage
<1>3. old \in Seq(Unit) /\ SocketsShape'
  BY <1>2 DEF IInv, SocketsShape
<1>4. Stream'
  <2>1. ASSUME NEW i \in 1..Len(inbox'[fd]),
               inbox'[fd][i].part = "header" /\ inbox'[fd][i].len > 0
        PROVE  i < Len(inbox'[fd]) /\ inbox'[fd][i + 1].part = "body"
    <3>1. CASE i \in 1..n
      <4>1. old[i].part = "header" /\ old[i].len > 0
        BY <1>1, <2>1, <3>1
      <4>2. i < n /\ old[i + 1].part = "body"
        BY <1>1, <1>2, <3>1, <4>1 DEF IInv, Stream
      <4>3. i + 1 \in 1..n
        BY <1>1, <3>1, <4>2
      <4> QED
        BY <1>1, <4>2, <4>3
    <3>2. CASE i = n + 1
      BY <1>1, <2>1, <3>2
    <3>3. CASE i = n + 2 /\ len # 0
      BY <1>1, <2>1, <3>3
    <3> QED
      BY <1>1, <3>1, <3>2, <3>3
  <2>2. read_state[fd] = "HEADER_RECVD" /\ read_bytes[fd] > 0 =>
            inbox'[fd] # <<>> /\ inbox'[fd][1].part = "body"
    <3> SUFFICES ASSUME read_state[fd] = "HEADER_RECVD", read_bytes[fd] > 0
                 PROVE  inbox'[fd] # <<>> /\ inbox'[fd][1].part = "body"
      OBVIOUS
    <3>1. old # <<>> /\ old[1].part = "body"
      BY <1>2 DEF IInv, Stream
    <3>2. 1 \in 1..n
      BY <1>1, <1>3, <3>1
    <3>3. inbox'[fd][1].part = "body" /\ Len(inbox'[fd]) # 0
      BY <1>1, <3>1, <3>2
    <3> QED
      BY <3>3
  <2> QED
    BY <1>2, <2>1, <2>2 DEF IInv, Stream, monitor
<1>5. Requests'
  <2>1. ASSUME NEW i \in 1..Len(inbox'[fd]), inbox'[fd][i].part = "body"
        PROVE  \/ inbox'[fd][i].type = EDIT /\ inbox'[fd][i].edit \in Edits
               \/ inbox'[fd][i].type = STATEMENT
    <3>1. CASE i \in 1..n
      BY <1>1, <2>1, <3>1 DEF IInv, Requests
    <3>2. CASE i = n + 1
      BY <1>1, <2>1, <3>2
    <3>3. CASE i = n + 2 /\ len # 0
      BY <1>1, <3>3
    <3> QED
      BY <1>1, <3>1, <3>2, <3>3
  <2>2. ASSUME NEW i \in 1..Len(inbox'[fd]), inbox'[fd][i].type = STATEMENT
        PROVE  fd \notin contributors /\ \A j \in 1..i : inbox'[fd][j].type # EDIT
    <3>1. CASE i \in 1..n
      <4>1. fd \notin contributors /\ \A j \in 1..i : old[j].type # EDIT
        BY <1>1, <2>2, <3>1 DEF IInv, Requests
      <4>2. \A j \in 1..i : j \in 1..n
        BY <1>1, <3>1
      <4> QED
        BY <1>1, <4>1, <4>2
    <3>2. CASE i \notin 1..n
      <4>1. type = STATEMENT
        BY <1>1, <2>2, <3>2
      <4>2. fd \notin contributors /\ \A j \in 1..n : old[j].type # EDIT
        BY <1>1, <4>1 DEF LOGIN, STATEMENT, EDIT
      <4>3. ASSUME NEW j \in 1..i
            PROVE  inbox'[fd][j].type # EDIT
        <5>1. CASE j \in 1..n
          BY <1>1, <4>2, <5>1
        <5>2. CASE j = n + 1
          BY <1>1, <4>1, <5>2 DEF STATEMENT, EDIT
        <5>3. CASE j = n + 2 /\ len # 0
          BY <1>1, <4>1, <5>3 DEF STATEMENT, EDIT
        <5> QED
          BY <1>1, <3>2, <5>1, <5>2, <5>3
      <4> QED
        BY <4>2, <4>3
    <3> QED
      BY <3>1, <3>2
  <2>3. contributors' = contributors
    BY <1>2 DEF users
  <2>4. \A d \in Fd \ {fd} : inbox'[d] = inbox[d] /\ Len(inbox'[d]) = Len(inbox[d])
    BY <1>2
  <2> HIDE DEF old
  <2>5. ASSUME NEW d \in Fd, NEW i \in 1..Len(inbox'[d])
        PROVE  /\ inbox'[d][i].part = "body" =>
                     \/ inbox'[d][i].type = EDIT /\ inbox'[d][i].edit \in Edits
                     \/ inbox'[d][i].type = STATEMENT
               /\ inbox'[d][i].type = STATEMENT =>
                     d \notin contributors /\ \A j \in 1..i : inbox'[d][j].type # EDIT
    <3>1. CASE d = fd
      BY <2>1, <2>2, <3>1
    <3>2. CASE d # fd
      BY <2>4, <3>2 DEF IInv, Requests
    <3> QED
      BY <3>1, <3>2
  <2> QED
    BY <2>3, <2>5 DEF Requests
<1> QED
  BY <1>2, <1>3, <1>4, <1>5, OnlySockets

LEMMA ClientLeavesKeepsIInv ==
    ASSUME IInv, NEW fd \in Fd, ClientLeaves(fd)
    PROVE  IInv'
<1>1. /\ conn[fd] = "logged" /\ peer[fd] = "here"
      /\ peer' = [peer EXCEPT ![fd] = "left"]
      /\ \/ UNCHANGED inbox
         \/ /\ inbox[fd] # <<>> /\ Last(inbox[fd]).part = "body"
            /\ inbox' = [inbox EXCEPT ![fd] = Front(@)]
      /\ UNCHANGED <<pc, conn, monitor, networking, users, changes, files, note, sent>>
  BY DEF ClientLeaves, Logged, Lose, clients
<1>2. inbox \in [Fd -> Seq(Unit)] /\ inbox[fd] \in Seq(Unit)
  BY DEF IInv, SocketsShape
<1>3. peer'[fd] = "left" /\ \A d \in Fd \ {fd} : peer'[d] = peer[d]
  BY <1>1 DEF IInv, SocketsShape
<1>4. CASE UNCHANGED inbox
  <2>1. SocketsShape' /\ Requests'
    BY <1>1, <1>4 DEF IInv, SocketsShape, Requests, users
  <2>2. Stream'
    BY <1>1, <1>3, <1>4 DEF IInv, Stream, monitor
  <2> QED
    BY <1>1, <2>1, <2>2, OnlySockets
<1>5. CASE /\ inbox[fd] # <<>> /\ Last(inbox[fd]).part = "body"
           /\ inbox' = [inbox EXCEPT ![fd] = Front(@)]
  <2> DEFINE old == inbox[fd]
             n   == Len(old)
  <2>1. n \in Nat \ {0} /\ Front(old) = SubSeq(old, 1, n - 1) /\ old[n].part = "body"
    BY <1>2, <1>5 DEF Last, Front
  <2>2. /\ Front(old) \in Seq(Unit) /\ Len(Front(old)) = n - 1
        /\ \A i \in 1..n - 1 : Front(old)[i] = old[i]
    <3>1. \A i \in 1..n - 1 : old[i] \in Unit
      BY <1>2, <2>1
    <3>2. /\ SubSeq(old, 1, n - 1) \in Seq(Unit)
          /\ Len(SubSeq(old, 1, n - 1)) = IF 1 <= n - 1 THEN (n - 1) - 1 + 1 ELSE 0
          /\ \A i \in 1..(n - 1) - 1 + 1 : SubSeq(old, 1, n - 1)[i] = old[1 + i - 1]
      BY <2>1, <3>1, SubSeqProperties
    <3> QED
      BY <2>1, <3>2
  <2>3. /\ inbox'[fd] = Front(old) /\ \A d \in Fd \ {fd} : inbox'[d] = inbox[d]
        /\ inbox' \in [Fd -> Seq(Unit)]
    BY <1>2, <1>5, <2>2
  <2>4. SocketsShape'
    BY <1>1, <2>3 DEF IInv, SocketsShape
  <2>5. ASSUME NEW i \in 1..n - 1
        PROVE  i \in 1..n /\ inbox'[fd][i] = old[i]
    BY <2>1, <2>2, <2>3
  <2>6. Len(inbox'[fd]) = n - 1
    BY <2>2, <2>3
  <2> HIDE DEF n
  <2>7. Stream'
    <3>1. ASSUME NEW i \in 1..n - 1,
                 inbox'[fd][i].part = "header" /\ inbox'[fd][i].len > 0, i < n - 1
          PROVE  inbox'[fd][i + 1].part = "body"
      <4>1. i \in 1..n /\ i < n /\ i + 1 \in 1..n - 1
        BY <2>1, <3>1
      <4>2. old[i].part = "header" /\ old[i].len > 0 /\ inbox'[fd][i + 1] = old[i + 1]
        BY <2>5, <3>1, <4>1
      <4> QED
        BY <4>1, <4>2 DEF IInv, Stream, n
    <3>2. read_state[fd] = "HEADER_RECVD" /\ read_bytes[fd] > 0 /\ inbox'[fd] # <<>> =>
              inbox'[fd][1].part = "body"
      <4>1. inbox'[fd] # <<>> => 1 \in 1..n - 1
        BY <2>1, <2>2, <2>3
      <4> QED
        BY <1>5, <2>5, <4>1 DEF IInv, Stream
    <3> QED
      BY <1>1, <1>3, <2>3, <2>6, <3>1, <3>2 DEF IInv, Stream, monitor
  <2>8. Requests'
    <3>1. ASSUME NEW i \in 1..n - 1
          PROVE  i \in 1..n /\ \A j \in 1..i : j \in 1..n - 1
      BY <2>1
    <3>2. ASSUME NEW i \in 1..Len(inbox'[fd])
          PROVE  /\ inbox'[fd][i].part = "body" =>
                       \/ inbox'[fd][i].type = EDIT /\ inbox'[fd][i].edit \in Edits
                       \/ inbox'[fd][i].type = STATEMENT
                 /\ inbox'[fd][i].type = STATEMENT =>
                       fd \notin contributors /\ \A j \in 1..i : inbox'[fd][j].type # EDIT
      <4>1. i \in 1..n /\ inbox'[fd][i] = old[i] /\ \A j \in 1..i : inbox'[fd][j] = old[j]
        BY <2>5, <2>6, <3>1
      <4> QED
        BY <4>1 DEF IInv, Requests, n
    <3>3. contributors' = contributors
      BY <1>1 DEF users
    <3>4. ASSUME NEW d \in Fd \ {fd}, NEW i \in 1..Len(inbox'[d])
          PROVE  /\ inbox'[d][i].part = "body" =>
                       \/ inbox'[d][i].type = EDIT /\ inbox'[d][i].edit \in Edits
                       \/ inbox'[d][i].type = STATEMENT
                 /\ inbox'[d][i].type = STATEMENT =>
                       d \notin contributors /\ \A j \in 1..i : inbox'[d][j].type # EDIT
      BY <2>3 DEF IInv, Requests
    <3> QED
      BY <3>2, <3>3, <3>4 DEF Requests
  <2> QED
    BY <1>1, <2>4, <2>7, <2>8, OnlySockets
<1> QED
  BY <1>1, <1>4, <1>5

LEMMA ClientResetsKeepsIInv ==
    ASSUME IInv, NEW fd \in Fd, ClientResets(fd)
    PROVE  IInv'
<1>1. /\ peer' = [peer EXCEPT ![fd] = "reset"] /\ inbox' = [inbox EXCEPT ![fd] = <<>>]
      /\ UNCHANGED <<pc, conn, monitor, networking, users, changes, files, note, sent>>
  BY DEF ClientResets, Lose, clients
<1>2. SocketsShape'
  BY <1>1 DEF IInv, SocketsShape
<1>3. Stream'
  BY <1>1 DEF IInv, Stream, SocketsShape, monitor
<1>4. Requests'
  BY <1>1 DEF IInv, Requests, SocketsShape, users
<1> QED
  BY <1>1, <1>2, <1>3, <1>4, OnlySockets

-----------------------------------------------------------------------------
(* The theorems.                                                             *)

LEMMA NextKeepsIInv == IInv /\ [Next]_vars => IInv'
<1> SUFFICES ASSUME IInv, [Next]_vars PROVE IInv'
  OBVIOUS
<1>1. CASE SelectFails
  BY <1>1, EndsKeepsIInv DEF SelectFails
<1>2. ASSUME NEW fd \in Fd, Join(fd) \/ LoginDone(fd) \/ LoginAborts(fd)
      PROVE  IInv'
  BY <1>2, JoinKeepsIInv, LoginDoneKeepsIInv, EndsKeepsIInv DEF LoginAborts
<1>3. ASSUME NEW fd \in Fd, Receive(fd)
      PROVE  IInv'
  <2>1. CASE HeaderUnreadable(fd)
    BY <2>1, EndsKeepsIInv DEF HeaderUnreadable
  <2> QED
    BY <1>3, <2>1, ClientGoneKeepsIInv, ClosedKeepsIInv, RecvHeaderKeepsIInv,
       RecvOtherKeepsIInv, RecvEditKeepsIInv, RecvEditToFetchKeepsIInv DEF Receive
<1>4. ASSUME NEW fd \in Fd, Send(fd)
      PROVE  IInv'
  <2>1. CASE SendFails(fd) \/ HeaderTooShort(fd) \/ BodyTooShort(fd) \/ NothingKept(fd)
    BY <2>1, EndsKeepsIInv DEF SendFails, HeaderTooShort, BodyTooShort, NothingKept
  <2> QED
    BY <1>4, <2>1, SendHeaderKeepsIInv, SendPartKeepsIInv, SendFileKeepsIInv,
       SendChangesKeepsIInv DEF Send
<1>5. ASSUME NEW fd \in Fd, Client(fd)
      PROVE  IInv'
  BY <1>5, ClientWritesKeepsIInv, ClientLeavesKeepsIInv, ClientResetsKeepsIInv DEF Client
<1>6. CASE UNCHANGED vars
  <2>1. UNCHANGED <<pc, conn, monitor, networking, users, changes, files, note>>
    BY <1>6 DEF vars, sockets
  <2>2. SocketsShape' /\ Stream' /\ Requests'
    BY <1>6, SocketsUntouched DEF vars, monitor, clients
  <2> QED
    BY <2>1, <2>2, OnlySockets
<1> QED
  BY <1>1, <1>2, <1>3, <1>4, <1>5, <1>6 DEF Next

(* In every state the books fit each other and what the clients have under   *)
(* way: what a read state waits for is what comes, bodies are stored for     *)
(* editors only (run and the two handlers of a logged client).               *)
THEOREM Inductive == Spec => []IInv
BY InitIInv, NextKeepsIInv, PTL DEF Spec

(* Whichever way and order the editors leave, the file holds the note as it  *)
(* is when the last of them has gone (remove_contributor, save_to_file).     *)
THEOREM Saved == Spec => []SavedIsCurrent
BY Inductive, PTL DEF IInv

(* Changes are kept for exactly the clients registered as editing, and none  *)
(* for the one they come from (keep_track, remove_contributor).              *)
THEOREM Trackers == Spec => []TrackersAreContributors
BY Inductive, PTL DEF IInv

(* What an editor of the note sent for the others is part of the note, up to *)
(* the step at which the server goes down (store_changes, applyChanges).     *)
THEOREM Stores == Spec => []StoredIsApplied
BY Inductive, PTL DEF IInv

-----------------------------------------------------------------------------
(* A note with one editor at a time.                                         *)

Adds(unit) == IF unit.part = "body" /\ unit.type = EDIT THEN ToSet(unit.edit.add) ELSE {}

(* No character under way is in the note, or under way twice.                *)
Fresh ==
    /\ \A c \in ToSet(addedChars) : c <= sent
    /\ IsInjective(addedChars)
    /\ \A fd \in Fd : \A i \in 1..Len(inbox[fd]) : \A c \in Adds(inbox[fd][i]) :
          /\ c \in Nat /\ c <= sent /\ c \notin ToSet(addedChars)
          /\ \A other \in Fd : \A j \in 1..Len(inbox[other]) :
                c \in Adds(inbox[other][j]) => other = fd /\ j = i

(* Nobody is to be sent anything: the one editor is who it would come from.  *)
Quiet ==
    /\ \A fd, other \in contributors : fd = other
    /\ \A fd \in Fd : conn[fd] = "none" => write_state[fd] = "NONE"
    /\ \A fd \in Fd : send_queues[fd] = <<>> /\ write_bytes[fd] <= HeaderSize
    /\ pc \in {"run", "aborted"}

(* What the server aborts on.                                                *)
Explained ==
    pc = "aborted" =>
        \/ deletedChars # <<>>
        \/ \E fd \in Fd : conn[fd] = "logged" /\ inbox[fd] # <<>> /\ ~Readable(fd)

Alone == to_fetch_changes = {} => Fresh /\ Quiet /\ Explained

LEMMA FreshUnit ==
    ASSUME Fresh, NEW fd \in Fd, NEW i \in 1..Len(inbox[fd]), NEW c \in Adds(inbox[fd][i])
    PROVE  /\ c \in Nat /\ c <= sent /\ c \notin ToSet(addedChars)
           /\ \A other \in Fd : \A j \in 1..Len(inbox[other]) :
                 c \in Adds(inbox[other][j]) => other = fd /\ j = i
BY DEF Fresh

LEMMA InitAlone == Init => Alone
BY DEF Init, Alone, Fresh, Quiet, Explained, ToSet, IsInjective, HeaderSize

(* What is under way after the step was before it, here or one place later.  *)
LEMMA FreshFewer ==
    ASSUME Fresh, NEW k \in [Fd -> {0, 1}],
           UNCHANGED <<sent, addedChars>>,
           \A fd \in Fd : \A i \in 1..Len(inbox'[fd]) :
              /\ i \in Nat
              /\ i + k[fd] \in 1..Len(inbox[fd]) /\ inbox'[fd][i] = inbox[fd][i + k[fd]]
    PROVE  Fresh'
<1> SUFFICES ASSUME NEW fd \in Fd, NEW i \in 1..Len(inbox'[fd]), NEW c \in Adds(inbox'[fd][i])
             PROVE  /\ c \in Nat /\ c <= sent /\ c \notin ToSet(addedChars)
                    /\ \A other \in Fd : \A j \in 1..Len(inbox'[other]) :
                          c \in Adds(inbox'[other][j]) => other = fd /\ j = i
  BY DEF Fresh, Adds
<1>1. PICK here \in 1..Len(inbox[fd]) : here = i + k[fd] /\ inbox'[fd][i] = inbox[fd][here]
  OBVIOUS
<1>2. c \in Adds(inbox[fd][here])
  BY <1>1
<1>3. /\ c \in Nat /\ c <= sent /\ c \notin ToSet(addedChars)
      /\ \A other \in Fd : \A j \in 1..Len(inbox[other]) :
            c \in Adds(inbox[other][j]) => other = fd /\ j = here
  BY <1>2, FreshUnit
<1>4. ASSUME NEW other \in Fd, NEW j \in 1..Len(inbox'[other]), c \in Adds(inbox'[other][j])
      PROVE  other = fd /\ j = i
  <2>1. PICK there \in 1..Len(inbox[other]) :
            there = j + k[other] /\ inbox'[other][j] = inbox[other][there]
    OBVIOUS
  <2>2. c \in Adds(inbox[other][there])
    BY <1>4, <2>1
  <2>3. other = fd /\ there = here
    BY <1>3, <2>2
  <2>4. i \in Nat /\ j \in Nat /\ k[fd] \in {0, 1}
    OBVIOUS
  <2> QED
    BY <1>1, <2>1, <2>3, <2>4
<1> QED
  BY <1>3, <1>4

(* One edit applied: the character it adds was under way and is no more.     *)
LEMMA FreshApplied ==
    ASSUME IInv, Fresh, NEW fd \in Fd, inbox[fd] # <<>>,
           Head(inbox[fd]).edit \in Edits,
           Head(inbox[fd]).part = "body", Head(inbox[fd]).type = EDIT,
           inbox' = [inbox EXCEPT ![fd] = Tail(@)], contributors' = contributors,
           addedChars' = addedChars \o Head(inbox[fd]).edit.add, sent' = sent
    PROVE  Fresh'
<1> DEFINE add == Head(inbox[fd]).edit.add
<1>1. /\ Head(inbox[fd]) = inbox[fd][1] /\ Len(inbox[fd]) \in Nat \ {0}
      /\ Len(inbox'[fd]) = Len(inbox[fd]) - 1
      /\ \A i \in 1..Len(inbox'[fd]) : inbox'[fd][i] = inbox[fd][i + 1]
      /\ \A d \in Fd \ {fd} : inbox'[d] = inbox[d]
  BY UnitTaken
<1>2. Adds(inbox[fd][1]) = ToSet(add)
  BY <1>1 DEF Adds
<1>3. add = <<>> \/ \E c \in Char : add = <<c>>
  BY DEF Edits, Add, Del
<1>4. add \in Seq(Char) /\ addedChars \in Seq(Char)
  BY EditFacts DEF IInv, NoteShape
<1> HIDE DEF add
<1>5. ToSet(addedChars') = ToSet(addedChars) \cup ToSet(add)
  BY <1>4, ToSetConcat DEF add
<1>6. 1 \in 1..Len(inbox[fd])
  BY <1>1
<1>7. \A c \in ToSet(add) :
          /\ c \in Nat /\ c <= sent /\ c \notin ToSet(addedChars)
          /\ \A other \in Fd : \A j \in 1..Len(inbox[other]) :
                c \in Adds(inbox[other][j]) => other = fd /\ j = 1
  <2> TAKE c \in ToSet(add)
  <2>1. PICK first \in 1..Len(inbox[fd]) : first = 1
    BY <1>6
  <2>2. c \in Adds(inbox[fd][first])
    BY <1>2, <2>1 DEF add
  <2>3. /\ c \in Nat /\ c <= sent /\ c \notin ToSet(addedChars)
        /\ \A other \in Fd : \A j \in 1..Len(inbox[other]) :
              c \in Adds(inbox[other][j]) => other = fd /\ j = first
    BY <2>2, FreshUnit
  <2> QED
    BY <2>1, <2>3
<1>8. \A c \in ToSet(addedChars') : c <= sent'
  BY <1>5, <1>7 DEF Fresh
<1>9. IsInjective(addedChars')
  <2>1. CASE add = <<>>
    <3>1. addedChars' = addedChars
      BY <1>4, <2>1 DEF add
    <3> QED
      BY <3>1 DEF Fresh
  <2>2. ASSUME NEW c \in Char, add = <<c>> PROVE IsInjective(addedChars')
    <3> DEFINE n == Len(addedChars)
    <3>1. c \notin ToSet(addedChars)
      BY <1>7, <2>2 DEF ToSet
    <3>2. /\ n \in Nat /\ DOMAIN addedChars = 1..n /\ DOMAIN addedChars' = 1..n + 1
          /\ \A i \in 1..n : addedChars'[i] = addedChars[i]
          /\ addedChars'[n + 1] = c
      <4>1. <<c>> \in Seq(Char) /\ addedChars' = addedChars \o add
        BY DEF add
      <4>1a. addedChars' = addedChars \o <<c>>
        BY <2>2, <4>1
      <4>2. /\ addedChars \o <<c>> \in Seq(Char)
            /\ Len(addedChars \o <<c>>) = n + 1
            /\ \A i \in 1..n + 1 :
                  (addedChars \o <<c>>)[i] = IF i <= n THEN addedChars[i] ELSE <<c>>[i - n]
        BY <1>4, <4>1, ConcatProperties
      <4>3. n \in Nat /\ DOMAIN addedChars = 1..n
        BY <1>4
      <4> HIDE DEF n
      <4>4. (n + 1) - n = 1 /\ n + 1 \in 1..n + 1 /\ \A i \in 1..n : i \in 1..n + 1 /\ i <= n
        BY <4>3
      <4>5. \A i \in 1..n : addedChars'[i] = addedChars[i]
        BY <4>1a, <4>2, <4>4
      <4>6. addedChars'[n + 1] = c
        <5>1. ~(n + 1 <= n)
          BY <4>3
        <5>2. (addedChars \o <<c>>)[n + 1] =
                  IF n + 1 <= n THEN addedChars[n + 1] ELSE <<c>>[(n + 1) - n]
          BY <4>2, <4>4
        <5>3. (addedChars \o <<c>>)[n + 1] = <<c>>[1]
          BY <4>4, <5>1, <5>2
        <5> QED
          BY <4>1a, <5>3
      <4> QED
        BY <4>1a, <4>2, <4>3, <4>5, <4>6
    <3>3. \A i \in 1..n : addedChars[i] # c
      BY <3>1, <3>2 DEF ToSet
    <3> HIDE DEF n
    <3>4. \A i, j \in 1..n : addedChars[i] = addedChars[j] => i = j
      BY <3>2 DEF Fresh, IsInjective
    <3>5. \A i \in 1..n + 1 : i \in 1..n \/ i = n + 1
      BY <3>2
    <3>6. \A i, j \in 1..n + 1 : addedChars'[i] = addedChars'[j] => i = j
      BY <3>2, <3>3, <3>4, <3>5
    <3> QED
      BY <3>2, <3>6 DEF IsInjective
  <2> QED
    BY <1>3, <2>1, <2>2
<1>10. ASSUME NEW d \in Fd, NEW i \in 1..Len(inbox'[d]), NEW c \in Adds(inbox'[d][i])
       PROVE  /\ c \in Nat /\ c <= sent /\ c \notin ToSet(addedChars')
              /\ \A other \in Fd : \A j \in 1..Len(inbox'[other]) :
                    c \in Adds(inbox'[other][j]) => other = d /\ j = i
  <2> DEFINE k == [e \in Fd |-> IF e = fd THEN 1 ELSE 0]
  <2>1. ASSUME NEW e \in Fd, NEW j \in 1..Len(inbox'[e])
        PROVE  j \in Nat /\ j + k[e] \in 1..Len(inbox[e]) /\ inbox'[e][j] = inbox[e][j + k[e]]
    <3>1. CASE e = fd
      BY <1>1, <3>1
    <3>2. CASE e # fd
      BY <1>1, <3>2
    <3> QED
      BY <3>1, <3>2
  <2>1a. k \in [Fd -> {0, 1}] /\ (k[d] = 1 => d = fd) /\ k[fd] = 1
    OBVIOUS
  <2> HIDE DEF k
  <2>2. PICK here \in 1..Len(inbox[d]) : here = i + k[d] /\ c \in Adds(inbox[d][here])
    BY <2>1
  <2>3. /\ c \in Nat /\ c <= sent /\ c \notin ToSet(addedChars)
        /\ \A other \in Fd : \A j \in 1..Len(inbox[other]) :
              c \in Adds(inbox[other][j]) => other = d /\ j = here
    <3>1. c \in Adds(inbox[d][here])
      BY <2>2
    <3> QED
      BY <3>1, FreshUnit
  <2>4. c \notin ToSet(add)
    <3> SUFFICES ASSUME c \in ToSet(add) PROVE FALSE
      OBVIOUS
    <3>1. d = fd /\ i + k[d] = 1
      BY <1>7, <2>2
    <3> QED
      BY <2>1, <2>1a, <3>1
  <2>5. ASSUME NEW other \in Fd, NEW j \in 1..Len(inbox'[other]), c \in Adds(inbox'[other][j])
        PROVE  other = d /\ j = i
    <3>1. PICK there \in 1..Len(inbox[other]) :
              there = j + k[other] /\ c \in Adds(inbox[other][there])
      BY <2>1, <2>5
    <3>2. other = d /\ there = here
      BY <2>3, <3>1
    <3> QED
      BY <2>1, <2>1a, <2>2, <3>1, <3>2
  <2> QED
    BY <1>5, <2>3, <2>4, <2>5
<1> QED
  BY <1>8, <1>9, <1>10 DEF Fresh, Adds

(* A new character is the client's next number.                              *)
LEMMA FreshWritten ==
    ASSUME IInv, Fresh, NEW fd \in Fd, ClientEdits(fd) \/ ClientAsks(fd) \/ ClientKeepsAlive(fd)
    PROVE  Fresh'
<1>1. PICK type \in {LOGIN, STATEMENT, EDIT}, len \in Nat, edit \in Edits \cup {<<>>} :
          Written(fd, type, len, edit, Len(inbox[fd]))
  BY ClientWritesOneMessage
<1>2. /\ sent' = sent + 1 /\ addedChars' = addedChars
      /\ \A d \in Fd \ {fd} : inbox'[d] = inbox[d]
  BY ClientWritesOneMessage DEF note
<1>3. sent \in Nat /\ addedChars \in Seq(Char) /\ Char \subseteq Nat
  BY LengthAssumption DEF IInv, SocketsShape, NoteShape, Char
<1>4. ToSet(addedChars) \subseteq Nat
  <2>1. \A i \in DOMAIN addedChars : addedChars[i] \in Char
    BY <1>3
  <2> QED
    BY <1>3, <2>1 DEF ToSet
<1>5. ASSUME NEW d \in Fd, NEW i \in 1..Len(inbox'[d])
      PROVE  \/ i \in 1..Len(inbox[d]) /\ inbox'[d][i] = inbox[d][i]
             \/ d = fd /\ i = Len(inbox'[fd]) /\ Adds(inbox'[fd][i]) \subseteq {sent + 1}
             \/ Adds(inbox'[d][i]) = {}
  <2> DEFINE n == Len(inbox[fd])
  <2>1. CASE d # fd
    BY <1>2, <2>1
  <2>2. CASE d = fd /\ i \in 1..n
    BY <1>1, <2>2 DEF Written
  <2>3. CASE d = fd /\ i = n + 1
    BY <1>1, <2>3 DEF Written, Adds
  <2>4. CASE d = fd /\ i = n + 2 /\ len # 0
    BY <1>1, <2>4 DEF Written, Adds, EDIT, STATEMENT, LOGIN
  <2> QED
    BY <1>1, <2>1, <2>2, <2>3, <2>4 DEF Written
<1>6. ASSUME NEW d \in Fd, NEW i \in 1..Len(inbox[d]), NEW c \in Adds(inbox[d][i])
      PROVE  c \in Nat /\ c <= sent /\ c # sent + 1
  <2>1. c \in Nat /\ c <= sent
    BY FreshUnit
  <2> QED
    BY <1>3, <2>1
<1>7. ASSUME NEW d \in Fd, NEW i \in 1..Len(inbox'[d]), NEW c \in Adds(inbox'[d][i])
      PROVE  /\ c \in Nat /\ c <= sent + 1 /\ c \notin ToSet(addedChars)
             /\ \A other \in Fd : \A j \in 1..Len(inbox'[other]) :
                   c \in Adds(inbox'[other][j]) => other = d /\ j = i
  <2>1. CASE i \in 1..Len(inbox[d]) /\ inbox'[d][i] = inbox[d][i]
    <3>1. c \in Adds(inbox[d][i])
      BY <2>1
    <3>2. c \in Nat /\ c <= sent /\ c # sent + 1 /\ c \notin ToSet(addedChars)
      BY <1>6, <2>1, <3>1 DEF Fresh
    <3>3. ASSUME NEW other \in Fd, NEW j \in 1..Len(inbox'[other]), c \in Adds(inbox'[other][j])
          PROVE  other = d /\ j = i
      <4>1. j \in 1..Len(inbox[other]) /\ inbox'[other][j] = inbox[other][j]
        BY <1>5, <3>2, <3>3
      <4> QED
        BY <2>1, <3>1, <3>3, <4>1 DEF Fresh
    <3> QED
      BY <1>3, <3>2, <3>3
  <2>2. CASE d = fd /\ i = Len(inbox'[fd]) /\ Adds(inbox'[fd][i]) \subseteq {sent + 1}
    <3>1. c = sent + 1
      BY <2>2
    <3>2. c \notin ToSet(addedChars)
      BY <1>3, <1>4, <3>1 DEF Fresh
    <3>3. ASSUME NEW other \in Fd, NEW j \in 1..Len(inbox'[other]), c \in Adds(inbox'[other][j])
          PROVE  other = d /\ j = i
      BY <1>5, <1>6, <2>2, <3>1, <3>3
    <3> QED
      BY <1>3, <3>1, <3>2, <3>3
  <2> QED
    BY <1>5, <2>1, <2>2
<1>8. \A c \in ToSet(addedChars) : c <= sent + 1
  BY <1>3, <1>4 DEF Fresh
<1> QED
  BY <1>2, <1>7, <1>8 DEF Fresh, Adds

LEMMA FreshSame ==
    ASSUME Fresh, UNCHANGED <<inbox, sent, addedChars>>
    PROVE  Fresh'
<1>1. inbox' = inbox /\ sent' = sent /\ addedChars' = addedChars
  OBVIOUS
<1> QED
  BY <1>1 DEF Fresh

(* The units that have arrived, after fd's have been thrown away.            *)
LEMMA FreshEmptied ==
    ASSUME IInv, Fresh, NEW fd \in Fd, inbox' = [inbox EXCEPT ![fd] = <<>>],
           UNCHANGED <<sent, addedChars>>
    PROVE  Fresh'
<1> DEFINE k == [d \in Fd |-> 0]
<1>1. inbox \in [Fd -> Seq(Unit)]
  BY DEF IInv, SocketsShape
<1>2. k \in [Fd -> {0, 1}]
  OBVIOUS
<1>3. ASSUME NEW d \in Fd, NEW i \in 1..Len(inbox'[d])
      PROVE  i \in Nat /\ i + k[d] \in 1..Len(inbox[d]) /\ inbox'[d][i] = inbox[d][i + k[d]]
  <2>1. d # fd /\ inbox'[d] = inbox[d] /\ Len(inbox[d]) \in Nat
    BY <1>1
  <2>2. i \in 1..Len(inbox[d]) /\ i \in Nat /\ k[d] = 0
    BY <2>1
  <2>3. i + k[d] = i
    BY <2>2
  <2> QED
    BY <2>1, <2>2, <2>3
<1> HIDE DEF k
<1> QED
  BY <1>2, <1>3, FreshFewer

(* ... and after one unit has been taken.                                    *)
LEMMA FreshTaken ==
    ASSUME IInv, Fresh, NEW fd \in Fd, inbox[fd] # <<>>, inbox' = [inbox EXCEPT ![fd] = Tail(@)],
           contributors' # contributors =>
               contributors' = contributors \cup {fd} /\ Head(inbox[fd]).type = EDIT,
           UNCHANGED <<sent, addedChars>>
    PROVE  Fresh'
<1> DEFINE k == [d \in Fd |-> IF d = fd THEN 1 ELSE 0]
<1>1. /\ Len(inbox[fd]) \in Nat \ {0} /\ Len(inbox'[fd]) = Len(inbox[fd]) - 1
      /\ \A i \in 1..Len(inbox'[fd]) : inbox'[fd][i] = inbox[fd][i + 1]
      /\ \A d \in Fd \ {fd} : inbox'[d] = inbox[d]
  BY UnitTaken
<1>2. k \in [Fd -> {0, 1}]
  OBVIOUS
<1>3. ASSUME NEW d \in Fd, NEW i \in 1..Len(inbox'[d])
      PROVE  i \in Nat /\ i + k[d] \in 1..Len(inbox[d]) /\ inbox'[d][i] = inbox[d][i + k[d]]
  <2>1. CASE d = fd
    BY <1>1, <2>1
  <2>2. CASE d # fd
    BY <1>1, <2>2
  <2> QED
    BY <2>1, <2>2
<1> HIDE DEF k
<1> QED
  BY <1>2, <1>3, FreshFewer

LEMMA FreshLeft ==
    ASSUME IInv, Fresh, NEW fd \in Fd, inbox[fd] # <<>>, inbox' = [inbox EXCEPT ![fd] = Front(@)],
           UNCHANGED <<sent, addedChars>>
    PROVE  Fresh'
<1> DEFINE k == [d \in Fd |-> 0]
           n == Len(inbox[fd])
<1>1. inbox \in [Fd -> Seq(Unit)] /\ inbox[fd] \in Seq(Unit) /\ n \in Nat \ {0}
  BY DEF IInv, SocketsShape
<1>2. k \in [Fd -> {0, 1}]
  OBVIOUS
<1>3. inbox'[fd] = SubSeq(inbox[fd], 1, n - 1) /\ \A d \in Fd \ {fd} : inbox'[d] = inbox[d]
  BY <1>1 DEF Front
<1>4. /\ Len(inbox'[fd]) = n - 1
      /\ \A i \in 1..n - 1 : inbox'[fd][i] = inbox[fd][i]
  <2>1. \A i \in 1..n - 1 : inbox[fd][i] \in Unit
    BY <1>1
  <2>2. /\ Len(SubSeq(inbox[fd], 1, n - 1)) = IF 1 <= n - 1 THEN (n - 1) - 1 + 1 ELSE 0
        /\ \A i \in 1..(n - 1) - 1 + 1 : SubSeq(inbox[fd], 1, n - 1)[i] = inbox[fd][1 + i - 1]
    BY <1>1, <2>1, SubSeqProperties
  <2> QED
    BY <1>1, <1>3, <2>2
<1>5. ASSUME NEW d \in Fd, NEW i \in 1..Len(inbox'[d])
      PROVE  i \in Nat /\ i + k[d] \in 1..Len(inbox[d]) /\ inbox'[d][i] = inbox[d][i + k[d]]
  <2>1. i \in Nat /\ k[d] = 0
    <3>1. Len(inbox'[d]) \in Nat
      BY <1>1, <1>3, <1>4
    <3> QED
      BY <3>1
  <2>2. i \in 1..Len(inbox[d]) /\ inbox'[d][i] = inbox[d][i]
    <3>1. CASE d = fd
      BY <1>1, <1>4, <3>1
    <3>2. CASE d # fd
      BY <1>3, <3>2
    <3> QED
      BY <3>1, <3>2
  <2>3. i + k[d] = i
    BY <2>1
  <2> QED
    BY <2>1, <2>2, <2>3
<1> HIDE DEF k
<1> QED
  BY <1>2, <1>5, FreshFewer

(* What is to be fetched is never forgotten.                                 *)
LEMMA FetchGrows == [Next]_vars => to_fetch_changes \subseteq to_fetch_changes'
<1> SUFFICES ASSUME [Next]_vars PROVE to_fetch_changes \subseteq to_fetch_changes'
  OBVIOUS
<1> USE DEF users
<1>1. CASE SelectFails \/ UNCHANGED vars
  BY <1>1 DEF SelectFails, Ends, vars
<1>2. ASSUME NEW fd \in Fd, Join(fd) \/ LoginDone(fd) \/ LoginAborts(fd)
      PROVE  to_fetch_changes' = to_fetch_changes
  BY <1>2 DEF Join, LoginDone, LoginAborts, Ends
<1>3. ASSUME NEW fd \in Fd, Receive(fd)
      PROVE  to_fetch_changes \subseteq to_fetch_changes'
  <2>1. CASE ClientGone(fd) \/ Closed(fd) \/ HeaderUnreadable(fd)
    BY <2>1 DEF ClientGone, Closed, HeaderUnreadable, Ends, remove_contributor
  <2>2. CASE RecvHeader(fd)
    BY <2>2 DEF RecvHeader, add_client
  <2>3. CASE RecvOther(fd) \/ RecvEdit(fd) \/ RecvEditToFetch(fd)
    BY <2>3 DEF RecvOther, RecvEdit, RecvEditToFetch, BodyRecvd
  <2> QED
    BY <1>3, <2>1, <2>2, <2>3 DEF Receive
<1>4. ASSUME NEW fd \in Fd, Send(fd)
      PROVE  to_fetch_changes' = to_fetch_changes
  BY <1>4 DEF Send, SendFails, HeaderTooShort, SendHeader, BodyTooShort, SendPart, SendFile,
              NothingKept, SendChanges, BodySent, Ends
<1>5. ASSUME NEW fd \in Fd, Client(fd)
      PROVE  to_fetch_changes' = to_fetch_changes
  BY <1>5 DEF Client, ClientEdits, ClientAsks, ClientKeepsAlive, ClientWrites,
              ClientLeaves, ClientResets, Lose
<1> QED
  BY <1>1, <1>2, <1>3, <1>4, <1>5 DEF Next

LEMMA StaysFreshAndQuiet ==
    ASSUME IInv, Fresh, Quiet, to_fetch_changes = {}, to_fetch_changes' = {}, [Next]_vars
    PROVE  Fresh' /\ Quiet'
<1> USE DEF users, monitor, networking, note, clients, sockets
<1>1. ASSUME UNCHANGED <<inbox, sent, addedChars, contributors, conn, write_state, write_bytes, send_queues>>,
             pc' \in {"run", "aborted"}
      PROVE  Fresh' /\ Quiet'
  BY <1>1, FreshSame DEF Quiet
<1>2. CASE SelectFails
  BY <1>2 DEF SelectFails, Quiet
<1>3. CASE UNCHANGED vars
  BY <1>1, <1>3 DEF vars, Quiet
<1>4. ASSUME NEW fd \in Fd, Join(fd)
      PROVE  Fresh' /\ Quiet'
  BY <1>4, FreshSame DEF Join, Quiet, IInv, SocketsShape
<1>5. ASSUME NEW fd \in Fd, LoginDone(fd)
      PROVE  Fresh' /\ Quiet'
  BY <1>5, FreshSame DEF LoginDone, Quiet, IInv, SocketsShape, MonitorShape, HeaderSize
<1>6. ASSUME NEW fd \in Fd, LoginAborts(fd) \/ HeaderUnreadable(fd)
      PROVE  Fresh' /\ Quiet'
  BY <1>1, <1>6 DEF LoginAborts, HeaderUnreadable, Ends
<1>7. ASSUME NEW fd \in Fd, ClientGone(fd) \/ Closed(fd)
      PROVE  Fresh' /\ Quiet'
  <2>1. Close(fd) /\ contributors' \subseteq contributors
    BY <1>7 DEF ClientGone, Closed, remove_contributor
  <2>2. Fresh'
    BY <2>1, FreshEmptied DEF Close
  <2>3. Quiet'
    BY <2>1 DEF Close, Quiet, IInv, SocketsShape, MonitorShape, HeaderSize
  <2> QED
    BY <2>2, <2>3
<1>8. ASSUME NEW fd \in Fd, RecvHeader(fd)
      PROVE  Fresh' /\ Quiet'
  <2>1. /\ inbox[fd] # <<>> /\ inbox' = [inbox EXCEPT ![fd] = Tail(@)]
        /\ UNCHANGED <<sent, addedChars, conn, write_state, write_bytes, send_queues, pc>>
    BY <1>8 DEF RecvHeader, Arrived
  <2>2. \/ contributors' = contributors
        \/ /\ contributors' = contributors \cup {fd} /\ contributors = {}
           /\ Head(inbox[fd]).type = EDIT
    BY <1>8 DEF RecvHeader, add_client
  <2>3. Fresh'
    BY <2>1, <2>2, FreshTaken
  <2>4. Quiet'
    BY <2>1, <2>2 DEF Quiet
  <2> QED
    BY <2>3, <2>4
<1>9. ASSUME NEW fd \in Fd, RecvOther(fd)
      PROVE  Fresh' /\ Quiet'
  <2>1. /\ inbox[fd] # <<>> /\ inbox' = [inbox EXCEPT ![fd] = Tail(@)] /\ conn[fd] = "logged"
        /\ UNCHANGED <<sent, addedChars, conn, contributors, send_queues, pc>>
        /\ write_state' = [write_state EXCEPT ![fd] = "HEADER_TO_SEND"]
        /\ write_bytes' = [write_bytes EXCEPT ![fd] = HeaderSize]
    BY <1>9 DEF RecvOther, BodyRecvd, WaitingForMsg, Logged, Arrived, StatesToSend, BytesToSend
  <2>2. Fresh'
    BY <2>1, FreshTaken
  <2>3. Quiet'
    BY <2>1 DEF Quiet, IInv, MonitorShape, HeaderSize
  <2> QED
    BY <2>2, <2>3
<1>10. ASSUME NEW fd \in Fd, RecvEdit(fd)
       PROVE  Fresh' /\ Quiet'
  <2> DEFINE unit == Head(inbox[fd])
  <2>1. /\ BodyRecvd(fd) /\ msg_type[fd] = EDIT
        /\ inbox[fd] # <<>> /\ inbox' = [inbox EXCEPT ![fd] = Tail(@)] /\ conn[fd] = "logged"
        /\ UNCHANGED <<sent, conn, contributors>>
        /\ edit_contents(<<unit.edit>>)
        /\ set_multicast(contributors \ {fd}, EditLen, BytesToSend(fd), StatesToSend(fd))
    BY <1>10 DEF RecvEdit, BodyRecvd, WaitingForMsg, Logged, Arrived
  <2>2. fd \in contributors /\ unit.edit \in Edits
    BY <2>1, BodyTaken
  <2>3. unit.part = "body" /\ unit.type = EDIT
    BY <2>1, BodyTaken
  <2>4. contributors \ {fd} = {}
    BY <2>2 DEF Quiet
  <2>5. /\ addedChars' = addedChars \o unit.edit.add /\ pc' \in {"run", "aborted"}
    <3>1. <<unit.edit>> # <<>> /\ SecondPiece(<<unit.edit>>) = unit.edit.add \o <<>>
      BY DEF SecondPiece
    <3>2. unit.edit.add \in Seq(Char)
      BY <2>2, EditFacts
    <3>3. unit.edit.add \o <<>> = unit.edit.add
      BY <3>2
    <3> QED
      BY <2>1, <3>1, <3>3 DEF edit_contents
  <2>6. Fresh'
    BY <2>1, <2>2, <2>3, <2>5, FreshApplied
  <2>7. Quiet'
    <3>1. /\ send_queues' = [d \in Fd |-> send_queues[d]]
          /\ write_state' = [write_state EXCEPT ![fd] = "HEADER_TO_SEND"]
          /\ write_bytes' = [write_bytes EXCEPT ![fd] = HeaderSize]
      BY <2>1, <2>4 DEF set_multicast, StatesToSend, BytesToSend, IInv, MonitorShape
    <3> QED
      BY <2>1, <2>5, <3>1 DEF Quiet, IInv, MonitorShape, HeaderSize
  <2> QED
    BY <2>6, <2>7
<1>11. ASSUME NEW fd \in Fd, RecvEditToFetch(fd)
       PROVE  Fresh' /\ Quiet'
  BY <1>11 DEF RecvEditToFetch
<1>12. ASSUME NEW fd \in Fd, Send(fd)
       PROVE  Fresh' /\ Quiet'
  <2>1. \E state \in {"HEADER_TO_SEND", "HEADER_SENT"} : ToSend(fd, state)
    BY <1>12 DEF Send, SendFails, HeaderTooShort, SendHeader, BodyTooShort, SendPart, SendFile,
                 NothingKept, SendChanges, Sending, BodyReady, FileToSend, ChangesToSend
  <2> QED
    BY <2>1 DEF ToSend, Quiet
<1>13. ASSUME NEW fd \in Fd, ClientEdits(fd) \/ ClientAsks(fd) \/ ClientKeepsAlive(fd)
       PROVE  Fresh' /\ Quiet'
  BY <1>13, ClientWritesOneMessage, FreshWritten DEF Quiet
<1>14. ASSUME NEW fd \in Fd, ClientLeaves(fd)
       PROVE  Fresh' /\ Quiet'
  <2>1. Fresh'
    BY <1>14, FreshSame, FreshLeft DEF ClientLeaves, Lose
  <2>2. Quiet'
    BY <1>14 DEF ClientLeaves, Lose, Quiet
  <2> QED
    BY <2>1, <2>2
<1>15. ASSUME NEW fd \in Fd, ClientResets(fd)
       PROVE  Fresh' /\ Quiet'
  <2>1. Fresh'
    BY <1>15, FreshEmptied DEF ClientResets, Lose
  <2>2. Quiet'
    BY <1>15 DEF ClientResets, Lose, Quiet
  <2> QED
    BY <2>1, <2>2
<1> QED
  BY <1>2, <1>3, <1>4, <1>5, <1>6, <1>7, <1>8, <1>9, <1>10, <1>11, <1>12, <1>13, <1>14, <1>15
  DEF Next, Receive, Client

(* The server aborts where it reads what is no header, or applies an edit.   *)
LEMMA StaysExplained ==
    ASSUME IInv, Quiet, Explained, to_fetch_changes = {}, to_fetch_changes' = {}, [Next]_vars
    PROVE  Explained'
<1> SUFFICES ASSUME pc' = "aborted"
             PROVE  (\/ deletedChars # <<>>
                     \/ \E fd \in Fd : conn[fd] = "logged" /\ inbox[fd] # <<>> /\ ~Readable(fd))'
  BY DEF Explained
<1> USE DEF users, monitor, networking, note, clients, sockets
<1>1. CASE pc = "aborted"
  <2>1. UNCHANGED vars
    BY <1>1 DEF Next, SelectFails, Join, LoginDone, LoginAborts, Receive, ClientGone, Closed,
                HeaderUnreadable, RecvHeader, RecvOther, RecvEdit, RecvEditToFetch, BodyRecvd,
                WaitingForHeader, WaitingForMsg, Send, SendFails, HeaderTooShort, SendHeader,
                BodyTooShort, SendPart, SendFile, NothingKept, SendChanges, Sending, BodyReady,
                FileToSend, ChangesToSend, ToSend, Client, ClientEdits, ClientAsks,
                ClientKeepsAlive, ClientWrites, ClientLeaves, ClientResets, Logged
  <2> QED
    BY <1>1, <2>1 DEF vars, Explained, Readable
<1>2. ASSUME pc # "aborted", NEW fd \in Fd, LoginAborts(fd)
      PROVE  FALSE
  BY <1>2 DEF LoginAborts, Quiet, IInv, MonitorShape, HeaderSize
<1>3. ASSUME NEW fd \in Fd, HeaderUnreadable(fd)
      PROVE  conn'[fd] = "logged" /\ inbox'[fd] # <<>> /\ ~(Readable(fd))'
  BY <1>3 DEF HeaderUnreadable, WaitingForHeader, Logged, Arrived, Ends, Readable
<1>4. ASSUME NEW fd \in Fd, RecvEdit(fd)
      PROVE  deletedChars' # <<>>
  <2> DEFINE edit == Head(inbox[fd]).edit
  <2>1. edit \in Edits
    BY <1>4, BodyTaken DEF RecvEdit
  <2>2. edit_contents(<<edit>>)
    BY <1>4 DEF RecvEdit
  <2>3. OnePiece(<<edit>>) /\ <<edit>> # <<>> /\ deletedChars' = deletedChars \o <<edit>>[1].del
    BY <2>2 DEF edit_contents
  <2>4. edit.add = <<>> /\ deletedChars' = deletedChars \o edit.del
    BY <2>3 DEF OnePiece
  <2>5. PICK c \in Char : edit.del = <<c>>
    BY <2>1, <2>4 DEF Edits, Add, Del
  <2>6. deletedChars \in Seq(Char)
    BY DEF IInv, NoteShape
  <2>7. <<c>> \in Seq(Char) /\ Len(<<c>>) = 1
    OBVIOUS
  <2>8. Len(deletedChars \o <<c>>) = Len(deletedChars) + 1
    BY <2>6, <2>7
  <2>9. Len(deletedChars) \in Nat /\ Len(<<>>) = 0
    BY <2>6
  <2>10. Len(deletedChars') = Len(deletedChars) + 1
    BY <2>4, <2>5, <2>8
  <2> HIDE DEF edit
  <2>11. Len(deletedChars') # Len(<<>>)
    BY <2>9, <2>10
  <2> QED
    BY <2>11
<1>5. ASSUME NEW fd \in Fd, Send(fd)
      PROVE  FALSE
  <2>1. \E state \in {"HEADER_TO_SEND", "HEADER_SENT"} : ToSend(fd, state)
    BY <1>5 DEF Send, SendFails, HeaderTooShort, SendHeader, BodyTooShort, SendPart, SendFile,
                NothingKept, SendChanges, Sending, BodyReady, FileToSend, ChangesToSend
  <2> QED
    BY <2>1 DEF ToSend, Quiet
<1>6. ASSUME pc # "aborted",
             \/ SelectFails \/ UNCHANGED vars
             \/ \E fd \in Fd :
                   \/ Join(fd) \/ LoginDone(fd) \/ ClientGone(fd) \/ Closed(fd) \/ RecvHeader(fd)
                   \/ RecvOther(fd) \/ RecvEditToFetch(fd) \/ Client(fd)
      PROVE  FALSE
  BY <1>6 DEF SelectFails, vars, Ends, Join, LoginDone, ClientGone, Closed, Close, RecvHeader,
              RecvOther, RecvEditToFetch, WaitingForHeader, WaitingForMsg, Logged, Client,
              ClientEdits, ClientAsks, ClientKeepsAlive, ClientWrites, ClientLeaves,
              ClientResets, Lose
<1> QED
  BY <1>1, <1>2, <1>3, <1>4, <1>5, <1>6 DEF Next, Receive

LEMMA NextKeepsAlone == IInv /\ Alone /\ [Next]_vars => Alone'
BY FetchGrows, StaysFreshAndQuiet, StaysExplained DEF Alone

(* As long as nobody has come to edit while another did: no character twice, *)
(* nothing queued for anyone, no login cut by a multicast's count, the       *)
(* server neither stopped by a closed descriptor nor in a loop without end,  *)
(* and aborted, if at all, after an edit that deletes or on what is no       *)
(* header (handle_existing_incoming_connection, edit_contents,               *)
(* set_multicast, run).                                                      *)
THEOREM AloneSafe == Spec => []AloneIsSafe
<1>1. Alone => AloneIsSafe
  BY DEF Alone, Fresh, Quiet, Explained, AloneIsSafe
<1>2. Init => IInv /\ Alone
  BY InitIInv, InitAlone
<1>3. IInv /\ Alone /\ [Next]_vars => IInv' /\ Alone'
  BY NextKeepsIInv, NextKeepsAlone
<1> QED
  BY <1>1, <1>2, <1>3, PTL DEF Spec
-----------------------------------------------------------------------------
(* Types.  The invariant has most of them; what is missing is that the text  *)
(* of a file is a text, and the bounds.                                      *)

(* A set of naturals that is not empty has a least element.                  *)
LEMMA LeastNumber ==
    ASSUME NEW S \in SUBSET Nat, S # {}
    PROVE  \E m \in S : \A n \in S : m <= n
<1> DEFINE R == OpToRel(<, Nat)
<1>1. IsWellFoundedOn(R, Nat)
  BY NatLessThanWellFounded
<1>2. PICK m \in S : \A n \in S : <<n, m>> \notin R
  <2> HIDE DEF R
  <2> QED
    BY <1>1, WFMin
<1>3. \A n \in S : ~(n < m)
  BY <1>2 DEF OpToRel
<1> QED
  BY <1>3

(* One pass of Left, and what it is after m of them.                         *)
Passed(added, deleted, kept, i) ==
    IF added[i] \in ToSet(deleted) THEN kept ELSE Append(kept, added[i])
LeftAfter(g, added, deleted, m) ==
    /\ g \in [0..m -> Seq(Char)]
    /\ g[0] = <<>>
    /\ \A i \in 1..m : g[i] = Passed(added, deleted, g[i - 1], i)

LEMMA LeftRuns ==
    ASSUME NEW added \in Seq(Char), NEW deleted
    PROVE  \E g : LeftAfter(g, added, deleted, Len(added))
<1> DEFINE n == Len(added)
           Stuck == {m \in 0..n : ~\E g : LeftAfter(g, added, deleted, m)}
<1> SUFFICES ASSUME n \in Stuck PROVE FALSE
  <2>1. n \in 0..n
    OBVIOUS
  <2> QED
    BY <2>1
<1>1. n \in Nat /\ \A i \in 1..n : added[i] \in Char
  OBVIOUS
<1> HIDE DEF n
<1>2. PICK m \in Stuck : \A i \in Stuck : m <= i
  <2>1. Stuck \in SUBSET Nat /\ Stuck # {}
    BY <1>1
  <2> HIDE DEF Stuck
  <2> QED
    BY <2>1, LeastNumber
<1>3. m \in 0..n /\ ~\E g : LeftAfter(g, added, deleted, m)
  OBVIOUS
<1>4. m # 0
  <2> DEFINE g == [i \in 0..0 |-> <<>>]
  <2>1. 1..0 = {} /\ <<>> \in Seq(Char)
    OBVIOUS
  <2>2. LeftAfter(g, added, deleted, 0)
    BY <2>1 DEF LeftAfter
  <2> QED
    BY <1>3, <2>2
<1>5. m - 1 \in 0..n /\ m \in 1..n /\ m - 1 \notin Stuck
  BY <1>1, <1>2, <1>3, <1>4
<1>6. PICK g : LeftAfter(g, added, deleted, m - 1)
  BY <1>5
<1> DEFINE h == [i \in 0..m |-> IF i = m THEN Passed(added, deleted, g[m - 1], m) ELSE g[i]]
<1>7. g[m - 1] \in Seq(Char)
  BY <1>5, <1>6 DEF LeftAfter
<1>8. Passed(added, deleted, g[m - 1], m) \in Seq(Char)
  <2>1. added[m] \in Char
    BY <1>1, <1>5
  <2>2. Append(g[m - 1], added[m]) \in Seq(Char)
    BY <1>7, <2>1
  <2> QED
    BY <1>7, <2>2 DEF Passed
<1>9. \A i \in 0..m : i # m => i \in 0..(m - 1)
  BY <1>5
<1>10. h \in [0..m -> Seq(Char)]
  BY <1>6, <1>8, <1>9 DEF LeftAfter
<1>11. h[0] = <<>>
  BY <1>4, <1>5, <1>6 DEF LeftAfter
<1>12. ASSUME NEW i \in 1..m
       PROVE  h[i] = Passed(added, deleted, h[i - 1], i)
  <2>1. i \in 0..m /\ i - 1 \in 0..m /\ h[i - 1] = g[i - 1]
    BY <1>5
  <2>2. CASE i = m
    BY <2>1, <2>2
  <2>3. CASE i # m
    <3>1. i \in 1..(m - 1)
      BY <1>5, <2>3
    <3>2. g[i] = Passed(added, deleted, g[i - 1], i)
      BY <1>6, <3>1 DEF LeftAfter
    <3> QED
      BY <2>1, <2>3, <3>2
  <2> QED
    BY <2>2, <2>3
<1> HIDE DEF h
<1>13. LeftAfter(h, added, deleted, m)
  BY <1>10, <1>11, <1>12 DEF LeftAfter
<1> QED
  BY <1>3, <1>13

(* What is left of a text is a text.                                         *)
LEMMA LeftIsText ==
    ASSUME NEW added \in Seq(Char), NEW deleted
    PROVE  Left(added, deleted) \in Seq(Char)
<1> DEFINE n == Len(added)
           left == CHOOSE left : left = [i \in 0..n |->
                       IF i = 0 THEN <<>>
                       ELSE IF added[i] \in ToSet(deleted) THEN left[i - 1]
                       ELSE Append(left[i - 1], added[i])]
<1>1. Left(added, deleted) = left[n]
  BY DEF Left
<1>2. PICK g : LeftAfter(g, added, deleted, n)
  BY LeftRuns
<1>3. n \in Nat
  OBVIOUS
<1> HIDE DEF n
<1>4. g = [i \in 0..n |-> IF i = 0 THEN <<>> ELSE Passed(added, deleted, g[i - 1], i)]
  <2> DEFINE f == [i \in 0..n |-> IF i = 0 THEN <<>> ELSE Passed(added, deleted, g[i - 1], i)]
  <2>1. ASSUME NEW i \in 0..n PROVE g[i] = f[i]
    <3>1. CASE i = 0
      BY <1>2, <3>1 DEF LeftAfter
    <3>2. CASE i # 0
      <4>1. i \in 1..n
        BY <1>3, <3>2
      <4> QED
        BY <1>2, <3>2, <4>1 DEF LeftAfter
    <3> QED
      BY <3>1, <3>2
  <2>2. g = [i \in 0..n |-> g[i]]
    BY <1>2 DEF LeftAfter
  <2> QED
    BY <2>1, <2>2
<1>5. left = [i \in 0..n |-> IF i = 0 THEN <<>> ELSE Passed(added, deleted, left[i - 1], i)]
  BY <1>4 DEF Passed
<1> HIDE DEF left
<1>6. \A i \in 0..n : left[i] = g[i]
  <2> DEFINE Differs == {i \in 0..n : left[i] # g[i]}
  <2> SUFFICES ASSUME Differs # {} PROVE FALSE
    OBVIOUS
  <2>1. PICK m \in Differs : \A i \in Differs : m <= i
    <3>1. Differs \in SUBSET Nat
      BY <1>3
    <3> HIDE DEF Differs
    <3> QED
      BY <3>1, LeastNumber
  <2>2. m \in 0..n /\ left[m] # g[m]
    OBVIOUS
  <2>3. m # 0
    BY <1>2, <1>3, <1>5, <2>2 DEF LeftAfter
  <2>4. m \in 1..n /\ m - 1 \in 0..n /\ m - 1 \notin Differs
    BY <1>3, <2>1, <2>2, <2>3
  <2>5. left[m - 1] = g[m - 1]
    BY <2>4
  <2>6. g[m] = Passed(added, deleted, g[m - 1], m)
    BY <1>2, <2>4 DEF LeftAfter
  <2>7. left[m] = Passed(added, deleted, left[m - 1], m)
    BY <1>5, <2>2, <2>3
  <2> QED
    BY <2>2, <2>5, <2>6, <2>7
<1>7. left[n] = g[n] /\ g[n] \in Seq(Char)
  BY <1>2, <1>3, <1>6 DEF LeftAfter
<1> QED
  BY <1>1, <1>7

RunShape == pc \in {"run", "stopped", "aborted", "hung"} /\ parsed \in [Fd -> BOOLEAN]
RoundsShape ==
    /\ to_fetch_changes \subseteq Fd /\ DOMAIN changes_buffs \subseteq Fd
    /\ changes_left \in Int /\ last_change \in Fd \cup {-1}
FilesShape == files \in Seq(Seq(Char))
Counts == sent \in 0..MaxMsgs /\ came \in 0..MaxClients

LEMMA InitShapes == Init => RunShape /\ RoundsShape /\ FilesShape /\ Counts
<1> SUFFICES ASSUME Init PROVE RunShape /\ RoundsShape /\ FilesShape /\ Counts
  OBVIOUS
<1>1. RunShape
  BY DEF Init, RunShape
<1>2. RoundsShape
  BY LengthAssumption DEF Init, RoundsShape
<1>3. FilesShape
  BY EmptySeq DEF Init, FilesShape
<1>4. Counts
  BY LengthAssumption DEF Init, Counts
<1> QED
  BY <1>1, <1>2, <1>3, <1>4

(* All that one descriptor's handlers and client do.                         *)
Handler(fd) ==
    Join(fd) \/ LoginDone(fd) \/ LoginAborts(fd) \/ Receive(fd) \/ Send(fd) \/ Client(fd)

LEMMA RunKept ==
    ASSUME RunShape, NEW fd \in Fd, Handler(fd)
    PROVE  RunShape'
<1>1. CASE Join(fd) \/ LoginDone(fd) \/ LoginAborts(fd)
  BY <1>1 DEF Join, LoginDone, LoginAborts, Ends, RunShape, monitor
<1>2. CASE ClientGone(fd) \/ Closed(fd)
  BY <1>2 DEF ClientGone, Closed, Close, RunShape
<1>3. CASE HeaderUnreadable(fd) \/ RecvHeader(fd) \/ RecvOther(fd) \/ RecvEditToFetch(fd)
  BY <1>3 DEF HeaderUnreadable, RecvHeader, RecvOther, RecvEditToFetch, Ends, RunShape, monitor
<1>4. CASE RecvEdit(fd)
  BY <1>4 DEF RecvEdit, edit_contents, RunShape
<1>5. CASE SendFails(fd) \/ HeaderTooShort(fd) \/ BodyTooShort(fd) \/ NothingKept(fd)
  BY <1>5 DEF SendFails, HeaderTooShort, BodyTooShort, NothingKept, Ends, RunShape, monitor
<1>6. CASE SendHeader(fd) \/ SendPart(fd) \/ SendChanges(fd)
  BY <1>6 DEF SendHeader, SendPart, SendChanges, BodySent, RunShape
<1>7. CASE SendFile(fd)
  BY <1>7 DEF SendFile, BodySent, edit_contents, RunShape
<1>8. CASE Client(fd)
  BY <1>8 DEF Client, ClientEdits, ClientAsks, ClientKeepsAlive, ClientWrites, ClientLeaves,
              ClientResets, Lose, RunShape, monitor
<1> QED
  BY <1>1, <1>2, <1>3, <1>4, <1>5, <1>6, <1>7, <1>8 DEF Handler, Receive, Send

LEMMA FewerBuffers ==
    \A d : DOMAIN Without(changes_buffs, d) \subseteq DOMAIN changes_buffs
BY DEF Without, Restrict

LEMMA MoreBuffers ==
    \A d, v : DOMAIN Put(changes_buffs, d, v) = DOMAIN changes_buffs \cup {d}
BY DEF Put

LEMMA RoundsKept ==
    ASSUME IInv, RoundsShape, NEW fd \in Fd, Handler(fd)
    PROVE  RoundsShape'
<1>1. CASE Join(fd) \/ LoginDone(fd) \/ LoginAborts(fd)
  BY <1>1 DEF Join, LoginDone, LoginAborts, Ends, RoundsShape, users, changes, rounds
<1>2. CASE ClientGone(fd)
  <2>1. CASE fd \notin contributors
    BY <1>2, <2>1 DEF ClientGone, RoundsShape, users, changes, rounds
  <2>2. CASE fd \in contributors
    <3>1. remove_contributor(fd)
      BY <1>2, <2>2 DEF ClientGone
    <3>2. DOMAIN changes_buffs' \subseteq Fd
      BY <3>1, FewerBuffers DEF remove_contributor, RoundsShape
    <3>3. changes_left' \in Int
      BY <3>1 DEF remove_contributor, RoundsShape
    <3> QED
      BY <3>1, <3>2, <3>3 DEF remove_contributor, RoundsShape
  <2> QED
    BY <2>1, <2>2
<1>3. CASE Closed(fd) \/ HeaderUnreadable(fd)
  BY <1>3 DEF Closed, HeaderUnreadable, Ends, RoundsShape, users, changes, rounds
<1>4. CASE RecvHeader(fd)
  BY <1>4 DEF RecvHeader, add_client, RoundsShape, users, rounds
<1>5. CASE RecvOther(fd)
  BY <1>5 DEF RecvOther, BodyRecvd, RoundsShape, users, changes, rounds
<1>6. CASE RecvEdit(fd) \/ RecvEditToFetch(fd)
  <2>1. /\ UNCHANGED <<to_fetch_changes, changes_left, last_change>>
        /\ \E edit : store_changes(fd, edit)
    BY <1>6 DEF RecvEdit, RecvEditToFetch, BodyRecvd, users, rounds
  <2>2. DOMAIN changes_buffs' = DOMAIN changes_buffs \cup {fd}
    BY <2>1, MoreBuffers DEF store_changes
  <2> QED
    BY <2>1, <2>2 DEF RoundsShape
<1>7. CASE SendFails(fd) \/ HeaderTooShort(fd) \/ BodyTooShort(fd) \/ NothingKept(fd)
  BY <1>7 DEF SendFails, HeaderTooShort, BodyTooShort, NothingKept, Ends, RoundsShape,
              users, changes, rounds
<1>8. CASE SendHeader(fd) \/ SendFile(fd)
  BY <1>8 DEF SendHeader, SendFile, BodySent, RoundsShape, users, changes, rounds
<1>9. CASE SendPart(fd)
  <2>1. CASE FileToSend(fd) /\ UNCHANGED <<last_change, changes_buffs>>
    BY <1>9, <2>1 DEF SendPart, RoundsShape, users
  <2>2. CASE ~(FileToSend(fd) /\ UNCHANGED <<last_change, changes_buffs>>)
    <3> DEFINE editor == Head(changes_tracker[fd])
    <3>1. ChangesToSend(fd) /\ last_change' = LastChange(editor) /\ changes_buffs' = BuffsRead(editor)
      BY <1>9, <2>2 DEF SendPart
    <3>2. editor \in Fd /\ DOMAIN BuffsRead(editor) \subseteq DOMAIN changes_buffs \cup {editor}
      BY <3>1, ChangesSent
    <3> HIDE DEF editor
    <3> QED
      BY <1>9, <3>1, <3>2 DEF SendPart, LastChange, RoundsShape, users
  <2> QED
    BY <2>1, <2>2
<1>10. CASE SendChanges(fd)
  <2> DEFINE editor == Head(changes_tracker[fd])
             rest   == IF Buffer(editor) = <<>> THEN <<>> ELSE Tail(Buffer(editor))
  <2>1. /\ ChangesToSend(fd) /\ last_change' = LastChange(editor)
        /\ remove_sent_changes(fd, BuffsRead(editor))
        /\ to_fetch_changes' = to_fetch_changes
    BY <1>10 DEF SendChanges, BodySent, users
  <2>2. editor \in Fd /\ DOMAIN BuffsRead(editor) \subseteq DOMAIN changes_buffs \cup {editor}
    BY <2>1, ChangesSent
  <2>3. /\ DOMAIN changes_buffs' \subseteq DOMAIN BuffsRead(editor) \cup {editor}
        /\ changes_left' \in {Cardinality(contributors) - 1, changes_left - 1}
    <3>1. \/ changes_buffs' = Put(BuffsRead(editor), editor, rest)
          \/ changes_buffs' = Without(BuffsRead(editor), editor)
          \/ changes_buffs' = BuffsRead(editor)
      BY <2>1 DEF remove_sent_changes
    <3>2. changes_left' \in {Cardinality(contributors) - 1, changes_left - 1}
      BY <2>1 DEF remove_sent_changes
    <3> HIDE DEF editor, rest
    <3> QED
      BY <3>1, <3>2 DEF Put, Without, Restrict
  <2>4. Cardinality(contributors) \in Nat
    <3>1. IsFiniteSet(contributors)
      BY FdAssumption, FS_Subset DEF IInv, ChangesShape
    <3> QED
      BY <3>1, FS_CardinalityType
  <2> HIDE DEF editor
  <2>5. changes_left' \in Int
    BY <2>3, <2>4 DEF RoundsShape
  <2>6. last_change' \in Fd \cup {-1}
    BY <2>1, <2>2 DEF LastChange, RoundsShape
  <2> QED
    BY <2>1, <2>2, <2>3, <2>5, <2>6 DEF RoundsShape
<1>11. CASE Client(fd)
  BY <1>11 DEF Client, ClientEdits, ClientAsks, ClientKeepsAlive, ClientWrites, ClientLeaves,
               ClientResets, Lose, RoundsShape, users, changes, rounds
<1> QED
  BY <1>1, <1>2, <1>3, <1>4, <1>5, <1>6, <1>7, <1>8, <1>9, <1>10, <1>11 DEF Handler, Receive, Send

LEMMA FilesKept ==
    ASSUME IInv, FilesShape, NEW fd \in Fd, Handler(fd)
    PROVE  FilesShape'
<1>1. CASE files' = files
  BY <1>1 DEF FilesShape
<1>2. CASE ClientGone(fd) /\ files' # files
  <2>1. save_to_file /\ fd \in contributors
    BY <1>2 DEF ClientGone
  <2>2. Live \in Seq(Char)
    BY LeftIsText DEF IInv, NoteShape, Live
  <2>3. files' = [files EXCEPT ![Len(files)] = Live]
    BY <2>1 DEF save_to_file
  <2>4. Len(files) \in 1..Len(files)
    <3>1. files # <<>>
      BY <2>1 DEF IInv, NoteShape
    <3> QED
      BY <3>1 DEF FilesShape
  <2>5. \A f \in Seq(Seq(Char)), x \in Seq(Char) : \A i \in 1..Len(f) :
            [f EXCEPT ![i] = x] \in Seq(Seq(Char))
    BY ExceptSeq
  <2> QED
    BY <2>2, <2>3, <2>4, <2>5 DEF FilesShape
<1>3. CASE RecvHeader(fd) /\ files' # files
  <2>1. files' = Append(files, <<>>)
    BY <1>3 DEF RecvHeader, add_client
  <2>2. <<>> \in Seq(Char)
    BY EmptySeq
  <2> QED
    BY <2>1, <2>2 DEF FilesShape
<1>4. Join(fd) \/ LoginDone(fd) \/ LoginAborts(fd) => files' = files
  BY DEF Join, LoginDone, LoginAborts, Ends
<1>5. Closed(fd) \/ HeaderUnreadable(fd) \/ RecvOther(fd) \/ RecvEdit(fd) \/ RecvEditToFetch(fd)
          => files' = files
  BY DEF Closed, HeaderUnreadable, RecvOther, RecvEdit, RecvEditToFetch, BodyRecvd, Ends
<1>6. Send(fd) => files' = files
  BY DEF Send, SendFails, HeaderTooShort, BodyTooShort, NothingKept, SendHeader, SendPart,
         SendFile, SendChanges, BodySent, Ends
<1>7. Client(fd) => files' = files
  BY DEF Client, ClientEdits, ClientAsks, ClientKeepsAlive, ClientWrites, ClientLeaves,
         ClientResets, Lose
<1> QED
  BY <1>1, <1>2, <1>3, <1>4, <1>5, <1>6, <1>7 DEF Handler, Receive

LEMMA CountsKept ==
    ASSUME Counts, NEW fd \in Fd, Handler(fd)
    PROVE  Counts'
<1>1. CASE Join(fd)
  BY <1>1, LengthAssumption DEF Join, Counts
<1>2. CASE ClientEdits(fd) \/ ClientAsks(fd) \/ ClientKeepsAlive(fd)
  <2>1. PICK message : ClientWrites(fd, message)
    BY <1>2 DEF ClientEdits, ClientAsks, ClientKeepsAlive
  <2> QED
    BY <2>1, LengthAssumption DEF ClientWrites, Counts
<1>3. LoginDone(fd) \/ LoginAborts(fd) => UNCHANGED clients
  BY DEF LoginDone, LoginAborts, Ends
<1>4. Receive(fd) => UNCHANGED clients
  BY DEF Receive, ClientGone, Closed, Close, HeaderUnreadable, RecvHeader, RecvOther, RecvEdit,
         RecvEditToFetch, BodyRecvd, Ends
<1>5. Send(fd) => UNCHANGED clients
  BY DEF Send, SendFails, HeaderTooShort, BodyTooShort, NothingKept, SendHeader, SendPart,
         SendFile, SendChanges, BodySent, Ends
<1>6. ClientLeaves(fd) \/ ClientResets(fd) => UNCHANGED clients
  BY DEF ClientLeaves, ClientResets, Lose
<1>7. CASE UNCHANGED clients
  BY <1>7 DEF clients, Counts
<1> QED
  BY <1>1, <1>2, <1>3, <1>4, <1>5, <1>6, <1>7 DEF Handler, Client

Shapes == RunShape /\ RoundsShape /\ FilesShape /\ Counts

LEMMA NextKeepsShapes == IInv /\ Shapes /\ [Next]_vars => Shapes'
<1> SUFFICES ASSUME IInv, Shapes, [Next]_vars PROVE Shapes'
  OBVIOUS
<1>1. CASE SelectFails
  BY <1>1 DEF SelectFails, Ends, Shapes, RunShape, RoundsShape, FilesShape, Counts,
              monitor, users, changes, rounds, clients
<1>2. ASSUME NEW fd \in Fd, Handler(fd)
      PROVE  Shapes'
  BY <1>2, RunKept, RoundsKept, FilesKept, CountsKept DEF Shapes
<1>3. CASE UNCHANGED vars
  BY <1>3 DEF vars, Shapes, RunShape, RoundsShape, FilesShape, Counts,
              monitor, users, changes, rounds, clients
<1> QED
  BY <1>1, <1>2, <1>3 DEF Next, Handler

(* What is kept, queued, stored and saved is of the kind declared, for any   *)
(* number of descriptors, clients and messages; a saved file is a text.      *)
THEOREM TypeCorrect == Spec => []TypeOK
<1>1. Init => IInv /\ Shapes
  BY InitIInv, InitShapes DEF Shapes
<1>2. IInv /\ Shapes /\ [Next]_vars => IInv' /\ Shapes'
  BY NextKeepsIInv, NextKeepsShapes
<1>3. IInv /\ Shapes => TypeOK
  <2> SUFFICES ASSUME IInv, Shapes PROVE TypeOK
    OBVIOUS
  <2>1. msg_len \in [Fd -> Int]
    BY DEF IInv, MonitorShape, Lengths
  <2>2. send_queues \in [Fd -> Seq(Int)]
    <3>1. \A q \in Seq(Lengths) : q \in Seq(Int)
      BY DEF Lengths
    <3> QED
      BY <3>1 DEF IInv, MonitorShape
  <2>3. /\ \A fd \in DOMAIN changes_buffs : changes_buffs[fd] \in Seq(Edits)
        /\ DOMAIN changes_tracker \subseteq Fd
        /\ \A fd \in DOMAIN changes_tracker : changes_tracker[fd] \in Seq(Fd)
    BY DEF IInv, ChangesShape
  <2>4. /\ conn \in [Fd -> {"none", "login", "logged"}] /\ peer \in [Fd -> {"here", "left", "reset"}]
        /\ inbox \in [Fd -> Seq(Unit)]
        /\ read_state \in [Fd -> ReadStates] /\ read_bytes \in [Fd -> Nat]
        /\ write_state \in [Fd -> WriteStates] /\ write_bytes \in [Fd -> Nat]
        /\ msg_type \in [Fd -> {NO_ENTRY, HEADER, LOGIN, STATEMENT, EDIT}]
        /\ contributors \subseteq Fd /\ addedChars \in Seq(Char) /\ deletedChars \in Seq(Char)
    BY DEF IInv, SocketsShape, MonitorShape, ChangesShape, NoteShape
  <2> QED
    BY <2>1, <2>2, <2>3, <2>4 DEF Shapes, RunShape, RoundsShape, FilesShape, Counts, TypeOK
<1> QED
  BY <1>1, <1>2, <1>3, PTL DEF Spec
=============================================================================
