---------------------------- MODULE DesktopClient ----------------------------
(***************************************************************************)
(* The threads of the desktop client after its login: Client.java's reader,*)
(* writer and keep-alive thread, and the GUI thread, over volatile flags   *)
(* that each tests and sets in two steps.                                  *)
(*                                                                         *)
(* A step of a thread reaches to its next access to what others share,     *)
(* unless the two commute with all that others do.  Of what is typed there *)
(* is how much, and whether a '%' is among it, because printf takes the    *)
(* text for a format.  A message that arrives is its header and its body,  *)
(* one read each; Rest is what a short read leaves.                        *)
(*                                                                         *)
(* The server is the environment.  It sends what the protocol lets it send:*)
(* files when asked, and on a new connection a request to log in and then  *)
(* an id, although LOGIN is never sent.  LOGIN_REJECTED would need one, so *)
(* that "logged" keeps the TRUE of the first login and is left out.        *)
(*                                                                         *)
(* An operator X_Y is X with the fault Y put in; no specification uses it. *)
(***************************************************************************)
EXTENDS Naturals, Sequences

CONSTANTS
    MaxAdded,        \* bound: characters typed and not yet fetched
    MaxRequests      \* bound: lists of files and connections the user asks for

ASSUME BoundAssumption == MaxAdded \in Nat /\ MaxRequests \in Nat

Kind == {"EDIT", "KEEP_ALIVE", "REQUEST_LOGIN", "WORK_END", "FILES"}
Header(k) == <<"header", k>>
Body(k) == <<"body", k>>
Rest == <<"rest", "">>

Writers == {"writer", "keepAlive", "gui"}

VARIABLES
    \* Client's fields
    isAlive, isRunning, sending, notepadTaken, canLogIn,
    \* where the threads are
    reader, writer, keepAlive, gui,
    kind,         \* of the header whose body the reader is reading
    loginKind,    \* of the one whose body login is
    stale,        \* the reader's read is on the input of an earlier connection
    \* notepad
    added,        \* how much has been typed and not fetched
    changes,      \* how much the writer has fetched and not written
    \* the connection
    conn, socket, \* its number, and: open | left (by the server) | closed
    inbox,        \* what has arrived and has not been read
    asks, asked,  \* how often files were asked for; and not yet answered
    \* auxiliary
    frame,        \* whose body is to follow on the connection: none, or a thread,
                  \* or broken for good
    lost,         \* of what was typed: nothing, or by a broken connection, a race,
                  \* or a broken frame
    shown         \* the user has been told that the connection is broken

flags == <<isAlive, isRunning, sending, notepadTaken, canLogIn>>
pcs == <<reader, writer, keepAlive, gui>>
reading == <<kind, loginKind, stale>>
note == <<added, changes>>
net == <<conn, socket, inbox, asks, asked>>
seen == <<frame, lost, shown>>
vars == <<flags, pcs, reading, note, net, seen>>

First(old, new) == IF old = "nothing" THEN new ELSE old
Broken(s) == IF s = "left" THEN "connection" ELSE "race"

(* Login has been accepted; createGUI has started the threads.               *)
Init ==
    /\ isAlive = TRUE /\ isRunning = TRUE /\ sending = FALSE /\ notepadTaken = FALSE
    /\ canLogIn = FALSE
    /\ reader = "test" /\ writer = "test" /\ keepAlive = "test" /\ gui = "idle"
    /\ kind = "EDIT" /\ loginKind = "EDIT" /\ stale = FALSE
    /\ added = 0 /\ changes = 0
    /\ conn = 1 /\ socket = "open" /\ inbox = <<>> /\ asks = 0 /\ asked = FALSE
    /\ frame = "none" /\ lost = "nothing" /\ shown = FALSE

-----------------------------------------------------------------------------
(* Where a thread is, and that it alone moves. *)
At(t) ==
    IF t = "reader" THEN reader ELSE IF t = "writer" THEN writer
    ELSE IF t = "keepAlive" THEN keepAlive ELSE gui

Step(t, from, to) ==
    /\ At(t) = from
    /\ reader' = IF t = "reader" THEN to ELSE reader
    /\ writer' = IF t = "writer" THEN to ELSE writer
    /\ keepAlive' = IF t = "keepAlive" THEN to ELSE keepAlive
    /\ gui' = IF t = "gui" THEN to ELSE gui

-----------------------------------------------------------------------------
(* writeMsg, by any thread.                                                  *)
Spin(t) ==
    /\ ~sending
    /\ Step(t, "spin", "header")
    /\ UNCHANGED <<flags, reading, note, net, seen>>

(* sending is set and the header printed: where the server waits for the     *)
(* body of another thread, whose spin had ended too, it takes this for it.   *)
WriteHeader(t) ==
    /\ Step(t, "header", "body")
    /\ sending' = TRUE
    /\ frame' = IF frame = "none" THEN t ELSE "broken"
    /\ UNCHANGED <<isAlive, isRunning, notepadTaken, canLogIn, reading, note, net,
                   lost, shown>>

AfterWrite(t) ==
    IF t = "writer" THEN "test" ELSE IF t = "keepAlive" THEN "test" ELSE "idle"

(* What becomes of an edit of which this is the body. *)
Fate(t) ==
    IF socket # "open" THEN First(lost, Broken(socket))
    ELSE IF frame # t THEN First(lost, "frame") ELSE lost

WriteBody_Kept(t) ==
    /\ Step(t, "body", AfterWrite(t))
    /\ changes' = IF t = "writer" THEN 0 ELSE changes
    /\ frame' = IF frame = t THEN "none" ELSE "broken"
    /\ lost' = IF t = "writer" THEN Fate(t) ELSE lost
    /\ asked' = (asked \/ (t = "gui" /\ socket = "open"))
    /\ UNCHANGED <<flags, reading, added, conn, socket, inbox, asks, shown>>

(* The body is printed and sending cleared.                                  *)
WriteBody(t) ==
    /\ Step(t, "body", AfterWrite(t))
    /\ sending' = FALSE
    /\ changes' = IF t = "writer" THEN 0 ELSE changes
    /\ frame' = IF frame = t THEN "none" ELSE "broken"
    /\ lost' = IF t = "writer" THEN Fate(t) ELSE lost
    /\ asked' = (asked \/ (t = "gui" /\ socket = "open"))
    /\ UNCHANGED <<isAlive, isRunning, notepadTaken, canLogIn, reading, added,
                   conn, socket, inbox, asks, shown>>

(* A '%' among what was typed: printf takes the text for a format and throws, *)
(* and the writer is gone with sending set.                                  *)
FormatThrows(t) ==
    /\ t = "writer"
    /\ Step(t, "body", "threw")
    /\ UNCHANGED <<flags, reading, note, net, seen>>

writeMsg(t) == Spin(t) \/ WriteHeader(t) \/ WriteBody(t) \/ FormatThrows(t)

-----------------------------------------------------------------------------
(* The writer. *)

WriterTests ==
    /\ isRunning
    /\ Step("writer", "test", "sleep")
    /\ UNCHANGED <<flags, reading, note, net, seen>>

WriterWakes ==
    /\ Step("writer", "sleep", IF isAlive THEN "taken" ELSE "test")
    /\ UNCHANGED <<flags, reading, note, net, seen>>

WriterSpins ==
    /\ ~notepadTaken
    /\ Step("writer", "taken", "copy")
    /\ UNCHANGED <<flags, reading, note, net, seen>>

(* notepadTaken is set, and getChanges goes through the list ...             *)
CopyChanges ==
    /\ Step("writer", "copy", "clear")
    /\ notepadTaken' = TRUE
    /\ changes' = added
    /\ UNCHANGED <<isAlive, isRunning, sending, canLogIn, reading, added, net, seen>>

(* ... and empties it, with what has been typed meanwhile; or next() notices *)
(* that it has grown and throws.                                             *)
ClearChanges ==
    /\ Step("writer", "clear", IF changes > 0 THEN "spin" ELSE "test")
    /\ added' = 0
    /\ notepadTaken' = FALSE
    /\ lost' = IF added # changes THEN First(lost, "race") ELSE lost
    /\ UNCHANGED <<isAlive, isRunning, sending, canLogIn, reading, changes, net,
                   frame, shown>>

ListHasGrown ==
    /\ added # changes
    /\ Step("writer", "clear", "dead")
    /\ lost' = First(lost, "race")
    /\ UNCHANGED <<flags, reading, note, net, frame, shown>>

(* It closes the socket of that moment, which may be a new one.              *)
WriterCloses ==
    /\ ~isRunning
    /\ Step("writer", "test", "ended")
    /\ socket' = "closed"
    /\ UNCHANGED <<flags, reading, note, conn, inbox, asks, asked, seen>>

Writer ==
    \/ WriterTests \/ WriterWakes \/ WriterSpins \/ CopyChanges \/ ClearChanges \/ ListHasGrown
    \/ WriterCloses \/ writeMsg("writer")

-----------------------------------------------------------------------------
(* The keep-alive thread. *)

(* At first, and when the second given for an answer is over; at the end     *)
(* runLater has the GUI show the error.                                      *)
KeeperGoesOn_WhileRunning == isRunning
KeeperGoesOn == isAlive /\ isRunning
KeeperTests ==
    /\ Step("keepAlive", "test", IF KeeperGoesOn THEN "sleep" ELSE "ended")
    /\ UNCHANGED <<flags, reading, note, net, seen>>

KeeperWakes ==
    /\ Step("keepAlive", "sleep", "spin")
    /\ isAlive' = FALSE
    /\ UNCHANGED <<isRunning, sending, notepadTaken, canLogIn, reading, note, net, seen>>

Keeper == KeeperTests \/ KeeperWakes \/ writeMsg("keepAlive")

-----------------------------------------------------------------------------
(* getMsg, as the reader calls it; an exception ends the thread. *)

IsClosed == socket = "closed" \/ stale
HasNext(what) == inbox # <<>> /\ Head(inbox)[1] = what

GetHeader ==
    /\ ~IsClosed /\ HasNext("header")
    /\ Step("reader", "getHeader", "getBody")
    /\ kind' = Head(inbox)[2]
    /\ isAlive' = TRUE
    /\ inbox' = Tail(inbox)
    /\ UNCHANGED <<isRunning, sending, notepadTaken, canLogIn, loginKind, stale,
                   note, conn, socket, asks, asked, seen>>

(* The end of the stream, a closed socket, or fewer characters than asked    *)
(* for: a message that arrives in two parts is taken for a broken            *)
(* connection.  The reader then clears isRunning too and ends.               *)
ReadBreaks(from) ==
    /\ \/ IsClosed /\ UNCHANGED inbox
       \/ ~IsClosed /\ inbox = <<>> /\ socket = "left" /\ UNCHANGED inbox
       \/ ~IsClosed /\ inbox # <<>> /\ inbox' = <<Rest>> \o Tail(inbox)
    /\ Step("reader", from, "ended")
    /\ isAlive' = FALSE /\ isRunning' = FALSE
    /\ kind' = "EDIT" /\ stale' = FALSE
    /\ UNCHANGED <<sending, notepadTaken, canLogIn, loginKind, note, conn, socket,
                   asks, asked, seen>>

(* What is read is not what is expected, because login has read in between   *)
(* or left a rest, or the input is new since the header: parseInt throws.    *)
Misread(from, what) ==
    /\ ~IsClosed /\ inbox # <<>> /\ ~HasNext(what)
    /\ Step("reader", from, "dead")
    /\ inbox' = Tail(inbox)
    /\ kind' = "EDIT"
    /\ UNCHANGED <<flags, loginKind, stale, note, conn, socket, asks, asked, seen>>

(* A body is there: getStatement, getClientId, getEdit, getFileNames.  The   *)
(* reader must not build a window, and dies when it is to show an error.     *)
(* What has been buffered is there even when the socket is closed.           *)
Dispatched ==
    IF kind = "EDIT" THEN "apply" ELSE IF kind = "FILES" THEN "files"
    ELSE IF kind = "WORK_END" THEN "dead" ELSE "test"

GetBody ==
    /\ ~stale /\ HasNext("body")
    /\ Step("reader", "getBody", Dispatched)
    /\ inbox' = Tail(inbox)
    /\ isAlive' = (isAlive \/ kind = "KEEP_ALIVE")
    /\ canLogIn' = (canLogIn \/ kind = "REQUEST_LOGIN")
    /\ notepadTaken' = (notepadTaken \/ kind = "EDIT")
    /\ kind' = "EDIT"
    /\ UNCHANGED <<isRunning, sending, loginKind, stale, note, conn, socket, asks, asked,
                   seen>>

ApplyEdit_Kept ==
    /\ Step("reader", "apply", "test")
    /\ UNCHANGED <<flags, reading, note, net, seen>>

(* getEdit does not wait for notepadTaken, and clears it whoever has set it. *)
ApplyEdit ==
    /\ Step("reader", "apply", "test")
    /\ notepadTaken' = FALSE
    /\ UNCHANGED <<isAlive, isRunning, sending, canLogIn, reading, note, net, seen>>

FilesSpin ==
    /\ ~notepadTaken
    /\ Step("reader", "files", "select")
    /\ UNCHANGED <<flags, reading, note, net, seen>>

(* getFileNames: fileSelect throws with notepadTaken set.                    *)
SelectFile ==
    /\ Step("reader", "select", "dead")
    /\ notepadTaken' = TRUE
    /\ UNCHANGED <<isAlive, isRunning, sending, canLogIn, reading, note, net, seen>>

getMsg ==
    \/ GetHeader \/ GetBody \/ ApplyEdit \/ FilesSpin \/ SelectFile
    \/ ReadBreaks("getHeader") \/ ReadBreaks("getBody")
    \/ Misread("getHeader", "header") \/ Misread("getBody", "body")

-----------------------------------------------------------------------------
(* The reader: it spins while isAlive is clear. *)

ReaderTests ==
    /\ isAlive \/ ~isRunning
    /\ Step("reader", "test", IF isRunning THEN "getHeader" ELSE "ended")
    /\ UNCHANGED <<flags, reading, note, net, seen>>

Reader == ReaderTests \/ getMsg

-----------------------------------------------------------------------------
(* The GUI thread. *)

Type ==
    /\ gui = "idle" /\ added < MaxAdded
    /\ added' = added + 1
    /\ UNCHANGED <<flags, pcs, reading, changes, net, seen>>

Requests == asks + (conn - 1)

fileListRequest ==
    /\ Requests < MaxRequests
    /\ Step("gui", "idle", "spin")
    /\ asks' = asks + 1
    /\ UNCHANGED <<flags, reading, note, conn, socket, inbox, asked, seen>>

(* quit: the program exits, and with it all threads and what they have.      *)
quit ==
    /\ gui = "idle" /\ gui' = "exited"
    /\ reader' = "ended" /\ writer' = "ended" /\ keepAlive' = "ended"
    /\ isAlive' = FALSE /\ isRunning' = FALSE /\ sending' = FALSE /\ notepadTaken' = FALSE
    /\ canLogIn' = FALSE
    /\ kind' = "EDIT" /\ loginKind' = "EDIT" /\ stale' = FALSE
    /\ added' = 0 /\ changes' = 0
    /\ conn' = 1 /\ socket' = "closed" /\ inbox' = <<>> /\ asks' = 0 /\ asked' = FALSE
    /\ frame' = "none" /\ lost' = "nothing"
    /\ shown' = TRUE    \* there is nothing left to show

GuiShows ==
    /\ gui = "idle" /\ keepAlive = "ended" /\ ~shown
    /\ shown' = TRUE
    /\ UNCHANGED <<flags, pcs, reading, note, net, frame, lost>>

(* reconnect: connect closes the old socket ...                              *)
Reconnect ==
    /\ Requests < MaxRequests
    /\ Step("gui", "idle", "connect")
    /\ socket' = "closed"
    /\ lost' = IF lost = "connection" THEN "race" ELSE lost
    /\ UNCHANGED <<flags, reading, note, conn, inbox, asks, asked, frame, shown>>

(* ... and makes a new one, if it can; login follows in either case, with a  *)
(* first getMsg unless a request to log in has been read before.             *)
(* A reader that reads may be on the old input or go to the new one.         *)
BeginsLogin == Step("gui", "connect", IF canLogIn THEN "second" ELSE "first")

Connects_OldInput ==
    /\ BeginsLogin
    /\ conn' = conn + 1 /\ socket' = "open"
    /\ inbox' = inbox \o <<Header("REQUEST_LOGIN"), Body("REQUEST_LOGIN")>>
    /\ asked' = FALSE
    /\ stale' \in BOOLEAN /\ (stale' => reader \in {"getHeader", "getBody"})
    /\ frame' = "none"
    /\ UNCHANGED <<flags, kind, loginKind, note, asks, lost, shown>>

Connects ==
    /\ BeginsLogin
    /\ conn' = conn + 1 /\ socket' = "open"
    /\ inbox' = <<Header("REQUEST_LOGIN"), Body("REQUEST_LOGIN")>>
    /\ asked' = FALSE
    /\ stale' \in BOOLEAN /\ (stale' => reader \in {"getHeader", "getBody"})
    /\ frame' = "none"
    /\ UNCHANGED <<flags, kind, loginKind, note, asks, lost, shown>>

CannotConnect ==
    /\ BeginsLogin
    /\ UNCHANGED <<flags, reading, note, net, seen>>

(* getMsg again, as login calls it, first for the request to log in and then *)
(* for the answer: whatever comes is taken for them.  The GUI thread may show *)
(* an error.  No list of files comes, as none was asked for on the connection. *)
InBody(from) == IF from = "first" THEN "first_body" ELSE "second_body"
InEdit(from) == IF from = "first" THEN "first_edit" ELSE "second_edit"
After(from)  == IF from = "first" THEN "first_done" ELSE "second_done"

LoginHeader(from) ==
    /\ socket # "closed" /\ HasNext("header")
    /\ Step("gui", from, InBody(from))
    /\ loginKind' = Head(inbox)[2]
    /\ isAlive' = TRUE
    /\ inbox' = Tail(inbox)
    /\ UNCHANGED <<isRunning, sending, notepadTaken, canLogIn, kind, stale, note,
                   conn, socket, asks, asked, seen>>

LoginBody(from) ==
    /\ socket # "closed" /\ HasNext("body")
    /\ Step("gui", InBody(from), IF loginKind = "EDIT" THEN InEdit(from) ELSE After(from))
    /\ inbox' = Tail(inbox)
    /\ isAlive' = (isAlive \/ loginKind = "KEEP_ALIVE")
    /\ canLogIn' = (canLogIn \/ loginKind = "REQUEST_LOGIN")
    /\ notepadTaken' = (notepadTaken \/ loginKind = "EDIT")
    /\ shown' = (shown \/ loginKind = "WORK_END")
    /\ loginKind' = "EDIT"
    /\ UNCHANGED <<isRunning, sending, kind, stale, note, conn, socket, asks, asked,
                   frame, lost>>

LoginApplies(from) ==
    /\ Step("gui", InEdit(from), After(from))
    /\ notepadTaken' = FALSE
    /\ UNCHANGED <<isAlive, isRunning, sending, canLogIn, reading, note, net, seen>>

(* The input has ended or is short, and login looks at its fields ...        *)
LoginBreaks(from, place) ==
    /\ \/ socket = "closed" /\ UNCHANGED inbox
       \/ socket = "left" /\ inbox = <<>> /\ UNCHANGED inbox
       \/ socket # "closed" /\ inbox # <<>> /\ inbox' = <<Rest>> \o Tail(inbox)
    /\ Step("gui", place, After(from))
    /\ isAlive' = FALSE
    /\ loginKind' = "EDIT"
    /\ UNCHANGED <<isRunning, sending, notepadTaken, canLogIn, kind, stale, note,
                   conn, socket, asks, asked, seen>>

(* ... or the reader has read in between: parseInt throws out of reconnect.  *)
LoginMisreads(place, what) ==
    /\ socket # "closed" /\ inbox # <<>> /\ ~HasNext(what)
    /\ Step("gui", place, "idle")
    /\ inbox' = Tail(inbox)
    /\ loginKind' = "EDIT"
    /\ UNCHANGED <<flags, kind, stale, note, conn, socket, asks, asked, seen>>

LoginGetsMsg(from) ==
    \/ LoginHeader(from) \/ LoginBody(from) \/ LoginApplies(from)
    \/ LoginBreaks(from, from) \/ LoginBreaks(from, InBody(from))
    \/ LoginMisreads(from, "header") \/ LoginMisreads(InBody(from), "body")

LoginTests ==
    \/ Step("gui", "first_done", IF canLogIn THEN "second" ELSE "idle")
       /\ UNCHANGED <<flags, reading, note, net, seen>>
    \/ Step("gui", "second_done", IF isAlive THEN "logged" ELSE "idle")
       /\ UNCHANGED <<flags, reading, note, net, seen>>

LoginEnds ==
    /\ Step("gui", "logged", "idle")
    /\ canLogIn' = FALSE /\ isAlive' = TRUE
    /\ UNCHANGED <<isRunning, sending, notepadTaken, reading, note, net, seen>>

Login == LoginGetsMsg("first") \/ LoginGetsMsg("second") \/ LoginTests \/ LoginEnds

GuiGoesOn == Connects \/ CannotConnect \/ Login \/ writeMsg("gui") \/ GuiShows

-----------------------------------------------------------------------------
(* The server, one message at a time. *)

Post(k) ==
    /\ socket = "open" /\ inbox = <<>>
    /\ k = "FILES" => asked
    /\ asked' = (asked /\ k # "FILES")
    /\ inbox' = <<Header(k), Body(k)>>
    /\ UNCHANGED <<flags, pcs, reading, note, conn, socket, asks, seen>>

ServerLeaves ==
    /\ socket = "open"
    /\ socket' = "left"
    /\ UNCHANGED <<flags, pcs, reading, note, conn, inbox, asks, asked, seen>>

Next ==
    \/ Reader \/ Writer \/ Keeper \/ GuiGoesOn
    \/ Type \/ fileListRequest \/ quit \/ Reconnect
    \/ \E k \in Kind \ {"REQUEST_LOGIN"} : Post(k)
    \/ ServerLeaves

Spec == Init /\ [][Next]_vars

-----------------------------------------------------------------------------
(* Every thread that can go on does.  A thread that spins on a flag sees it  *)
(* clear sooner or later if that happens again and again, and so does the    *)
(* writer with isAlive, which it looks at every five seconds and the         *)
(* keep-alive thread clears for one second in a thousand.  Nothing is asked  *)
(* of the user and of the server.                                            *)
Fairness ==
    /\ WF_vars(Reader) /\ WF_vars(Writer) /\ WF_vars(Keeper) /\ WF_vars(GuiGoesOn)
    /\ \A t \in {"writer", "keepAlive"} : SF_vars(Spin(t))
    /\ SF_vars(WriterSpins)
    /\ SF_vars(WriterTests /\ isAlive) /\ SF_vars(WriterWakes /\ isAlive)

FairSpec == Spec /\ Fairness

-----------------------------------------------------------------------------
WritePlaces == {"spin", "header", "body"}
LoginPlaces == {"first", "first_body", "first_edit", "first_done",
                "second", "second_body", "second_edit", "second_done", "logged"}

TypeOK ==
    /\ {isAlive, isRunning, sending, notepadTaken, canLogIn, stale, asked, shown} \subseteq BOOLEAN
    /\ reader \in {"test", "getHeader", "getBody", "apply", "files", "select", "ended", "dead"}
    /\ writer \in {"test", "sleep", "taken", "copy", "clear", "ended", "dead", "threw"}
                    \cup WritePlaces
    /\ keepAlive \in {"test", "sleep", "ended"} \cup WritePlaces
    /\ gui \in {"idle", "connect", "exited"} \cup LoginPlaces \cup WritePlaces
    /\ kind \in Kind /\ loginKind \in Kind
    /\ added \in 0..MaxAdded /\ changes \in 0..MaxAdded
    /\ Requests \in 0..MaxRequests
    /\ socket \in {"open", "left", "closed"}
    /\ Len(inbox) <= 2
    /\ frame \in {"none", "broken"} \cup Writers
    /\ lost \in {"nothing", "connection", "race", "frame"}

(* A thread that spins on a flag waits for someone: sending is set only while *)
(* a thread writes a body, notepadTaken only while one is at the text; or the *)
(* thread that has set it was killed by an exception.                        *)
FlagsAreHeld ==
    /\ sending => \E t \in Writers : At(t) \in {"body", "threw"}
    /\ notepadTaken => \/ writer \in {"clear", "dead"} \/ reader \in {"apply", "dead"}
                       \/ gui \in {"first_edit", "second_edit"}

(* sending is there "to prevent sending header of keepAliver and then header *)
(* of msg" (Client.java:46): what the server takes for a body is the body    *)
(* that was sent with the header before it.                                  *)
FramesAreWhole == frame # "broken"

(* Nobody listens: the reader is gone or spins on a cleared isAlive.         *)
Deaf == reader \in {"ended", "dead"} \/ (reader = "test" /\ ~isAlive)

(* The GUI thread waits in a read, or spins.                                 *)
Frozen == gui \in {"first", "first_body", "second", "second_body", "spin"}
Exited == gui = "exited"
Poisoned == writer = "threw"

(* Whenever nobody listens to the server, someone comes to listen again or   *)
(* the user is told; unless the writer died with sending set, which the      *)
(* keep-alive thread then waits for, or the GUI is frozen for good.          *)
UserLearns ==
    Deaf ~> (~Deaf \/ shown \/ Exited \/ Poisoned \/ Frozen)

(* What has been typed is fetched, and what has been fetched is written to   *)
(* the server within a frame of its own, or the user is told that it is not; *)
(* with the same exceptions, and save what is typed while getChanges goes    *)
(* through the list or is under way when the connection is replaced, and     *)
(* what follows a broken frame, of which nobody learns.                      *)
Given == shown \/ Exited \/ Poisoned \/ Frozen \/ lost \in {"race", "frame"}
TypedIsSent ==
    /\ (added > 0) ~> (added = 0 \/ Given)
    /\ (changes > 0) ~> (changes = 0 \/ Given)
    /\ (lost # "nothing") ~> Given
=============================================================================
