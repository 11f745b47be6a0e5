# A model of the collaborative text editor

The repository is a system for editing one text together: a server in C++
(`src/server`), a desktop client in Java (`src/javaClient`), an administrator's
client in Python (`src/client admin`), and two design documents
(`src/DOKUMENTACJA (1).pdf`, `src/DOKUMENTACJA KOŃCOWA.pdf`). This directory
holds TLA+ modules translated from that code, the TLC configurations that check
them on small instances, and proofs checked by TLAPS.

    tlc -workers 2 -config LoginRefinement.cfg MCLoginRefinement
    tlapm SharedNotepadProofs.tla

`PROJECT.json` lists the components, the runs, for every definition the lines
of code it stands for, the hazards of the code with the properties that cover
them, and the places where code and documents disagree.

## 1. The system

### Parts, their state, and how they meet

| part | state | operations |
|---|---|---|
| `Server` (Server.cpp) | `master`, `max_sd`, `run_server` | one thread: `select`, then a handler for each ready descriptor, lowest first; `accept` until it would block; two handlers, incoming and outgoing, each a loop of non-blocking `recv` / `send` |
| `ClientsMonitor` | per descriptor a read state and a write state with byte counts; `logged_clients` (is the CLIENT_ID out?), `rejected_logins` | insert, set, erase; decides which message a client that logs in is sent next |
| `RecvBuffers` | bytes received per descriptor | append, clear |
| `LoginHandler`, `FileIOHandler` | `users.txt`, a buffer of its text | `check_login`: read, search, append, **truncate, write** |
| `Networking` | `netstate` (type and length of the message under way), `send_queues` | `set_multicast` writes a length and a state into `ClientsMonitor` for each receiver |
| `NotepadHandler`, `Note` | contributors, who is to be sent the whole file, each client's edits, who must be sent which, the round (`changes_left`, `last_change`); added and deleted characters; files | join, store, apply, hand out, leave and save |
| administrator's client | GUI (main thread), controller (thread), socket thread per connection; they share `systemMessages`, `systemVariables`, `connected`, `running` and the two buffers, each behind a lock of its own | the GUI puts data and signals; the controller polls; the socket thread sends, receives, sends keep-alives and reports a lost connection |
| its `SendBuffer`, `ReceiveBuffer` | a queue, and the message under way: bytes sent or received, bytes still to come | put, send a part, complete; receive a part, complete, pop |
| desktop client, `Client` | reader, writer, keep-alive and GUI threads over unsynchronised volatile flags `isAlive`, `isRunning`, `sending`, `notepadTaken` | send what was typed every five seconds, apply edits received, ask for files, reconnect, quit |
| desktop client, `Notepad` | the text: characters with a position (a sequence of Integers) and a creator, sorted; `addedBuffer`, `deletedBuffer` | type, delete, apply an edit |
| web client, prototypes, encryption, `protocol.proto` | – | unfinished or not called |

They meet in messages only: a 6-byte header (2 digits of type, 4 of length) and
a body. The server speaks first (LOGIN_REQUEST), the client answers with LOGIN,
the server with CLIENT_ID (the descriptor's number) or LOGIN_REJECTED and waits
for another LOGIN. A client that is logged in sends EDITs; the first to do so
becomes the first contributor and gets a new file, later ones are first sent
the whole note; every edit is passed on to the other contributors.

### What is hard in it

* *Partial sends and receives.* Nothing is queued as bytes: a message is worked
  out anew on every pass from the states, and a byte count says where to go on.
  The administrator's client counts characters where bytes are sent.
* *Descriptors are reused* as soon as they are closed, and five maps in four
  classes are indexed by them.
* *Two states per connection* (read and write) that only make sense together.
* *Rounds* of the notepad, counted by one integer for all clients.
* *Files* rewritten by truncating them first.
* *Three threads* in the administrator's client that check and act on shared
  data under separate locks: each access is atomic, no sequence of them is.
* *Four threads* in the desktop client that use volatile booleans as locks,
  tested and set in two steps, and exceptions that leave them set.
* *Positions* made by one client and put in order by others, while characters
  between them come and go.

### What makes each part correct

* Logging in: a client has what `check_login` said, once, in whole frames; nobody
  is logged in by what the descriptor was used for before; everyone waiting is
  answered; closed sockets go away.
* Users file: no account is lost, and whoever has a line gets in.
* Notepad of the server: what is kept for others is in the note, the last one out
  leaves the note in a file, and books are kept for those who edit and no others.
* Administrator's client: one login at a time, shown pages agree with the login,
  a lost connection is reported once and another one offered; closing ends it; what was put
  into a buffer is what the other end takes out.
* Desktop client: all texts agree once nothing is under way, in whatever order
  edits were made; a flag that is set is held; what is typed is sent or the
  user learns that it is not.

## 2. Modules

| module | models | relation |
|---|---|---|
| `Accounts` | decisions of LoginHandler.cpp as operators | used by all login modules |
| `LoginHandler` | `check_login` call by call, with the file and kills | extends `Accounts` |
| `LoginService` | what logging in promises, without sockets | abstract |
| `LoginServer` | select loop, accept, `client_login`, ClientsMonitor, RecvBuffers, the clients that log in | extends `Accounts` |
| `LoginRefinement` | refinement mapping from `LoginServer` to `LoginService` | extends `LoginServer`, instantiates `LoginService` |
| `SharedNotepad` | handlers of logged clients, Networking, NotepadHandler, Note, files | begins where `LoginServer` ends |
| `AdminClient` | GUI, controller and socket threads; the server as its environment | messages whole |
| `Framing` | headers and their digits, the width of characters in UTF-8 | used by `AdminBuffers` |
| `MessageStream` | messages arrive whole, in order and once while a stream is intact | abstract |
| `AdminBuffers` | SendBuffer, ReceiveBuffer, KeepAlive and the socket loop byte by byte | below `AdminClient`; instantiates `MessageStream` once per direction |
| `Characters` | positions, comparing, adding, removing, in Notepad.java and Note.cpp | operators |
| `DesktopNotepad` | several clients that type, delete, send, apply and join | extends `Characters` |
| `DesktopClient` | one client's threads over their flags | |
| `LoginHandlerProofs`, `LoginServerProofs`, `SharedNotepadProofs`, `AdminClientProofs`, `AdminBuffersProofs`, `DesktopClientProofs`, `CharactersProofs`, `DesktopNotepadProofs` | theorems | each extends the module it is named after; `LoginServerProofs` by way of `LoginRefinement`, the last also `CharactersProofs` |
| `MC…` | values for the constants | |

An operator named X_Y is X with a fault Y put in, kept to show that a property
notices it; no specification uses it.

**LoginHandler.** Actions `Call`, `Decide`, `Truncate`, `Write` are the calls of
`check_login` on the file in their order; `Kill` may come between any two and,
after `Truncate`, leaves any number of whole lines. Lines are pairs of character
sequences because `find_user` looks for a text in a text: what it finds is the
end of a login. A line torn by the kill is not modelled.

**LoginServer.** A step is one socket call and everything the program does
before the next, so the network and the clients interleave exactly where they
can. `pc` says whether the program is in `select`, in the scan, in `accept`'s
loop or in a handler; `Select`, `VisitReadable`, `VisitWritable` and `EndRound`
are `run`; `Accept…` is `handle_new_connection`; `Send…` and `Recv…` are the branches
of `client_login` with `send_msg` / `recv_msg`; `Close` is the end of
the incoming handler. Bytes carry the message they belong to and their place in
it, so that mixing, skipping and repeating show. Headers are `HeaderSize` bytes,
of which the runs use 1 or 2: what matters is that a header and a body can be cut
anywhere. `read_state` is "NONE" where ClientsMonitor has no entry. After its
CLIENT_ID a client is silent here. `RecvEnds` is a `recv` that returns 0: the client has left, or
0 bytes are asked for, as after a keep-alive's header, and something is there to read; while nothing
is, such a `recv` says EAGAIN and the client waits (`kept`), until its user fills the form at last
(`ClientAnswerLate`). `CallsMayFail` lets `accept` and `setsockopt`
fail; a socket on which FIONBIO failed would block the server in `recv`, which the model does not do. The bytes of a message are those of the
string although `send_nbytes` hands `send` the `c_str()` of a temporary
(Server.cpp:634).

**SharedNotepad.** Editing. Logging in is two steps (`Join`, `LoginDone`). Between them a multicast may
put its own length where the bytes left of the header are counted: `client_login` then sends that many of
its own header, more than there are, and substr throws (`LoginAborts`). A length is sent in four digits (`Coded`): what is
negative, or has more digits, is not what comes out. Any
ready descriptor may be served next, which covers every order of the scan.
Headers and received bodies move whole; bodies are sent in parts, because
a multicast may come between two of them. An edit adds or deletes one character,
which is a number; all edits have the same length, so that a `PendingChanges` is
no more than its sender. Undefined behaviour is a choice: `changes_left` starts
anywhere in `FirstLeft`; the flag in `get_first_obs_len` may stop the search at
once; `buffers[1]` past the end is an empty string or a crash; `front()` of an
empty list ends the server. `pc` is "aborted" when an exception leaves the
handlers, "hung" when the outgoing handler loops for ever, "stopped" when
`select` fails on a closed descriptor. Requests for files come from clients that
do not edit yet.

**AdminClient.** A step is one access to a locked resource. A callback of the GUI
is the list of accesses it makes (`todo`), the controller is a program counter
over the accesses of `main_loop`, and each socket thread does one of its loop's
four parts at a time. Calls of the controller into the GUI wait until no callback
runs, as Tk does with calls from another thread, and end the controller when the
window is closed. Each is a step of its own (`Show`), so that a click may fall between the two or
more of an `update_on_` method; `overtaken` records that a log-out did. The popups are Tk roots with a
`mainloop` of their own: closing the window does not close them, and the program
only goes on to end its work when the last one is gone (`MainloopReturns`). A socket that cannot be
created ends the controller (`SocketFails`). Errors that end a thread (a KeyError, unpacking None) are the
label "dead". `systemMessages` is a set: it is only asked for members, and
cleared of all copies at once; `ClickReconnect` is not repeated while the message
is there. Messages travel whole and time is abstracted: the keep-alive's first
or second half may be over at any time. Buffers of a thread that has ended are
dropped, because nobody reads them. The server sends LOGIN_REQUEST on connecting,
answers a LOGIN or, as the one in `src/server` does with a client it has let in
before, takes it without an answer, and may close at any time. It never answers account
requests, and neither does the model's.

**AdminBuffers.** What `AdminClient` takes as whole messages, in bytes. `Send(n)`
and `Receive(n)` are one pass of the socket thread's loop in which `send` takes or `recv`
gives n bytes, with all that `get_message`, `update_on_total_sent` and
`collect_message` do then; `SendKeepAlive` is half the time passing with nothing
to do; `CheckEnd` is the end of the loop's body, `EndWorkMessage` and
`EndWorkFlag` the two steps of `end_work`. A byte knows its character and its place in it, so that
`encode`, `decode` and counting characters for bytes are what they are. The server
is whatever posts well-formed messages and reads bytes, one after the other (`ReadByte`); `Frames`
is what it finds in them. `sent` of the one stream is what was put into the send buffer, `delivered` what is
in those frames; of the other, what the server posted, and what was
received or popped. `OutIntact` and `InIntact` name all that breaks a stream:
a keep-alive that was cut, a character of more than one byte, a length of more than two digits.

**Characters, DesktopNotepad.** `getChar`, `compare`, `addChar`, `removeChar`,
`applyChanges`, `toCharacter` and `toString` as operators. What `std::sort` leaves is any arrangement
in which no character follows one that it comes before: the creator that should decide between equal
positions is not set in `Note`. `getChar` compares
Integers with `==`, so a number is a pair [n, box] whose box tells objects
apart above `Cached` (127 in Java). The actions are a client's `Type`, `Delete`,
`SendChanges` and `Apply`, each a whole handler, and a client that joins. The
server between them keeps and passes on each edit once and in one order, as the
documentation has it: what the code does instead is `SharedNotepad`'s subject, and
this module asks whether clients agree even so. `reused`, `misread`, `foreign` and
`revived` record that one of four defects of the code has happened (a position
given twice, numbers compared as objects, a foreign character deleted, a client
joining after that); the properties except exactly those. `reused` covers the
characters kept from before as well: two of them may have one position in a file already.

**DesktopClient.** Four threads as program counters. A step reaches to the next
access to what others share: test and set of `sending`, and of `notepadTaken`, are two steps, header and
body of a message two writes. `frame` records whose body the server expects: "broken" once another thread's
header or body has come in between, and an edit written so counts as `lost`. `Spin`, `WriteHeader`, `WriteBody` are
`writeMsg`, used by three threads; `CopyChanges` and what follows is `getChanges`,
during which the user may type. `fileListRequest`, `Reconnect` and `quit` are the
GUI's. `getMsg` is there twice, for the reader (`GetHeader`, `GetBody`, `ApplyEdit`, `FilesSpin`, `SelectFile`)
and for the two calls that `login` makes in the GUI thread (`LoginHeader` to `LoginMisreads`), each with
header, body and dispatch as steps, so that both may read in turn from one input. Reconnecting
makes a new input; `stale` is a reader still on the old one. `Post` sends whatever `getMsg` takes, an answer to a login that
was never sent included; the server in `src/server` gives none, which is the case that no `Post` happens. An exception leaves the thread "dead" or, in the writer after
`printf`, "threw" with `sending` set. Of the text there is only how much is typed.

## 3. Runs

| run | bounds | states / time | shows |
|---|---|---|---|
| `accounts` | logins "", "b", "ab"; 2 passwords, 1 with a blank | 596 / 1 s | `NoShadowing`: no line hides a later one; `RegisteredUserIsRecognised`; `TruncationLosesNothing` |
| `login` | 2 descriptors, 2 clients at a time, one of which may be late; header 2 bytes, login 1, socket buffer 1, calls that fail | 1,170,358 / 124 s | `OnlyOpenSockets`, `HalfDuplex`, `FramesIntact`, `NeverAborts`, `OnlyVerifiedLogIn`, `MembersAreLoggedIn`, and `ImplementsService`: refinement of `LoginService` |
| `login_live` | 2 clients at a time, one of which may be late; sizes 1, no failing calls | 417,247 / 118 s | `EveryDescriptorScanned`, `EveryoneIsAnswered`, `BacklogDrains`, `DescriptorsComeBack` |
| `notepad` | 3 connections over 2 descriptors, 3 messages, edits of 6 bytes, queue 3 | 2,667,646 / 90 s | `SavedIsCurrent`, `TrackersAreContributors`, `StoredIsApplied`, `AloneIsSafe` |
| `admin` | 2 connections, 2 clicks, 1 account, 1 popup at a time | 624,914 / 125 s | `OldThreadsAreDone`, `OneLoginOutstanding`, `AdministrationNeedsLogin`; `LostIsOffered`, `ClosingEnds` |
| `buffers` | 2 messages, binary numbers, 1 keep-alive, 27 bytes sent | 454,779 / 91 s | `SendsWhatWasPut`, `ReceivesWhatWasSent`: both directions refine `MessageStream`; `EndsWithEverythingSent`; `BufferDrains` |
| `desktop_text` | 3 clients, 2 characters typed, 1 deleted, a note of 2 before them | 1,891,089 / 148 s | `TextSorted`, `Converges`, `NoteIsText` |
| `desktop` | 1 character waiting, 1 request or reconnection | 1,004,675 / 23 s | `FlagsAreHeld` |
| `desktop_live` | the first connection | 80,683 / 88 s | `UserLearns`, `TypedIsSent` |
| `accounts_wipe`, `notepad_header`, `desktop_frames` | as above or smaller | | violations, section 5 |

Each passing run checks its module's `TypeOK` as well (`login_live` and `desktop_live` excepted, which are
of the modules of `login` and `desktop`).

Why the bounds are enough for what is asked. Two descriptors let one client's
step come between any two of another's, and a client that leaves has its
descriptor used again; a socket that takes fewer bytes than a message has makes every
send partial. Late is a client that keeps its connection alive before it logs in (`Late`).
In the notepad two editors and one that joins later are needed for
`to_fetch_changes`, and three messages for an edit, one that crosses it and one
after. Two connections of the administrator make one reconnection, so that an
old socket thread meets a new one; two clicks make every pair of requests. In `buffers` numbers are binary,
so that a length of three digits takes 4 bytes instead of 100; a header, a body and a
keep-alive are each cut anywhere, alone and behind another message, and 27 bytes
are exactly two messages, the end-of-work statement and a keep-alive. In `desktop_text`
two characters and one deletion among three clients make two clients type at
the same place, one below a character another deletes, and one join in between;
the note begins with a character below another, so that all cases of
`getChar` occur, and no number but 0 is cached, so that any other comparison may be misread. Letters are
symmetric there: nothing but equality is asked of them, and the properties are invariants. In `desktop`
one waiting character suffices because the writer takes all there are, and one
request is a request for the files or a reconnection. `frame` and `lost` only record what happened, and `MCView`
leaves them out of the comparison of states there; `desktop_live` and `desktop_frames`, which look at them, do not.

Edits of 6 bytes (`CharLen` 5) stand for the only length with which the server
survives a multicast (section 5): with them the notepad's other properties are
asked of a server that goes on. The desktop client's shortest edit is 7 bytes,
which is what `notepad_header` uses.

`CHECK_DEADLOCK FALSE` is set where the system may really stop: the login server waits
in `select` for a descriptor it will not look at once an option could not be set; the
notepad's server waits in `select` once the bounded clients are silent, or has aborted;
the administrator's client may have ended, its socket thread too; the desktop client may have
quit, and its clients have typed all they may.

**Fairness.** `login_live`: the server process runs (weak fairness of its steps as a
whole, `select` giving what is ready), a client reads what has arrived and
finishes a frame it has begun. Nobody has to connect, log in or leave. `admin`:
each thread is scheduled and a callback runs to its end; nobody has to click and
the server owes nothing. `LostIsOffered` excuses a closed window, a
controller that an error has ended, and a log-out amid the update that shows the loss. `ClosingEnds` begins when the popups are closed too.
`buffers`: the socket thread's sending part runs when its socket can be written. `desktop_live`: each thread that can go on does;
a thread that spins on a flag that is cleared again and again gets past it, as does
the writer with `isAlive`: these are strong, because their guards come and go; nothing is asked of the user
or the server. `TypedIsSent` follows the text from the list (`added`) to the edit being written (`changes`) and on to the wire (`lost`).

## 4. Theorems

`LoginHandlerProofs` (for all characters, attempts and initial files):

* `Unhidden`: `InitiallyUnshadowed /\ Spec => []NoShadowing`. A line shadows a
  later one when its login ends with the later one's. The step that matters is the
  append: it only happens when `find_user` found nothing, so no old line ends
  with the new login (`BufferUnshadowed`); a kill leaves a prefix
  (`UnshadowedPrefix`).
* `Recognised`: `... => []RegisteredUserIsRecognised`. In an unshadowed file the first
  match for a login that is there is its own line (`FindsOwnLine`). The assumption
  is on the file the server is first started with, and is needed: with "ab" before "b"
  written by hand, b is checked against ab's password.
* `TypeCorrect`: `Spec => []TypeOK` and `NothingLost`: `Spec => []TruncationLosesNothing`,
  with no assumption on the first file. They rest on the buffer being the file, or the
  file and one line, from `Call` to `Write` (`BufferIsMadeOfFile`).

`LoginServerProofs` (for all sets of descriptors, sizes, clients and logins,
whether calls fail or not):

* `BooksMatchSockets`: `Spec => []OnlyOpenSockets`
* `SendsOrReceives`: `Spec => []HalfDuplex`
* `VerifiedLogins`: `Spec => []OnlyVerifiedLogIn`
* `Frames`: `Spec => []FramesIntact`, `NoAbort`: `Spec => []NeverAborts`, `BothEndsAgree`:
  `Spec => []MembersAreLoggedIn`, `TypeCorrect`: `Spec => []TypeOK`
* `Scanned`: `CallsMayFail = FALSE /\ Spec => []EveryDescriptorScanned`. With calls that fail
  it is false: `handle_new_connection` returns before it raises `max_sd`.

None of the first three is inductive alone. A handler finds what to do by the states
kept for a descriptor, so the books stay right only while a descriptor without a
read state has no write state (`NoEntryNoState`); a new verdict may not fall on a
client that is logged in, which needs that such a client still owes its CLIENT_ID
and so is not receiving (`IdIsOwed`, with `HalfDuplex`). `IInv` is their
conjunction with the functions' domains (`Shape`); there is one lemma per group of
actions and one case per branch of `send_msg` and `recv_msg`.

The byte properties need more: nothing says of a byte count that it is right but the bytes
themselves. `FInv` adds to `IInv` the kinds of bytes on each wire (`BytesShape`) and, for each
descriptor, that the two ends take turns (`Conversation`). What the client has not consumed is a
prefix of the one frame the states name, as long as the write count says (`Outward`, `CountFits`); until
it has read all of that, nothing is on its way to the server, and afterwards nothing but one
answer, of which the server has taken as much as the read count says (`Inward`). The frame that `get_login_state`
works out anew on each send is the same one each time because the verdict it depends on only
changes while the server receives (`VerdictFits`). A descriptor that is not in use has nothing on
its wire (`NothingLeft`), so that reuse begins a conversation from nothing.

The service:

* `Implements`: `Spec => ImplementsService`. Each step of `LoginServer` is, under the mapping of
  `LoginRefinement`, a step of `LoginService` or a stutter. The mapping reads a connection's stage off bytes and
  states, so that the simulation holds in the states of `FInv` only: the steps that cut a frame keep
  the stage (`StageKept`), the one that completes a LOGIN is the service's decision, and it is the one
  place at which the users file changes; the decision itself is the same
  operator on both sides (`SameDecision`).

`SharedNotepadProofs` (for all sets of descriptors, numbers of clients and
messages, lengths of edits and first values of `changes_left`):

* `Inductive`: `Spec => []IInv`, and from it `Saved`: `[]SavedIsCurrent`, `Trackers`:
  `[]TrackersAreContributors`, `Stores`: `[]StoredIsApplied`
* `AloneSafe`: `Spec => []AloneIsSafe`. It excludes that the server stops or hangs; that it aborts
  is allowed for two reasons that the property names, a deletion and an unreadable header
* `TypeCorrect`: `Spec => []TypeOK`. Most of it are the shapes of `IInv`; what remains
  is that a saved file is a text, for which the loop that takes deleted characters away
  (`Left`) has to be followed (`LeftIsText`).

The first three hang together. The file stays the note after the last editor has
gone only if no edit is applied for a client that is not registered as one
(`Owners`), and the server decides whether a body is an edit by the last header.
So the proof follows what a client has under way: its stream alternates between headers
and bodies and begins with what the read state waits for (`Stream`), and all its
requests come before its edits (`Requests`), so that the body of a request is
never taken for an edit. `IInv` is these with the shapes of the state and the
three properties, proved action by action. For `AloneSafe` one has to know
besides that a character still under way is neither in the note nor under way
twice (`Fresh`), and that with one editor whatever is passed on is passed on to
nobody (`Quiet`): queues stay empty, hence no state is ever left for a
descriptor that is closed and no count of bytes grows beyond a header; and that every
step to "aborted" has one of the two reasons, which stay (`Explained`).

`AdminClientProofs` (for any accounts, and any number of clicks and connections):

* `Inductive`: `Spec => []IInv`, and from it `TypeCorrect`: `[]TypeOK`, `OldThreads`:
  `[]OldThreadsAreDone`, `OneLogin`: `[]OneLoginOutstanding`, and `Administration`:
  `[]AdministrationNeedsLogin`

The three hang together, because each asks where the GUI's callback, the controller and
the socket thread are between their checks. A reconnection can only be asked for by the
button, and the button is only shown once the latest thread has told its loss and ended
(`Threads`: while the button, a callback that will ask, or RECONNECT is there, the latest thread is
`Told`; not so between the reconnection and the removal of the message, which is why the page
is shown first). A second login could start from `handle_login`, which looks at "waiting" and
"authenticated", or from `check_if_already_logged_in`, which looks at neither "waiting" nor a login under way:
it runs only when a greeting has been read, and what has to be known is that a greeting
comes first on its connection (`GreetingFirst`) and that until then whoever is still logged in has
nothing unanswered on the new connection (`Turns`). The page follows from `log_out` forgetting
"authenticated" first and ending with the login page, with the controller's calls kept out
until then (`Views`). They are only kept out one by one: a log-out between the two calls of
`update_on_successful_login` leaves the administration page on top without a login, which the code does, and the
property excepts by `overtaken`. `Mailboxes` counts logins and answers in the four sequences they pass through.

`AdminBuffersProofs` (for any base of numbers, letters, widths, messages that fit a
header, and any bounds):

* `TypeCorrect`: `Spec => []TypeOK`, which says that less is always received of a message than is expected
* `Receives`: `Spec => ReceivesWhatWasSent` and `Sends`: `Spec => SendsWhatWasPut`: either direction
  implements `MessageStream`, however the socket cuts the bytes
* `EndsSent`: `Spec => []EndsWithEverythingSent`

These relate sequences of bytes of any length to the messages they were made of, and nothing of that is
a formula of one state until both ends are given words. For the direction from the server (`StreamIsRead`,
as long as `InIntact`): there are messages, posted and not yet arrived, such that what the
buffer has of the first followed by the bytes on their way is the text of them all (`InStep`). A
piece moves text from one side of that equation to the other; the lengths say that it never reaches beyond
the header or the body waited for, so that what is complete is the first message's own
header or body and not a part of the next. For the direction to the server (`StreamIsSent`, as long as
`OutIntact`): each message of the queue has its place among those put, keep-alives have none (`Waiting`), so
that adding at the end and removing at the head keep the order; and the state of a reader of all the bytes sent is
"after the messages before the queue, and in the first of the queue as far as `get_message` has
counted" (`UnderWay`, `ServerHas`). That every message put is one a header can
describe is `AcceptedWere`; `EndsSent` adds to this that the flag is set with the count of messages
put before (`Told`). TLC has checked these invariants on the instance of the run `buffers` before.

They rest on what the loops of `Framing` compute. A header gives back its type and its length, of which
`LengthRead` sees two digits and `msg_len` four (`HeaderReadBack`); encoding and decoding characters of one byte gives them
back wherever the bytes are cut (`EncodeNarrow`, `NarrowIsDecoded`); and a reader of frames who goes on with a piece of a frame
is as far in it as the piece reaches (`ReadPiece`).

`DesktopClientProofs` (for any number of characters, requests, reconnections):

* `HeldFlags`: `Spec => []FlagsAreHeld`. It is inductive as it stands: a flag is set by the step
  that brings its thread to where it holds it, and a thread leaves that place
  only by clearing the flag or by dying.
* `TypeCorrect`: `Spec => []TypeOK`. A connection is counted a step after the GUI asked for it,
  so that the counts stay in their bounds only because a connection under way leaves room (`Pending`); at most
  one message is unread because the reader takes one before another comes.

`CharactersProofs` and `DesktopNotepadProofs` (for any number of clients, letters, characters
typed and deleted, any first note, and any limit above which Integers are objects of their own):

* `NewPositionIsBetween`: what `NewPosition` gives for two neighbours lies between
  them, unless `Throws` or `Misread`; one case per branch of `getChar`
* `TypeCorrect`: `Spec => []TypeOK`, and `SortedAlways`: `Spec => []TextSorted`
* `Converge`: `Spec => []Converges`, and `SavesTheText`: `Spec => []NoteIsText`

`ComparePositions` says `-1` exactly when one position is before the other by the first place
at which they differ (`ComparedByPlace`), which is a transitive order. That alone does not
keep a text sorted. Case 1 of `getChar` subtracts one from the last number of the next
character and stays behind the previous only if that number was above zero, and `addChar`
begins after the invisible character without looking at it. What is needed is that every position
anywhere, in a text, in a buffer, on its way, or in the server's note, ends above zero.
`IInv` says so of all of them (`TextsShape`, `BuffersShape`), with the
remaining types (`OtherShape`) and the order itself (`InOrder`). The loops of `removeChar`,
`applyChanges` and `Left` are recursive functions of a number, as those of `Framing` are. Since the
library's induction cannot be used, `LoopRuns` and `LoopKeeps` show from the well-founded order of the
numbers that such a function exists and keeps what each of its steps keeps.

`Converges` and `NoteIsText` say nothing until all is quiet, so `CInv` keeps the books until then,
as long as the server is up and no position was reused or misread (`Undisturbed`). Every
character has one place (`OnePlace`) and is in the note or in one client's added buffer (`Apart`,
`Recorded`, `Within`); a client that has not joined shows nothing and has nothing under way (`Absent`); what
comes to one is new to it, comes once, and never after its deletion (`Coming`);
what is deleted bears its creator's name (`OwnDeleted`, until a `foreign` deletion). `Balanced` is
the sum: what a client shows once it has applied all that comes to it is what is
left of the note once all that the client has done was sent to it. For this the loops over texts
are turned into operations on the set of what a text shows (`addCharShows`, `removeCharShows`,
`applyChangesShows`), which commute where the loops do not. The sets give the
texts back, because a sorted text is determined by what it shows (`SameMarksSameText`),
and the saved letters are those of any sorted text that shows what is left (`toStringIsText`).

Assumptions: the named ASSUMEs of the modules (descriptors above the listening
one and below FD_SETSIZE; sizes positive; bounds that are numbers; the note a server begins
with has positions such as `getChar` makes; there is an account, and None is none; the administrator's messages and the server's
are not empty, fit a header and are no keep-alives of the controller's), each of which some run evaluates.

tlapm 1.4.5 hands sequences to the SMT solver with an axiom that is too strong: it lets
`Len(f) = n` and `DOMAIN f = 1..n` stand for one another for every function f, though `Len` of
a function that is no sequence is unspecified. All proofs were also
checked with the axiom cut down to the direction that is true, and none depends on the other.

Only model-checked: the liveness properties `EveryoneIsAnswered`, `BacklogDrains`, `DescriptorsComeBack`,
`LostIsOffered`, `ClosingEnds`, `BufferDrains`, `UserLearns` and `TypedIsSent`. They depend on fairness,
for which, as for ENABLED, the prover has no backend. Every safety property of the passing runs is a theorem,
`EveryDescriptorScanned` for calls that do not fail, as the run has it.

## 5. Where code and documents disagree

Each of these is a run that TLC ends with a counterexample; `PROJECT.json` quotes the text.

* `accounts_wipe`: a login with a blank empties the users file (LoginHandler.cpp:49 with 20).
* `notepad_header`: passing on an edit longer than 6 bytes ends the server (Networking.cpp:63, Server.cpp:633).
* `desktop_frames`: two threads pass the spin of `writeMsg` before either sets `sending`, and one's
  header lands in the other's frame (Client.java:195; comment at :46).

Others are in the models, as what the code does, without a run of their own. Where a passing run's property is
disturbed by one, the property excepts it by the name given here: the run does not speak against the defect, it
shows that nothing else breaks the property.

* A client that keeps its connection alive before it logs in waits unanswered, and is cut off when its login
  comes (Server.cpp:668; section 11.2; `kept`).
* `find_user` finds a login that merely ends like the one sought (LoginHandler.cpp:98; the comment at :97 says otherwise). The theorems bound what it does to users.
* A last editor whose connection is reset or ends within a message is closed without saving the note (Server.cpp:316; comment at :286, section 11.3).
* A second EDIT sent before the first was answered is dropped with its connection (Server.cpp:281).
* Edits of a client that joined later are applied again each time it is sent the file (Server.cpp:446), and it goes on being sent it.
* "waiting for login answer" outlives the connection on which the login was sent: on the next one no login is sent (client_controller.py:144, :150).
* A log-out between two calls of one update leaves the administration page on top without a login (gui.py:59), or the login page over the reconnect button (gui.py:67; section 10.3): `overtaken`.
* Windows closed while the controller reconnects leave a socket thread that is not told to end (client_controller.py:319; section 10.4).
* A keep-alive sent in part is sent for ever: what is left is compared with its whole length (socket_client.py:223). Lengths are counted in characters, not bytes (:226). `OutIntact` excepts both. Two of a length's four digits are read (protocol_wrapper.py:50; section 8.1; `InIntact`).
* `toCharacter` does not read the creator (Notepad.java:332; section 9.1), so two characters at one position are taken for one (`reused`); `Note` looks for a deleted character under the deleting client's number (Note.cpp:98; section 9.1), so another's stays in the note (`foreign`, `revived`).
* After a lost connection and a new one what is typed is never sent: the threads have ended and are not created again (Client.java:254, Notepad.java:202; section 9.4). `TypedIsSent` is about the first connection.
* `getChar` compares Integers as objects (Notepad.java:285), which is wrong above 127 (`misread`).
* An edit that only deletes has the server read `buffers[1]` past the end (Note.cpp:88).
* A '%' typed makes `printf` throw and leaves `sending` set (Client.java:198; `Poisoned`); a short read is taken for a broken connection (:69); `quit` loses what is in the lists (:208; sections 9.4 and 9.5); LOGIN is not sent on reconnecting (:172 is commented out).

## 6. Not modelled, and what is left

Not modelled: opening the listening socket (once, before the loop); the order `Note` gives to
equal positions, which an uninitialised creator decides; `NotepadHandler::init` and
`setBuffers` (never called); a LOGIN without a newline; answers to account
requests, which no server sends; the desktop client's first login, before its
threads exist; its caret, dialogues and local files; the web client
(unfinished), encryption (not called), prototypes and `protocol.proto` (superseded); views, tests and settings.

No property is stated about a second editor beyond those above. Which edit it is
sent, how often, and when a round ends depend on an integer that starts undefined
and on whatever is at the head of a list; a delivery specification, *each edit
reaches every other contributor once and in order*, is false from the first round, and no
condition short of having one editor was found under which it holds. `AloneIsSafe` says what is left.

What could be added: that the administrator's threads of `AdminClient`, whose messages travel whole, and
the byte-wise `AdminBuffers` fit together in one module, with `MessageStream` between them.
