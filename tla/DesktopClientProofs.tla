------------------------- MODULE DesktopClientProofs -------------------------
(***************************************************************************)
(* However much is typed, asked for and reconnected, the desktop client's  *)
(* threads never wait for a flag that nobody holds.                        *)
(*                                                                         *)
(* The invariant is inductive as it stands: a flag is set by the step that *)
(* brings its thread to where it holds it, and a thread leaves that place  *)
(* only by clearing the flag or by dying.  What has to be seen is that no  *)
(* other thread's step moves the holder, quit apart, which clears both.    *)
(***************************************************************************)
EXTENDS DesktopClient, SequenceTheorems, TLAPS

SendingIsHeld == sending => \E t \in Writers : At(t) \in {"body", "threw"}
NotepadIsHeld == notepadTaken => \/ writer \in {"clear", "dead"} \/ reader \in {"apply", "dead"}
                                 \/ gui \in {"first_edit", "second_edit"}

LEMMA TwoFlags == FlagsAreHeld <=> SendingIsHeld /\ NotepadIsHeld
BY DEF FlagsAreHeld, SendingIsHeld, NotepadIsHeld

(* Where the three that write are, without At. *)
LEMMA SendingUnfolded ==
    SendingIsHeld <=>
        (sending => \/ writer \in {"body", "threw"} \/ keepAlive \in {"body", "threw"}
                    \/ gui \in {"body", "threw"})
BY DEF SendingIsHeld, Writers, At

LEMMA InitFlags == Init => FlagsAreHeld
BY DEF Init, FlagsAreHeld

(* Steps at which neither flag is set and no holder moves. *)
LEMMA FlagsUntouched ==
    ASSUME FlagsAreHeld,
           UNCHANGED <<sending, notepadTaken>>,
           writer' # writer => writer \notin {"body", "threw", "clear", "dead"},
           reader' # reader => reader \notin {"apply", "dead"},
           keepAlive' # keepAlive => keepAlive \notin {"body", "threw"},
           gui' # gui => gui \notin {"body", "threw", "first_edit", "second_edit"}
    PROVE  FlagsAreHeld'
BY TwoFlags, SendingUnfolded DEF FlagsAreHeld, Writers, At

LEMMA WriteMsgKeepsFlags ==
    ASSUME FlagsAreHeld, NEW t \in Writers, writeMsg(t)
    PROVE  FlagsAreHeld'
<1>1. CASE Spin(t)
  BY <1>1, FlagsUntouched DEF Spin, Step, At, Writers, flags
<1>2. CASE WriteHeader(t)
  <2>1. At(t)' = "body"
    BY <1>2 DEF WriteHeader, Step, At, Writers
  <2>2. NotepadIsHeld'
    BY <1>2 DEF WriteHeader, Step, At, Writers, NotepadIsHeld, FlagsAreHeld
  <2> QED
    BY <2>1, <2>2 DEF FlagsAreHeld, NotepadIsHeld
<1>3. CASE WriteBody(t)
  BY <1>3 DEF WriteBody, Step, At, Writers, FlagsAreHeld
<1>4. CASE FormatThrows(t)
  <2>1. At("writer")' = "threw"
    BY <1>4 DEF FormatThrows, Step, At
  <2>2. NotepadIsHeld'
    BY <1>4 DEF FormatThrows, Step, At, NotepadIsHeld, FlagsAreHeld, flags
  <2> QED
    BY <2>1, <2>2 DEF FlagsAreHeld, NotepadIsHeld, Writers
<1> QED
  BY <1>1, <1>2, <1>3, <1>4 DEF writeMsg

LEMMA WriterKeepsFlags ==
    ASSUME FlagsAreHeld, Writer
    PROVE  FlagsAreHeld'
<1>1. CASE WriterTests \/ WriterWakes \/ WriterSpins \/ WriterCloses
  BY <1>1, FlagsUntouched DEF WriterTests, WriterWakes, WriterSpins, WriterCloses, Step, At, flags
<1>2. CASE CopyChanges \/ ClearChanges
  BY <1>2 DEF CopyChanges, ClearChanges, Step, At, FlagsAreHeld, Writers
<1>3. CASE ListHasGrown
  BY <1>3 DEF ListHasGrown, Step, At, FlagsAreHeld, Writers, flags
<1>4. CASE writeMsg("writer")
  BY <1>4, WriteMsgKeepsFlags DEF Writers
<1> QED
  BY <1>1, <1>2, <1>3, <1>4 DEF Writer

LEMMA ReaderKeepsFlags ==
    ASSUME FlagsAreHeld, Reader
    PROVE  FlagsAreHeld'
<1>1. CASE ReaderTests
  BY <1>1, FlagsUntouched DEF ReaderTests, Step, At, flags
<1>2. CASE GetHeader
  BY <1>2, FlagsUntouched DEF GetHeader, Step, At
<1>3. CASE GetBody
  BY <1>3 DEF GetBody, Dispatched, Step, At, FlagsAreHeld, Writers
<1>4. CASE ApplyEdit \/ SelectFile
  BY <1>4 DEF ApplyEdit, SelectFile, Step, At, FlagsAreHeld, Writers
<1>7. CASE FilesSpin
  BY <1>7, FlagsUntouched DEF FilesSpin, Step, At, flags
<1>5. CASE ReadBreaks("getHeader") \/ ReadBreaks("getBody")
  BY <1>5, FlagsUntouched DEF ReadBreaks, Step, At
<1>6. CASE Misread("getHeader", "header") \/ Misread("getBody", "body")
  BY <1>6, FlagsUntouched DEF Misread, Step, At, flags
<1> QED
  BY <1>1, <1>2, <1>3, <1>4, <1>5, <1>6, <1>7 DEF Reader, getMsg

LEMMA KeeperKeepsFlags ==
    ASSUME FlagsAreHeld, Keeper
    PROVE  FlagsAreHeld'
<1>1. CASE KeeperTests \/ KeeperWakes
  BY <1>1, FlagsUntouched DEF KeeperTests, KeeperWakes, Step, At, flags
<1>2. CASE writeMsg("keepAlive")
  BY <1>2, WriteMsgKeepsFlags DEF Writers
<1> QED
  BY <1>1, <1>2 DEF Keeper

LEMMA GuiKeepsFlags ==
    ASSUME FlagsAreHeld, GuiGoesOn \/ Type \/ fileListRequest \/ quit \/ Reconnect
    PROVE  FlagsAreHeld'
<1>1. CASE Connects \/ CannotConnect
  BY <1>1, FlagsUntouched DEF Connects, CannotConnect, BeginsLogin, Step, At, flags
<1>2. CASE Login
  <2>1. ASSUME NEW from \in {"first", "second"}, LoginGetsMsg(from)
        PROVE  FlagsAreHeld'
    <3>1. CASE LoginHeader(from)
      BY <3>1, FlagsUntouched DEF LoginHeader, Step, At
    <3>2. CASE LoginBody(from)
      <4>1. loginKind = "EDIT" => gui' \in {"first_edit", "second_edit"}
        BY <3>2 DEF LoginBody, InEdit, Step
      <4>2. NotepadIsHeld'
        BY <3>2, <4>1 DEF LoginBody, InBody, Step, At, NotepadIsHeld, FlagsAreHeld
      <4>3. SendingIsHeld'
        BY <3>2, TwoFlags, SendingUnfolded DEF LoginBody, InBody, Step, At, SendingIsHeld, Writers
      <4> QED
        BY <4>2, <4>3 DEF FlagsAreHeld, NotepadIsHeld, SendingIsHeld
    <3>3. CASE LoginApplies(from)
      BY <3>3 DEF LoginApplies, InEdit, Step, At, FlagsAreHeld, Writers
    <3>4. ASSUME NEW place \in {from, InBody(from)}, LoginBreaks(from, place)
          PROVE  FlagsAreHeld'
      BY <3>4, FlagsUntouched DEF LoginBreaks, InBody, Step, At
    <3>5. ASSUME NEW place \in {from, InBody(from)}, NEW what, LoginMisreads(place, what)
          PROVE  FlagsAreHeld'
      BY <3>5, FlagsUntouched DEF LoginMisreads, InBody, Step, At, flags
    <3> QED
      BY <2>1, <3>1, <3>2, <3>3, <3>4, <3>5 DEF LoginGetsMsg
  <2>2. CASE LoginTests \/ LoginEnds
    BY <2>2, FlagsUntouched DEF LoginTests, LoginEnds, Step, At, flags
  <2> QED
    BY <1>2, <2>1, <2>2 DEF Login
<1>3. CASE writeMsg("gui")
  BY <1>3, WriteMsgKeepsFlags DEF Writers
<1>4. CASE GuiShows \/ Type
  BY <1>4, FlagsUntouched DEF GuiShows, Type, flags, pcs
<1>5. CASE fileListRequest \/ Reconnect
  BY <1>5, FlagsUntouched DEF fileListRequest, Reconnect, Step, At, flags
<1>6. CASE quit
  BY <1>6 DEF quit, FlagsAreHeld
<1> QED
  BY <1>1, <1>2, <1>3, <1>4, <1>5, <1>6 DEF GuiGoesOn

LEMMA NextKeepsFlags == FlagsAreHeld /\ [Next]_vars => FlagsAreHeld'
<1> SUFFICES ASSUME FlagsAreHeld, [Next]_vars PROVE FlagsAreHeld'
  OBVIOUS
<1>1. CASE Reader \/ Writer \/ Keeper
  BY <1>1, ReaderKeepsFlags, WriterKeepsFlags, KeeperKeepsFlags
<1>2. CASE GuiGoesOn \/ Type \/ fileListRequest \/ quit \/ Reconnect
  BY <1>2, GuiKeepsFlags
<1>3. CASE ServerLeaves \/ \E k \in Kind \ {"REQUEST_LOGIN"} : Post(k)
  BY <1>3, FlagsUntouched DEF ServerLeaves, Post, flags, pcs
<1>4. CASE UNCHANGED vars
  BY <1>4, FlagsUntouched DEF vars, flags, pcs
<1> QED
  BY <1>1, <1>2, <1>3, <1>4 DEF Next

(* sending is set only while a thread writes a body, notepadTaken only while *)
(* one is at the text, or the thread that set it was killed by an exception: *)
(* for any number of characters, requests and reconnections                  *)
(* (Client.java:46-47).                                                      *)
THEOREM HeldFlags == Spec => []FlagsAreHeld
<1>1. Init => FlagsAreHeld
  BY InitFlags
<1>2. FlagsAreHeld /\ [Next]_vars => FlagsAreHeld'
  BY NextKeepsFlags
<1> QED
  BY <1>1, <1>2, PTL DEF Spec
-----------------------------------------------------------------------------
(* Types.  A connection is only made after a request that was counted, so    *)
(* that the bound holds although making it is a step of its own: until then  *)
(* the GUI thread asks for nothing else (Pending).  What has arrived is      *)
(* headers, bodies and rests, so that a header that is read has a kind.      *)
Arriving == {Header(k) : k \in Kind} \cup {Body(k) : k \in Kind} \cup {Rest}

Places ==
    /\ reader \in {"test", "getHeader", "getBody", "apply", "files", "select", "ended", "dead"}
    /\ writer \in {"test", "sleep", "taken", "copy", "clear", "ended", "dead", "threw"}
                    \cup WritePlaces
    /\ keepAlive \in {"test", "sleep", "ended"} \cup WritePlaces
    /\ gui \in {"idle", "connect", "exited"} \cup LoginPlaces \cup WritePlaces

Booleans ==
    /\ isAlive \in BOOLEAN /\ isRunning \in BOOLEAN /\ sending \in BOOLEAN
    /\ notepadTaken \in BOOLEAN /\ canLogIn \in BOOLEAN /\ stale \in BOOLEAN
    /\ asked \in BOOLEAN /\ shown \in BOOLEAN

Typed ==
    /\ added \in 0..MaxAdded /\ changes \in 0..MaxAdded
    /\ frame \in {"none", "broken"} \cup Writers
    /\ lost \in {"nothing", "connection", "race", "frame"}

Connected ==
    /\ kind \in Kind /\ loginKind \in Kind
    /\ socket \in {"open", "left", "closed"}
    /\ inbox \in Seq(Arriving) /\ Len(inbox) <= 2

Pending ==
    /\ asks \in Nat /\ conn \in Nat \ {0}
    /\ Requests <= MaxRequests
    /\ gui = "connect" => Requests < MaxRequests

TInv == Places /\ Booleans /\ Typed /\ Connected /\ Pending

LEMMA InitTInv == Init => TInv
<1> SUFFICES ASSUME Init PROVE TInv
  OBVIOUS
<1>1. Places /\ Booleans
  BY DEF Init, Places, Booleans
<1>2. Typed /\ Pending
  BY BoundAssumption DEF Init, Typed, Pending, Requests
<1>3. Connected
  BY DEF Init, Connected, Kind
<1> QED
  BY <1>1, <1>2, <1>3 DEF TInv

(* What has been taken from the input, or replaced at its front, is an input. *)
LEMMA Arrived ==
    ASSUME Connected, inbox # <<>>
    PROVE  /\ Head(inbox) \in Arriving
           /\ Tail(inbox) \in Seq(Arriving) /\ Len(Tail(inbox)) <= 1
           /\ <<Rest>> \o Tail(inbox) \in Seq(Arriving)
           /\ Len(<<Rest>> \o Tail(inbox)) <= 2
<1>1. Head(inbox) \in Arriving /\ Tail(inbox) \in Seq(Arriving) /\ Len(Tail(inbox)) <= 1
  BY DEF Connected
<1>2. <<Rest>> \in Seq(Arriving) /\ Len(<<Rest>>) = 1
  BY DEF Arriving
<1>3. /\ <<Rest>> \o Tail(inbox) \in Seq(Arriving)
      /\ Len(<<Rest>> \o Tail(inbox)) = Len(<<Rest>>) + Len(Tail(inbox))
  BY <1>1, <1>2, ConcatProperties
<1> QED
  BY <1>1, <1>2, <1>3

LEMMA HeaderHasKind ==
    ASSUME Connected, inbox # <<>>, Head(inbox)[1] = "header"
    PROVE  Head(inbox)[2] \in Kind
<1>1. Head(inbox) \in Arriving
  BY Arrived
<1>2. CASE \E k \in Kind : Head(inbox) = <<"header", k>>
  BY <1>2
<1>3. CASE \E k \in Kind : Head(inbox) = <<"body", k>>
  BY <1>3
<1>4. Head(inbox) # <<"rest", "">>
  <2>1. \A other : <<"rest", other>>[1] = "rest"
    OBVIOUS
  <2> QED
    BY <2>1
<1> QED
  BY <1>1, <1>2, <1>3, <1>4 DEF Arriving, Header, Body, Rest

LEMMA MessageArrives ==
    ASSUME NEW k \in Kind
    PROVE  /\ <<Header(k), Body(k)>> \in Seq(Arriving)
           /\ Len(<<Header(k), Body(k)>>) = 2
<1>1. Header(k) \in Arriving /\ Body(k) \in Arriving
  BY DEF Arriving
<1> QED
  BY <1>1

LEMMA WriteMsgTyped ==
    ASSUME TInv, NEW t \in Writers, writeMsg(t)
    PROVE  TInv'
<1>1. Places'
  <2>1. CASE t = "writer"
    BY <2>1 DEF writeMsg, Spin, WriteHeader, WriteBody, FormatThrows, Step, AfterWrite,
                At, TInv, Places, WritePlaces
  <2>2. CASE t = "keepAlive"
    BY <2>2 DEF writeMsg, Spin, WriteHeader, WriteBody, FormatThrows, Step, AfterWrite,
                At, TInv, Places, WritePlaces
  <2>3. CASE t = "gui"
    BY <2>3 DEF writeMsg, Spin, WriteHeader, WriteBody, FormatThrows, Step, AfterWrite,
                At, TInv, Places, WritePlaces
  <2> QED
    BY <2>1, <2>2, <2>3 DEF Writers
<1>2. gui' = "connect" => gui = "connect"
  BY DEF writeMsg, Spin, WriteHeader, WriteBody, FormatThrows, Step, AfterWrite
<1>3. Booleans'
  BY DEF writeMsg, Spin, WriteHeader, WriteBody, FormatThrows, TInv, Booleans,
         flags, reading, net, seen
<1>4. Typed'
  BY BoundAssumption
  DEF writeMsg, Spin, WriteHeader, WriteBody, FormatThrows, TInv, Typed, First, Broken, Fate,
      note, seen
<1>5. Connected' /\ Pending'
  BY <1>2 DEF writeMsg, Spin, WriteHeader, WriteBody, FormatThrows, TInv, Connected, Pending,
              Requests, reading, net
<1> QED
  BY <1>1, <1>3, <1>4, <1>5 DEF TInv

LEMMA WriterTyped ==
    ASSUME TInv, Writer
    PROVE  TInv'
<1>1. ASSUME WriterTests \/ WriterWakes \/ WriterSpins \/ CopyChanges \/ ClearChanges
               \/ ListHasGrown \/ WriterCloses
      PROVE  TInv'
  <2>1. Places' /\ gui' = gui
    BY <1>1 DEF WriterTests, WriterWakes, WriterSpins, CopyChanges, ClearChanges, ListHasGrown,
        WriterCloses,
                Step, At, TInv, Places, WritePlaces
  <2>2. Booleans'
    BY <1>1 DEF WriterTests, WriterWakes, WriterSpins, CopyChanges, ClearChanges, ListHasGrown,
        WriterCloses,
                TInv, Booleans, flags, reading, net, seen
  <2>3. Typed'
    BY <1>1, BoundAssumption
    DEF WriterTests, WriterWakes, WriterSpins, CopyChanges, ClearChanges, ListHasGrown,
        WriterCloses,
        TInv, Typed, First, note, seen
  <2>4. Connected' /\ Pending'
    BY <1>1, <2>1
    DEF WriterTests, WriterWakes, WriterSpins, CopyChanges, ClearChanges, ListHasGrown,
        WriterCloses,
        TInv, Connected, Pending, Requests, reading, net
  <2> QED
    BY <2>1, <2>2, <2>3, <2>4 DEF TInv
<1>2. CASE writeMsg("writer")
  BY <1>2, WriteMsgTyped DEF Writers
<1> QED
  BY <1>1, <1>2 DEF Writer

LEMMA KeeperTyped ==
    ASSUME TInv, Keeper
    PROVE  TInv'
<1>1. CASE KeeperTests \/ KeeperWakes
  <2>1. Places' /\ gui' = gui
    BY <1>1 DEF KeeperTests, KeeperWakes, Step, At, TInv, Places, WritePlaces
  <2>2. Booleans' /\ Typed'
    BY <1>1 DEF KeeperTests, KeeperWakes, TInv, Booleans, Typed, flags, reading, note, net, seen
  <2>3. Connected' /\ Pending'
    BY <1>1, <2>1 DEF KeeperTests, KeeperWakes, TInv, Connected, Pending, Requests, reading, net
  <2> QED
    BY <2>1, <2>2, <2>3 DEF TInv
<1>2. CASE writeMsg("keepAlive")
  BY <1>2, WriteMsgTyped DEF Writers
<1> QED
  BY <1>1, <1>2 DEF Keeper

LEMMA ReaderTyped ==
    ASSUME TInv, Reader
    PROVE  TInv'
<1>1. CASE ReaderTests \/ ApplyEdit \/ FilesSpin \/ SelectFile
  <2>1. Places' /\ gui' = gui
    BY <1>1 DEF ReaderTests, ApplyEdit, FilesSpin, SelectFile, Step, At, TInv, Places
  <2>2. Booleans' /\ Typed'
    BY <1>1 DEF ReaderTests, ApplyEdit, FilesSpin, SelectFile, TInv, Booleans, Typed,
                flags, reading, note, net, seen
  <2>3. Connected' /\ Pending'
    BY <1>1, <2>1 DEF ReaderTests, ApplyEdit, FilesSpin, SelectFile, TInv, Connected, Pending,
                      Requests, reading, net
  <2> QED
    BY <2>1, <2>2, <2>3 DEF TInv
<1>2. ASSUME GetHeader \/ GetBody
      PROVE  TInv'
  <2>1. inbox # <<>> /\ inbox' = Tail(inbox)
    BY <1>2 DEF GetHeader, GetBody, HasNext
  <2>2. inbox' \in Seq(Arriving) /\ Len(inbox') <= 2
    BY <2>1, Arrived DEF TInv
  <2>3. kind' \in Kind
    BY <1>2, <2>1, HeaderHasKind DEF GetHeader, GetBody, HasNext, TInv, Kind
  <2>4. Places' /\ gui' = gui
    BY <1>2 DEF GetHeader, GetBody, Dispatched, Step, At, TInv, Places
  <2>5. Booleans' /\ Typed'
    BY <1>2 DEF GetHeader, GetBody, TInv, Booleans, Typed, note, seen
  <2>6. Connected' /\ Pending'
    BY <1>2, <2>2, <2>3, <2>4 DEF GetHeader, GetBody, TInv, Connected, Pending, Requests
  <2> QED
    BY <2>4, <2>5, <2>6 DEF TInv
<1>3. ASSUME NEW from \in {"getHeader", "getBody"}, NEW what,
             ReadBreaks(from) \/ Misread(from, what)
      PROVE  TInv'
  <2>1. inbox' \in Seq(Arriving) /\ Len(inbox') <= 2
    BY <1>3, Arrived DEF ReadBreaks, Misread, TInv, Connected
  <2>2. Places' /\ gui' = gui
    BY <1>3 DEF ReadBreaks, Misread, Step, At, TInv, Places
  <2>3. Booleans' /\ Typed'
    BY <1>3 DEF ReadBreaks, Misread, TInv, Booleans, Typed, flags, note, seen
  <2>4. Connected' /\ Pending'
    BY <1>3, <2>1, <2>2 DEF ReadBreaks, Misread, TInv, Connected, Pending, Requests, Kind
  <2> QED
    BY <2>2, <2>3, <2>4 DEF TInv
<1> QED
  BY <1>1, <1>2, <1>3 DEF Reader, getMsg

LEMMA GuiTyped ==
    ASSUME TInv, GuiGoesOn \/ Type \/ fileListRequest \/ quit \/ Reconnect
    PROVE  TInv'
<1>1. CASE Connects
  <2>1. Places' /\ gui = "connect" /\ gui' # "connect"
    BY <1>1 DEF Connects, BeginsLogin, Step, At, TInv, Places, LoginPlaces, WritePlaces
  <2>2. inbox' \in Seq(Arriving) /\ Len(inbox') = 2
    BY <1>1, MessageArrives DEF Connects, Kind
  <2>3. Booleans' /\ Typed'
    <3>1. stale' \in BOOLEAN
      BY <1>1 DEF Connects
    <3>2. UNCHANGED <<isAlive, isRunning, sending, notepadTaken, canLogIn, added, changes,
                      lost, shown>> /\ asked' = FALSE /\ frame' = "none"
      BY <1>1 DEF Connects, flags, note, seen
    <3> QED
      BY <3>1, <3>2 DEF TInv, Booleans, Typed
  <2>4. Connected'
    BY <1>1, <2>2 DEF Connects, TInv, Connected
  <2>5. Pending'
    BY <1>1, <2>1, BoundAssumption DEF Connects, TInv, Pending, Requests
  <2> QED
    BY <2>1, <2>3, <2>4, <2>5 DEF TInv
<1>2. ASSUME CannotConnect \/ GuiShows \/ Type \/ Reconnect
      PROVE  TInv'
  <2>1. Places'
    BY <1>2 DEF CannotConnect, GuiShows, Type, Reconnect, BeginsLogin, Step, At, TInv, Places,
                LoginPlaces, WritePlaces, pcs
  <2>2. Booleans'
    BY <1>2 DEF CannotConnect, GuiShows, Type, Reconnect, TInv, Booleans,
                flags, reading, net, seen
  <2>3. Typed'
    BY <1>2, BoundAssumption
    DEF CannotConnect, GuiShows, Type, Reconnect, TInv, Typed, note, seen
  <2>4. Connected'
    BY <1>2 DEF CannotConnect, GuiShows, Type, Reconnect, TInv, Connected, reading, net
  <2>5. Pending'
    BY <1>2 DEF CannotConnect, GuiShows, Type, Reconnect, BeginsLogin, Step, TInv, Pending,
                Requests, pcs, net
  <2> QED
    BY <2>1, <2>2, <2>3, <2>4, <2>5 DEF TInv
<1>3. CASE fileListRequest
  BY <1>3, BoundAssumption
  DEF fileListRequest, Step, At, TInv, Places, WritePlaces,
      Booleans, Typed, Connected, Pending, Requests, flags, reading, note, seen
<1>4. ASSUME quit
      PROVE  TInv'
  <2>1. Places' /\ Booleans'
    BY <1>4 DEF quit, Places, Booleans
  <2>2. Typed' /\ Pending'
    BY <1>4, BoundAssumption DEF quit, Typed, Pending, Requests
  <2>3. Connected'
    BY <1>4 DEF quit, Connected, Kind
  <2> QED
    BY <2>1, <2>2, <2>3 DEF TInv
<1>5. ASSUME Login
      PROVE  TInv'
  <2>1. ASSUME NEW from \in {"first", "second"},
               LoginHeader(from) \/ LoginBody(from)
        PROVE  TInv'
    <3>1. inbox # <<>> /\ inbox' = Tail(inbox)
      BY <2>1 DEF LoginHeader, LoginBody, HasNext
    <3>2. inbox' \in Seq(Arriving) /\ Len(inbox') <= 2
      BY <3>1, Arrived DEF TInv
    <3>3. loginKind' \in Kind
      BY <2>1, <3>1, HeaderHasKind DEF LoginHeader, LoginBody, HasNext, TInv, Kind
    <3>4. Places' /\ gui' # "connect"
      BY <2>1 DEF LoginHeader, LoginBody, InBody, InEdit, After, Step, At, TInv, Places, LoginPlaces
    <3>5. Booleans' /\ Typed'
      BY <2>1 DEF LoginHeader, LoginBody, TInv, Booleans, Typed, note, seen
    <3>6. Connected' /\ Pending'
      BY <2>1, <3>2, <3>3, <3>4 DEF LoginHeader, LoginBody, TInv, Connected, Pending, Requests
    <3> QED
      BY <3>4, <3>5, <3>6 DEF TInv
  <2>2. ASSUME NEW from \in {"first", "second"}, NEW place \in {from, InBody(from)}, NEW what,
               LoginBreaks(from, place) \/ LoginMisreads(place, what)
        PROVE  TInv'
    <3>1. inbox' \in Seq(Arriving) /\ Len(inbox') <= 2
      BY <2>2, Arrived DEF LoginBreaks, LoginMisreads, TInv, Connected
    <3>2. Places' /\ gui' # "connect"
      BY <2>2 DEF LoginBreaks, LoginMisreads, After, Step, At, TInv, Places, LoginPlaces
    <3>3. Booleans' /\ Typed'
      BY <2>2 DEF LoginBreaks, LoginMisreads, TInv, Booleans, Typed, flags, note, seen
    <3>4. Connected' /\ Pending'
      BY <2>2, <3>1, <3>2 DEF LoginBreaks, LoginMisreads, TInv, Connected, Pending, Requests, Kind
    <3> QED
      BY <3>2, <3>3, <3>4 DEF TInv
  <2>3. ASSUME NEW from \in {"first", "second"},
               LoginApplies(from) \/ LoginTests \/ LoginEnds
        PROVE  TInv'
    <3>1. Places' /\ gui' # "connect"
      BY <2>3 DEF LoginApplies, LoginTests, LoginEnds, InEdit, After, Step, At, TInv, Places,
                  LoginPlaces
    <3>2. Booleans' /\ Typed'
      BY <2>3 DEF LoginApplies, LoginTests, LoginEnds, TInv, Booleans, Typed,
                  flags, reading, note, net, seen
    <3>3. Connected' /\ Pending'
      BY <2>3, <3>1 DEF LoginApplies, LoginTests, LoginEnds, TInv, Connected, Pending, Requests,
                        reading, net
    <3> QED
      BY <3>1, <3>2, <3>3 DEF TInv
  <2> QED
    BY <1>5, <2>1, <2>2, <2>3 DEF Login, LoginGetsMsg
<1>6. CASE writeMsg("gui")
  BY <1>6, WriteMsgTyped DEF Writers
<1> QED
  BY <1>1, <1>2, <1>3, <1>4, <1>5, <1>6 DEF GuiGoesOn

LEMMA NextTInv == TInv /\ [Next]_vars => TInv'
<1> SUFFICES ASSUME TInv, [Next]_vars PROVE TInv'
  OBVIOUS
<1>1. CASE Reader \/ Writer \/ Keeper
  BY <1>1, ReaderTyped, WriterTyped, KeeperTyped
<1>2. CASE GuiGoesOn \/ Type \/ fileListRequest \/ quit \/ Reconnect
  BY <1>2, GuiTyped
<1>3. ASSUME NEW k \in Kind, Post(k)
      PROVE  TInv'
  <2>1. inbox' \in Seq(Arriving) /\ Len(inbox') = 2
    BY <1>3, MessageArrives DEF Post
  <2> QED
    BY <1>3, <2>1 DEF Post, TInv, Places, Booleans, Typed, Connected, Pending, Requests,
                     flags, pcs, reading, note, seen
<1>4. CASE ServerLeaves
  BY <1>4 DEF ServerLeaves, TInv, Places, Booleans, Typed, Connected, Pending, Requests,
              flags, pcs, reading, note, seen
<1>5. CASE UNCHANGED vars
  BY <1>5 DEF vars, TInv, Places, Booleans, Typed, Connected, Pending, Requests,
              flags, pcs, reading, note, net, seen
<1> QED
  BY <1>1, <1>2, <1>3, <1>4, <1>5 DEF Next

(* Threads are at places they have, at most one message has arrived and not  *)
(* been read, and no more is asked for and connected than is counted.        *)
THEOREM TypeCorrect == Spec => []TypeOK
<1>1. Init => TInv
  BY InitTInv
<1>2. TInv /\ [Next]_vars => TInv'
  BY NextTInv
<1>3. TInv => TypeOK
  BY BoundAssumption
  DEF TInv, TypeOK, Places, Booleans, Typed, Connected, Pending, Requests
<1> QED
  BY <1>1, <1>2, <1>3, PTL DEF Spec
=============================================================================
