------------------------------ MODULE Accounts ------------------------------
(***************************************************************************)
(* The decisions of server/LoginHandler.cpp, as operators without state.   *)
(*                                                                         *)
(* The users file (./user_data/users.txt) is a sequence of lines           *)
(* "login passwd\n"; here a line is a record [login, passwd] of two        *)
(* sequences of characters.  Logins are kept as sequences because          *)
(* find_user searches the text of the file for login + ' ', and what such  *)
(* a search finds depends on how the logins end.                           *)
(*                                                                         *)
(* An operator X_Y is X with the fault Y put in; no specification uses it. *)
(***************************************************************************)
EXTENDS Integers, Sequences

CONSTANTS
    Char,        \* the characters of logins and passwords
    Whitespace   \* those that is_lexically_correct refuses

ASSUME WhitespaceAssumption == Whitespace \subseteq Char

(* LoginHandler::login_consts *)
NON_EXISTENT == -1
INCORRECT    == 0
CORRECT      == 1

(* What a LOGIN message carries, and what a line of the users file holds. *)
LoginInfo == [login : Seq(Char), passwd : Seq(Char)]

Letters(s) == {s[i] : i \in DOMAIN s}

(* LoginInfo::is_lexically_correct: neither part holds a blank, tab or newline. *)
is_lexically_correct(info) ==
    (Letters(info.login) \cup Letters(info.passwd)) \cap Whitespace = {}

(* t ends with s. *)
EndsWith(t, s) ==
    /\ Len(s) <= Len(t)
    /\ \A i \in 1..Len(s) : s[i] = t[Len(t) - Len(s) + i]

(* find_user: the first place where the text of the file holds login + ' '.  *)
(* A line has one blank, after its login, and a lexically correct login has  *)
(* no newline: the text found is the end of the login of some line.  (Every  *)
(* line that the server writes is such a line; in one written by hand, with  *)
(* blanks inside its login or password, the code may find it there too.)     *)
Matches(lines, login) == {i \in DOMAIN lines : EndsWith(lines[i].login, login)}

find_user_Last(lines, login) ==
    IF Matches(lines, login) = {}
    THEN NON_EXISTENT
    ELSE CHOOSE i \in Matches(lines, login) :
            \A j \in Matches(lines, login) : j <= i

find_user(lines, login) ==
    IF Matches(lines, login) = {}
    THEN NON_EXISTENT
    ELSE CHOOSE i \in Matches(lines, login) :
            \A j \in Matches(lines, login) : i <= j

(* cmp_login_info compares the login with the text found, which it equals by *)
(* construction, and the password with the rest of the line.                 *)
cmp_login_info(lines, info, pos) == lines[pos].passwd = info.passwd

(* is_login_info_correct *)
is_login_info_correct(lines, info) ==
    IF ~is_lexically_correct(info) THEN INCORRECT
    ELSE LET pos == find_user(lines, info.login) IN
         IF pos = NON_EXISTENT THEN NON_EXISTENT
         ELSE IF cmp_login_info(lines, info, pos) THEN CORRECT ELSE INCORRECT

BufferToWrite_WrongPasswordAdded(lines, info) ==
    IF ~is_lexically_correct(info) THEN <<>>
    ELSE IF is_login_info_correct(lines, info) # CORRECT
         THEN Append(lines, info)
         ELSE lines
BufferToWrite_NewLineOnly(lines, info) ==
    IF ~is_lexically_correct(info) THEN <<>>
    ELSE IF is_login_info_correct(lines, info) = NON_EXISTENT THEN <<info>> ELSE lines

(* users_info_buff as check_login leaves it for writing back: the text of    *)
(* the file, with the new line when the login was not found; but empty when  *)
(* is_login_info_correct returned before user_exists had read the file.      *)
BufferToWrite(lines, info) ==
    IF ~is_lexically_correct(info) THEN <<>>
    ELSE IF is_login_info_correct(lines, info) = NON_EXISTENT
         THEN Append(lines, info)
         ELSE lines

Verdict_UnknownNotCorrect(lines, info) == is_login_info_correct(lines, info)

(* check_login's result: an unknown login has just been registered. *)
Verdict(lines, info) ==
    IF is_login_info_correct(lines, info) = INCORRECT THEN INCORRECT ELSE CORRECT
=============================================================================
