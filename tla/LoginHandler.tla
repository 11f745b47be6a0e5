---------------------------- MODULE LoginHandler ----------------------------
(***************************************************************************)
(* LoginHandler::check_login step by step, with the users file on disk and *)
(* the process that may be killed between two of its calls on the file.    *)
(* Attempts do not overlap: the server has one thread.                     *)
(***************************************************************************)
EXTENDS Accounts

CONSTANTS
    Attempts,     \* the LoginInfo values that clients may present
    InitialUsers, \* the lines of the users file when the server first starts
    NoAttempt     \* stands for "check_login is not running"

ASSUME NoAttemptAssumption == NoAttempt \notin LoginInfo
ASSUME AttemptsAssumption == Attempts \subseteq LoginInfo
ASSUME InitialUsersAssumption == InitialUsers \in Seq(LoginInfo)

VARIABLES
    file_exists,     \* ./user_data/users.txt is there
    users_txt,       \* its lines
    users_info_buff, \* LoginHandler's member: the text being worked on
    call,            \* where check_login stands
    attempt,         \* the LoginInfo it was called with, when it runs
    result           \* what the last call that returned gave

vars == <<file_exists, users_txt, users_info_buff, call, attempt, result>>

NoResult == -2

TypeOK ==
    /\ file_exists \in BOOLEAN
    /\ users_txt \in Seq(LoginInfo)
    /\ users_info_buff \in Seq(LoginInfo)
    /\ call \in {"idle", "checking", "writing", "truncated"}
    /\ attempt \in Attempts \cup {NoAttempt}
    /\ result \in {NoResult, INCORRECT, CORRECT}

Init ==
    /\ users_txt = InitialUsers
    /\ file_exists = (InitialUsers # <<>>)
    /\ users_info_buff = <<>>
    /\ call = "idle"
    /\ attempt = NoAttempt
    /\ result = NoResult

(* The server calls check_login; a missing file is created empty. *)
Call(info) ==
    /\ call = "idle"
    /\ file_exists' = TRUE
    /\ attempt' = info
    /\ call' = "checking"
    /\ result' = NoResult
    /\ UNCHANGED <<users_txt, users_info_buff>>

(* The file is read and the decision taken; users_info_buff is empty on entry. *)
Decide ==
    /\ call = "checking"
    /\ users_info_buff' = BufferToWrite(users_txt, attempt)
    /\ result' = Verdict(users_txt, attempt)
    /\ call' = "writing"
    /\ UNCHANGED <<file_exists, users_txt, attempt>>

(* write_from_buffer: opening the ofstream truncates the file ... *)
Truncate ==
    /\ call = "writing"
    /\ users_txt' = <<>>
    /\ call' = "truncated"
    /\ UNCHANGED <<file_exists, users_info_buff, attempt, result>>

(* ... and the text is written; then close_buff, and check_login returns. *)
Write ==
    /\ call = "truncated"
    /\ users_txt' = users_info_buff
    /\ users_info_buff' = <<>>
    /\ call' = "idle"
    /\ attempt' = NoAttempt
    /\ UNCHANGED <<file_exists, result>>

(* The process is killed while check_login runs, and started again: the     *)
(* file keeps what had been written, which is any number of whole lines if  *)
(* the ofstream was being flushed.                                          *)
Kill ==
    /\ call # "idle"
    /\ users_txt' \in
         IF call = "truncated"
         THEN {SubSeq(users_info_buff, 1, n) : n \in 0..Len(users_info_buff)}
         ELSE {users_txt}
    /\ users_info_buff' = <<>>
    /\ call' = "idle"
    /\ attempt' = NoAttempt
    /\ result' = NoResult
    /\ UNCHANGED file_exists

Next ==
    \/ \E info \in Attempts : Call(info)
    \/ Decide
    \/ Truncate
    \/ Write
    \/ Kill

Spec == Init /\ [][Next]_vars

-----------------------------------------------------------------------------
(* What holds.                                                              *)

(* No line is hidden by an earlier one: the search of find_user, which stops *)
(* at the first login ending in the one sought, never stops short of it.     *)
Unshadowed(lines) ==
    \A i, j \in DOMAIN lines :
        i < j => ~EndsWith(lines[i].login, lines[j].login)

NoShadowing == Unshadowed(users_txt) /\ Unshadowed(users_info_buff)

(* Whoever has a line in the file is let in with the password of that line,  *)
(* although find_user stops at the first login that merely ends like it.     *)
RegisteredUserIsRecognised ==
    \A i \in DOMAIN users_txt :
        is_lexically_correct(users_txt[i])
            => Verdict(users_txt, users_txt[i]) = CORRECT

(* What is about to replace the file contains, in place, every line that was *)
(* read from it and at most one more, unless the attempt had a lexical error *)
(* (see ReturningKeepsAccounts).  Stated of the step that truncates the file, *)
(* after which the buffer is the only copy.                                  *)
TruncationLosesNothing ==
    [][Truncate /\ is_lexically_correct(attempt)
         => \E n \in 0..1 :
              /\ Len(users_info_buff) = Len(users_txt) + n
              /\ SubSeq(users_info_buff, 1, Len(users_txt)) = users_txt]_vars

-----------------------------------------------------------------------------
(* What the documentation says, and the code does not do.                    *)

(* DOKUMENTACJA KONCOWA, 11.1: the login module compares with the existing   *)
(* users "and adds new users to the list": a call that returns leaves every  *)
(* account that was on the file when it began.                               *)
ReturningKeepsAccounts ==
    [][Truncate => Len(users_info_buff) >= Len(users_txt)]_vars
=============================================================================
