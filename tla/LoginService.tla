---------------------------- MODULE LoginService ----------------------------
(***************************************************************************)
(* What logging in promises, without sockets, buffers or the select loop:  *)
(* a client that connects is prompted; each attempt it makes is decided    *)
(* once, against the users file as it is at that moment, and that decision *)
(* is what the client gets: its id, or another prompt.  A client may also  *)
(* have sent something else before its attempt.  Clients may leave and the *)
(* server may hang up at any time.                                         *)
(***************************************************************************)
EXTENDS Accounts

CONSTANTS Fd, Attempts, InitialUsers,
          NoAttempt  \* what a client that sent no login has presented

VARIABLES
    users,    \* the users file
    stage,    \* of each descriptor's connection
    here,     \* whether its client is still there
    attempt   \* what it has presented and is not decided yet

vars == <<users, stage, here, attempt>>

Stages == {"none",     \* no connection
           "greeted",  \* to be prompted for the first time
           "turn",     \* prompted
           "asked",    \* an attempt is made, or being made
           "granted", "denied", \* it is decided, and the answer under way
           "member"}   \* the client has its id

TypeOK ==
    /\ users \in Seq(LoginInfo)
    /\ stage \in [Fd -> Stages]
    /\ here \in [Fd -> BOOLEAN]
    /\ attempt \in [Fd -> Attempts \cup {NoAttempt}]

Init ==
    /\ users = InitialUsers
    /\ stage = [fd \in Fd |-> "none"]
    /\ here = [fd \in Fd |-> FALSE]
    /\ attempt = [fd \in Fd |-> NoAttempt]

Move(fd, from, to) ==
    /\ stage[fd] = from
    /\ stage' = [stage EXCEPT ![fd] = to]

Connect(fd) ==
    /\ Move(fd, "none", "greeted")
    /\ here' = [here EXCEPT ![fd] = TRUE]
    /\ UNCHANGED <<users, attempt>>

Prompt(fd) ==
    /\ here[fd] /\ Move(fd, "greeted", "turn")
    /\ UNCHANGED <<users, here, attempt>>

Present(fd, a) ==
    /\ here[fd] /\ Move(fd, "turn", "asked")
    /\ attempt' = [attempt EXCEPT ![fd] = a]
    /\ UNCHANGED <<users, here>>

(* It has sent something that is no attempt, and now makes one. *)
PresentLate(fd, a) ==
    /\ here[fd] /\ stage[fd] = "asked" /\ attempt[fd] = NoAttempt
    /\ attempt' = [attempt EXCEPT ![fd] = a]
    /\ UNCHANGED <<users, stage, here>>

Decide(fd) ==
    /\ attempt[fd] # NoAttempt
    /\ Move(fd, "asked",
            IF Verdict(users, attempt[fd]) = CORRECT THEN "granted" ELSE "denied")
    /\ users' = BufferToWrite(users, attempt[fd])
    /\ attempt' = [attempt EXCEPT ![fd] = NoAttempt]
    /\ UNCHANGED here

Answer(fd) ==
    /\ here[fd]
    /\ Move(fd, "granted", "member") \/ Move(fd, "denied", "turn")
    /\ UNCHANGED <<users, here, attempt>>

Leave(fd) ==
    /\ here[fd]
    /\ here' = [here EXCEPT ![fd] = FALSE]
    /\ UNCHANGED <<users, stage, attempt>>

HangUp(fd) ==
    /\ stage[fd] # "none"
    /\ stage' = [stage EXCEPT ![fd] = "none"]
    /\ here' = [here EXCEPT ![fd] = FALSE]
    /\ attempt' = [attempt EXCEPT ![fd] = NoAttempt]
    /\ UNCHANGED users

Next == \E fd \in Fd :
    \/ Connect(fd) \/ Prompt(fd) \/ Decide(fd) \/ Answer(fd)
    \/ \E a \in Attempts \cup {NoAttempt} : Present(fd, a)
    \/ \E a \in Attempts : PresentLate(fd, a)
    \/ Leave(fd) \/ HangUp(fd)

Spec == Init /\ [][Next]_vars
=============================================================================
