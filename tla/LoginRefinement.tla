-------------------------- MODULE LoginRefinement ---------------------------
(***************************************************************************)
(* LoginServer implements LoginService: what each connection has come to   *)
(* is read off the server's states, the bytes under way and the client.    *)
(***************************************************************************)
EXTENDS LoginServer

CONSTANT NoAttempt
ASSUME NoAttemptAssumption == NoAttempt \notin LoginInfo

(* The bytes of the client's frame that check_login has not seen. *)
Submitted(fd) == buffers[fd] \o inbox[fd] \o draft[fd]

StageOf(fd) ==
    CASE peer[fd] = "none" -> "none"
      [] peer[fd] # "none" /\ fd \in members -> "member"
      [] peer[fd] # "none" /\ fd \in prompted -> "turn"
      [] peer[fd] # "none" /\ fd \in logged_clients \ members -> "granted"
      [] peer[fd] # "none" /\ fd \notin logged_clients \cup prompted ->
            IF Submitted(fd) # <<>> \/ read_state[fd] = "HEADER_RECVD" THEN "asked"
            ELSE IF fd \in rejected_logins THEN "denied" ELSE "greeted"

AttemptOf(fd) ==
    IF StageOf(fd) = "asked" /\ Submitted(fd) # <<>>
    THEN LET last == Submitted(fd)[Len(Submitted(fd))].msg IN
         IF last.kind = "LOGIN" THEN last.attempt ELSE NoAttempt
    ELSE NoAttempt

Service == INSTANCE LoginService WITH
    stage   <- [fd \in Fd |-> StageOf(fd)],
    here    <- [fd \in Fd |-> peer[fd] = "open"],
    attempt <- [fd \in Fd |-> AttemptOf(fd)]

(* Every behaviour of the server and its clients is one that LoginService   *)
(* allows: each login decided once and answered by what was decided, however *)
(* its bytes were cut and whatever the other connections did.               *)
ImplementsService == Service!Spec
=============================================================================
