------------------------ MODULE LoginHandlerProofs --------------------------
(***************************************************************************)
(* Whatever logins are tried, in whatever order, and wherever the process  *)
(* is killed, no line of the users file is hidden by an earlier one, so    *)
(* everybody who has a line is recognised by it.                           *)
(***************************************************************************)
EXTENDS LoginHandler, SequenceTheorems, WellFoundedInduction, TLAPS

(* A set of naturals that is not empty has a least element.                  *)
LEMMA LeastNatural ==
    ASSUME NEW S \in SUBSET Nat, S # {}
    PROVE  \E m \in S : \A n \in S : m <= n
<1> DEFINE R == OpToRel(<, Nat)
<1>1. IsWellFoundedOn(R, Nat)
  BY NatLessThanWellFounded
<1>2. PICK m \in S : \A n \in S : <<n, m>> \notin R
  <2> HIDE DEF R
  <2> QED
    BY <1>1, WFMin
<1>3. \A n \in S : ~(n < m)
  BY <1>2 DEF OpToRel
<1> QED
  BY <1>3

(* The first line whose login ends with the one sought, or NON_EXISTENT.     *)
LEMMA FindUserFirst ==
    ASSUME NEW lines \in Seq(LoginInfo), NEW login,
           Matches(lines, login) # {}
    PROVE  /\ find_user(lines, login) \in Matches(lines, login)
           /\ \A j \in Matches(lines, login) : find_user(lines, login) <= j
<1>1. Matches(lines, login) \in SUBSET Nat
  BY DEF Matches
<1>2. \E m \in Matches(lines, login) :
        \A j \in Matches(lines, login) : m <= j
  BY <1>1, LeastNatural
<1> QED
  BY <1>2 DEF find_user

(* A login ends with itself. *)
LEMMA EndsWithItself ==
    ASSUME NEW s \in Seq(Char)
    PROVE  EndsWith(s, s)
BY DEF EndsWith

(* The line of a login whose search nothing earlier stops is the one found.  *)
LEMMA FindsOwnLine ==
    ASSUME NEW lines \in Seq(LoginInfo), Unshadowed(lines),
           NEW i \in DOMAIN lines
    PROVE  find_user(lines, lines[i].login) = i
<1> DEFINE login == lines[i].login
<1>1. i \in 1..Len(lines) /\ login \in Seq(Char)
  <2>1. i \in 1..Len(lines) /\ lines[i] \in LoginInfo
    BY ElementOfSeq
  <2> QED
    BY <2>1 DEF LoginInfo
<1>2. i \in Matches(lines, login)
  BY <1>1, EndsWithItself DEF Matches
<1>3. \A j \in Matches(lines, login) : ~(j < i)
  BY DEF Unshadowed, Matches
<1> HIDE DEF login
<1>4. /\ find_user(lines, login) \in Matches(lines, login)
      /\ find_user(lines, login) <= i
  BY <1>2, FindUserFirst
<1>5. find_user(lines, login) \in 1..Len(lines)
  BY <1>4 DEF Matches
<1> QED
  BY <1>1, <1>3, <1>4, <1>5 DEF login

(* Unshadowed lines let everybody in with the password of the own line.      *)
LEMMA UnshadowedIsRecognised ==
    ASSUME NEW lines \in Seq(LoginInfo), Unshadowed(lines),
           NEW i \in DOMAIN lines, is_lexically_correct(lines[i])
    PROVE  Verdict(lines, lines[i]) = CORRECT
<1>1. find_user(lines, lines[i].login) = i /\ i # NON_EXISTENT
  BY FindsOwnLine DEF NON_EXISTENT
<1>2. cmp_login_info(lines, lines[i], i)
  BY DEF cmp_login_info
<1> QED
  BY <1>1, <1>2 DEF Verdict, is_login_info_correct, CORRECT, INCORRECT

(* The prefix of unshadowed lines is unshadowed.                             *)
LEMMA UnshadowedPrefix ==
    ASSUME NEW lines \in Seq(LoginInfo), Unshadowed(lines),
           NEW n \in 0..Len(lines)
    PROVE  /\ SubSeq(lines, 1, n) \in Seq(LoginInfo)
           /\ Unshadowed(SubSeq(lines, 1, n))
<1>1. /\ SubSeq(lines, 1, n) \in Seq(LoginInfo)
      /\ Len(SubSeq(lines, 1, n)) = n
      /\ \A i \in 1..n : SubSeq(lines, 1, n)[i] = lines[i]
  OBVIOUS
<1> QED
  BY <1>1 DEF Unshadowed

(* check_login keeps the lines unshadowed: a login is appended only when no  *)
(* line there ends with it.                                                  *)
LEMMA BufferUnshadowed ==
    ASSUME NEW lines \in Seq(LoginInfo), Unshadowed(lines),
           NEW info \in LoginInfo
    PROVE  /\ BufferToWrite(lines, info) \in Seq(LoginInfo)
           /\ Unshadowed(BufferToWrite(lines, info))
<1>1. CASE BufferToWrite(lines, info) = <<>>
  BY <1>1 DEF Unshadowed
<1>2. CASE BufferToWrite(lines, info) = lines
  BY <1>2
<1>3. CASE /\ BufferToWrite(lines, info) = Append(lines, info)
           /\ is_lexically_correct(info)
           /\ is_login_info_correct(lines, info) = NON_EXISTENT
  <2>1. Matches(lines, info.login) = {}
    <3> SUFFICES ASSUME Matches(lines, info.login) # {}
                 PROVE  FALSE
      OBVIOUS
    <3>1. find_user(lines, info.login) \in 1..Len(lines)
      BY FindUserFirst DEF Matches
    <3>2. find_user(lines, info.login) # NON_EXISTENT
      BY <3>1 DEF NON_EXISTENT
    <3> QED
      BY <1>3, <3>2
      DEF is_login_info_correct, NON_EXISTENT, CORRECT, INCORRECT
  <2>2. /\ Append(lines, info) \in Seq(LoginInfo)
        /\ Len(Append(lines, info)) = Len(lines) + 1
        /\ \A i \in 1..Len(lines) : Append(lines, info)[i] = lines[i]
        /\ Append(lines, info)[Len(lines) + 1] = info
    BY AppendProperties
  <2>3. Unshadowed(Append(lines, info))
    <3> SUFFICES ASSUME NEW i \in 1..Len(lines) + 1, NEW j \in 1..Len(lines) + 1,
                        i < j,
                        EndsWith(Append(lines, info)[i].login,
                                 Append(lines, info)[j].login)
                 PROVE  FALSE
      BY <2>2 DEF Unshadowed
    <3>1. i \in 1..Len(lines) /\ Append(lines, info)[i] = lines[i]
      BY <2>2
    <3>2. CASE j \in 1..Len(lines)
      BY <2>2, <3>1, <3>2 DEF Unshadowed
    <3>3. CASE j = Len(lines) + 1
      BY <2>1, <2>2, <3>1, <3>3 DEF Matches
    <3> QED
      BY <3>2, <3>3
  <2> QED
    BY <1>3, <2>2, <2>3
<1> QED
  BY <1>1, <1>2, <1>3 DEF BufferToWrite

-----------------------------------------------------------------------------
(* The invariant: types, the two texts unshadowed, and an attempt under way  *)
(* whenever check_login runs.                                                *)
IInv ==
    /\ TypeOK
    /\ NoShadowing
    /\ (call # "idle" => attempt \in Attempts)

(* The users file the server is first started with hides none of its lines.  *)
InitiallyUnshadowed == Unshadowed(InitialUsers)

LEMMA InitIInv ==
    ASSUME InitiallyUnshadowed, Init
    PROVE  IInv
<1>1. Unshadowed(<<>>)
  BY DEF Unshadowed
<1> QED
  BY <1>1, InitialUsersAssumption
  DEF InitiallyUnshadowed, Init, IInv, TypeOK, NoShadowing

LEMMA NextIInv ==
    ASSUME IInv, [Next]_vars
    PROVE  IInv'
<1> USE AttemptsAssumption DEF IInv, TypeOK, NoShadowing
<1>0. Unshadowed(<<>>)
  BY DEF Unshadowed
<1>1. ASSUME NEW info \in Attempts, Call(info)
      PROVE  IInv'
  BY <1>1 DEF Call
<1>2. CASE Decide
  <2>1. attempt \in LoginInfo
    BY <1>2 DEF Decide
  <2>2. /\ users_info_buff' \in Seq(LoginInfo)
        /\ Unshadowed(users_info_buff')
    BY <1>2, <2>1, BufferUnshadowed DEF Decide
  <2>3. result' \in {INCORRECT, CORRECT}
    BY <1>2 DEF Decide, Verdict
  <2> QED
    BY <1>2, <2>2, <2>3 DEF Decide
<1>3. CASE Truncate
  BY <1>0, <1>3 DEF Truncate
<1>4. CASE Write
  BY <1>0, <1>4 DEF Write
<1>5. CASE Kill
  <2>1. users_txt' \in Seq(LoginInfo) /\ Unshadowed(users_txt')
    BY <1>5, UnshadowedPrefix DEF Kill
  <2> QED
    BY <1>0, <1>5, <2>1 DEF Kill
<1>6. CASE UNCHANGED vars
  BY <1>6 DEF vars
<1> QED
  BY <1>1, <1>2, <1>3, <1>4, <1>5, <1>6 DEF Next

LEMMA InvariantHolds == InitiallyUnshadowed /\ Spec => []IInv
<1>1. InitiallyUnshadowed /\ Init => IInv
  BY InitIInv
<1>2. IInv /\ [Next]_vars => IInv'
  BY NextIInv
<1> QED
  BY <1>1, <1>2, PTL DEF Spec

(* No line of the users file is ever hidden by an earlier one (find_user     *)
(* stops at the first login that ends like the one sought).                  *)
THEOREM Unhidden == InitiallyUnshadowed /\ Spec => []NoShadowing
<1>1. IInv => NoShadowing
  BY DEF IInv
<1> QED
  BY <1>1, InvariantHolds, PTL

(* Everybody who has a line in the users file is let in with its password,   *)
(* after any sequence of logins, registrations and kills.                    *)
THEOREM Recognised == InitiallyUnshadowed /\ Spec => []RegisteredUserIsRecognised
<1>1. IInv => RegisteredUserIsRecognised
  BY UnshadowedIsRecognised
  DEF IInv, TypeOK, NoShadowing, RegisteredUserIsRecognised
<1> QED
  BY <1>1, InvariantHolds, PTL
-----------------------------------------------------------------------------
(* Whatever file the server is first started with: the types, and that the   *)
(* buffer about to replace the file is what check_login makes of it.         *)
BufferIsMadeOfFile ==
    call = "writing" => users_info_buff = BufferToWrite(users_txt, attempt)

TInv ==
    /\ TypeOK
    /\ (call # "idle" => attempt \in Attempts)
    /\ BufferIsMadeOfFile

LEMMA BufferTyped ==
    ASSUME NEW lines \in Seq(LoginInfo), NEW info \in LoginInfo
    PROVE  BufferToWrite(lines, info) \in Seq(LoginInfo)
<1>1. Append(lines, info) \in Seq(LoginInfo) /\ <<>> \in Seq(LoginInfo)
  OBVIOUS
<1> QED
  BY <1>1 DEF BufferToWrite

(* Without a lexical error the lines stay in place, with one more or none.   *)
LEMMA BufferKeepsLines ==
    ASSUME NEW lines \in Seq(LoginInfo), NEW info \in LoginInfo,
           is_lexically_correct(info)
    PROVE  \E n \in 0..1 :
             /\ Len(BufferToWrite(lines, info)) = Len(lines) + n
             /\ SubSeq(BufferToWrite(lines, info), 1, Len(lines)) = lines
<1> DEFINE Kept(n) == /\ Len(BufferToWrite(lines, info)) = Len(lines) + n
                      /\ SubSeq(BufferToWrite(lines, info), 1, Len(lines)) = lines
<1> SUFFICES \E n \in 0..1 : Kept(n)
  OBVIOUS
<1>1. CASE BufferToWrite(lines, info) = lines
  <2>1. Kept(0)
    BY <1>1
  <2> HIDE DEF Kept
  <2> QED
    BY <2>1
<1>2. CASE BufferToWrite(lines, info) = Append(lines, info)
  <2>1. Kept(1)
    BY <1>2
  <2> HIDE DEF Kept
  <2> QED
    BY <2>1
<1> QED
  BY <1>1, <1>2 DEF BufferToWrite

LEMMA NextTInv ==
    ASSUME TInv, [Next]_vars
    PROVE  TInv'
<1> USE AttemptsAssumption DEF TInv, TypeOK, BufferIsMadeOfFile
<1>1. ASSUME NEW info \in Attempts, Call(info)
      PROVE  TInv'
  BY <1>1 DEF Call
<1>2. CASE Decide
  <2>1. attempt \in LoginInfo /\ attempt \in Attempts
    BY <1>2 DEF Decide
  <2>2. users_info_buff' \in Seq(LoginInfo)
    BY <1>2, <2>1, BufferTyped DEF Decide
  <2>3. result' \in {INCORRECT, CORRECT}
    BY <1>2 DEF Decide, Verdict
  <2> QED
    BY <1>2, <2>1, <2>2, <2>3 DEF Decide
<1>3. CASE Truncate
  BY <1>3 DEF Truncate
<1>4. CASE Write
  BY <1>4 DEF Write
<1>5. CASE Kill
  <2>1. users_txt' \in Seq(LoginInfo)
    BY <1>5, SubSeqProperties DEF Kill
  <2> QED
    BY <1>5, <2>1 DEF Kill
<1>6. CASE UNCHANGED vars
  BY <1>6 DEF vars
<1> QED
  BY <1>1, <1>2, <1>3, <1>4, <1>5, <1>6 DEF Next

LEMMA TInvHolds == Spec => []TInv
<1>1. Init => TInv
  BY InitialUsersAssumption DEF Init, TInv, TypeOK, BufferIsMadeOfFile
<1>2. TInv /\ [Next]_vars => TInv'
  BY NextTInv
<1> QED
  BY <1>1, <1>2, PTL DEF Spec

(* File, buffer and result stay what they are declared as, whatever file the *)
(* server is first started with.                                             *)
THEOREM TypeCorrect == Spec => []TypeOK
<1>1. TInv => TypeOK
  BY DEF TInv
<1> QED
  BY <1>1, TInvHolds, PTL

(* When the file is truncated, the buffer, now the only copy, has each of    *)
(* its lines in place and at most one more, unless the attempt had a lexical *)
(* error (check_login, write_from_buffer); whatever the file was.            *)
THEOREM NothingLost == Spec => TruncationLosesNothing
<1>1. ASSUME TInv, Truncate, is_lexically_correct(attempt)
      PROVE  \E n \in 0..1 :
               /\ Len(users_info_buff) = Len(users_txt) + n
               /\ SubSeq(users_info_buff, 1, Len(users_txt)) = users_txt
  <2>1. users_info_buff = BufferToWrite(users_txt, attempt)
    BY <1>1 DEF Truncate, TInv, BufferIsMadeOfFile
  <2>2. attempt \in LoginInfo /\ users_txt \in Seq(LoginInfo)
    BY <1>1, AttemptsAssumption DEF Truncate, TInv, TypeOK
  <2> QED
    BY <1>1, <2>1, <2>2, BufferKeepsLines
<1>2. TInv /\ [Next]_vars
        => [Truncate /\ is_lexically_correct(attempt)
              => \E n \in 0..1 :
                   /\ Len(users_info_buff) = Len(users_txt) + n
                   /\ SubSeq(users_info_buff, 1, Len(users_txt)) = users_txt]_vars
  BY <1>1
<1> QED
  BY <1>2, TInvHolds, PTL DEF Spec, TruncationLosesNothing
=============================================================================
