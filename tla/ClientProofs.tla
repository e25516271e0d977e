---------------------------- MODULE ClientProofs ----------------------------
(***************************************************************************)
(* Theorems about the client, for any number of keys, logins, commands and *)
(* any size of the command channel.                                        *)
(***************************************************************************)
EXTENDS Client, TLAPS

\* A login that is under way still has a token to get and has the client to
\* itself, a call belongs to a live client, and so does every command.
CallsBelong ==
  /\ Len(logins) <= MaxLogins
  /\ calling.op = "login" => Len(logins) < MaxLogins
  /\ calling # Idle => facade = "live" /\ NoSends
  /\ ~NoSends => facade = "live"
  /\ facade = "none" => accepted = <<>>

\* Whatever waits to be sent carries the client's token, and nothing was sent
\* with a newer one.
TokensRise ==
  /\ \A c \in Command : sending[c] > 0 =>
       c \in {PrivateCommand, PublicCommand} /\ (c.op = "private" => creds.token # NoToken)
  /\ facade = "live" => \A i \in DOMAIN accepted : accepted[i].token <= creds.token

IInv == TypeOK /\ CallsBelong /\ CredentialsTogether /\ TokensRise /\ TokensInOrder

-----------------------------------------------------------------------------
\* Helpers.

\* What the client may be waiting for, and the names of the waits.
LEMMA Waits ==
  ASSUME TypeOK
  PROVE  /\ calling.op = "login" => calling.key \in ApiKeys
         /\ calling.op \in {"idle", "login"}
         /\ calling.op = "idle" <=> calling = Idle
BY DEF TypeOK, Idle, Login

\* The commands the methods build, of a client whose token is one of its own.
LEMMA CommandsTyped ==
  ASSUME TypeOK
  PROVE  PrivateCommand \in Command /\ PublicCommand \in Command
BY ClientAssumption DEF TypeOK, Credentials, PrivateCommand, PublicCommand, NoToken

\* One more element of the same type.
LEMMA AppendTyped ==
  ASSUME NEW S, NEW s \in Seq(S), NEW e \in S
  PROVE  Append(s, e) \in Seq(S)
OBVIOUS

\* No credentials at all are well typed.
LEMMA NoneTyped == NoCredentials \in Credentials
BY ClientAssumption DEF NoCredentials, Credentials, NoToken

-----------------------------------------------------------------------------

\* The initial state satisfies the invariant.
LEMMA InitInv == ASSUME Init PROVE IInv
<1> USE ClientAssumption DEF Init, PathInit
<1>1. TypeOK
  BY NoneTyped DEF TypeOK
<1>2. CredentialsTogether
  BY DEF CredentialsTogether
<1>3. CallsBelong /\ TokensRise /\ TokensInOrder
  BY DEF CallsBelong, NoSends, TokensRise, TokensInOrder, Idle
<1> QED  BY <1>1, <1>2, <1>3 DEF IInv

\* A count of waiting sends stays a count when one joins them and when one of
\* them leaves.
LEMMA CountTyped ==
  ASSUME NEW S, NEW f \in [S -> Nat], NEW c \in S
  PROVE  /\ [f EXCEPT ![c] = @ + 1] \in [S -> Nat]
         /\ f[c] > 0 => [f EXCEPT ![c] = @ - 1] \in [S -> Nat]
<1>1. f[c] \in Nat  OBVIOUS
<1>2. f[c] + 1 \in Nat /\ (f[c] > 0 => f[c] - 1 \in Nat)  BY <1>1, SMT
<1> QED  BY <1>2

\* Every step keeps the types.
LEMMA TypesKept == ASSUME IInv, [Next]_vars PROVE TypeOK'
<1> USE ClientAssumption DEF IInv, TypeOK, governors
<1>1. CASE Connect  BY <1>1 DEF Connect, path
<1>2. CASE ConnectWithGovernor  BY <1>2 DEF ConnectWithGovernor, path
<1>3. CASE ConnectFails  BY <1>3 DEF ConnectFails, path
<1>4. ASSUME NEW k \in ApiKeys, CallLogin(k) PROVE TypeOK'
  BY <1>4 DEF CallLogin, path
<1>5. CASE LoginSucceeds
  <2>1. calling.key \in ApiKeys /\ Len(logins) < MaxLogins
    BY <1>5, Waits DEF LoginSucceeds, CallsBelong
  <2>2. logins' \in Seq(ApiKeys) /\ Len(logins') = Len(logins) + 1
    BY <1>5, <2>1 DEF LoginSucceeds
  <2>3. creds' \in Credentials
    BY <1>5, <2>1, <2>2 DEF LoginSucceeds, Credentials
  <2> QED  BY <1>5, <2>2, <2>3 DEF LoginSucceeds, path
<1>6. CASE LoginFails  BY <1>6 DEF LoginFails, path
<1>7. CASE CancelLogin
  <2>1. calling.key \in ApiKeys /\ logins' \in {logins, Append(logins, calling.key)}
    BY <1>7, Waits DEF CancelLogin
  <2>2. logins \in Seq(ApiKeys)
    OBVIOUS
  <2>3. Append(logins, calling.key) \in Seq(ApiKeys)
    BY <2>1, <2>2, AppendTyped
  <2>4. logins' \in Seq(ApiKeys)
    BY <2>1, <2>2, <2>3
  <2> QED  BY <1>7, <2>4 DEF CancelLogin, path
<1>8. ASSUME NEW c \in Command, Call(c) PROVE TypeOK'
  <2>1. sending \in [Command -> Nat] /\ calls \in 0 .. MaxCalls
    OBVIOUS
  <2>2. sending' = [sending EXCEPT ![c] = @ + 1] /\ calls < MaxCalls /\ calls' = calls + 1
    BY <1>8 DEF Call
  <2>3. sending' \in [Command -> Nat]
    BY ONLY <2>1, <2>2, CountTyped, c \in Command
  <2>4. calls' \in 0 .. MaxCalls
    BY ONLY <2>1, <2>2, ClientAssumption, SMT DEF ClientAssumption
  <2> QED  BY <1>8, <2>3, <2>4 DEF Call, path
<1>9. CASE CallPrivate \/ CallPublic  BY <1>8, <1>9, CommandsTyped DEF CallPrivate, CallPublic
<1>10. ASSUME NEW c \in Command, SendEnds(c) PROVE TypeOK'
  <2>1. queue' \in Seq(Command) /\ Len(queue') <= Capacity /\ accepted' \in Seq(Command)
    BY <1>10 DEF SendEnds, Accept
  <2>2. sending \in [Command -> Nat] /\ sending[c] > 0 /\ sending' = [sending EXCEPT ![c] = @ - 1]
    BY <1>10 DEF SendEnds
  <2>3. sending' \in [Command -> Nat]
    BY ONLY <2>2, CountTyped, c \in Command
  <2> QED  BY <1>10, <2>1, <2>3 DEF SendEnds, Accept
<1>11. ASSUME NEW c \in Command, CancelSend(c) PROVE TypeOK'
  <2>1. sending \in [Command -> Nat] /\ sending[c] > 0 /\ sending' = [sending EXCEPT ![c] = @ - 1]
    BY <1>11 DEF CancelSend
  <2>2. sending' \in [Command -> Nat]
    BY ONLY <2>1, CountTyped, c \in Command
  <2> QED  BY <1>11, <2>2 DEF CancelSend, path
<1>12. CASE Stream  BY <1>12 DEF Stream, path
<1>13. CASE DropStream  BY <1>13 DEF DropStream, path
<1>14. CASE DropClient  BY <1>14, NoneTyped DEF DropClient, Close
<1>15. CASE EngineTakes
  <2>1. Tail(queue) \in Seq(Command) /\ Len(Tail(queue)) <= Capacity
    BY <1>15 DEF EngineTakes, Take
  <2> QED  BY <1>15, <2>1 DEF EngineTakes, Take
<1>16. CASE EngineEnds  BY <1>16 DEF EngineEnds, End
<1>17. CASE UNCHANGED vars  BY <1>17 DEF vars, path
<1> QED
  BY <1>1, <1>2, <1>3, <1>4, <1>5, <1>6, <1>7, <1>9, <1>10, <1>11, <1>12, <1>13,
     <1>14, <1>15, <1>16, <1>17 DEF Next

\* Every step keeps calls with a live client, and logins within their bound.
LEMMA CallsKept == ASSUME IInv, [Next]_vars PROVE CallsBelong'
<1> USE DEF IInv, CallsBelong
<1>0. logins \in Seq(ApiKeys)  BY DEF TypeOK
<1>1. CASE LoginSucceeds \/ CancelLogin
  <2>1. calling.op = "login" /\ calling.key \in ApiKeys /\ logins' \in {logins, Append(logins, calling.key)}
    BY <1>1, Waits DEF LoginSucceeds, CancelLogin
  <2>2. calling # Idle /\ Len(logins) < MaxLogins
    BY <2>1 DEF Idle
  <2>3. Len(logins') <= MaxLogins
    BY <1>0, <2>1, <2>2, ClientAssumption
  <2> QED  BY <1>1, <2>2, <2>3 DEF LoginSucceeds, CancelLogin, Idle
<1>2. sending \in [Command -> Nat]
  BY DEF TypeOK
<1>3. ASSUME NEW c \in Command, SendEnds(c) \/ CancelSend(c) PROVE CallsBelong'
  <2>1. ~NoSends
    BY <1>2, <1>3 DEF SendEnds, CancelSend, NoSends
  <2>2. UNCHANGED <<facade, calling, logins>>
    BY <1>3 DEF SendEnds, CancelSend
  <2> QED  BY <2>1, <2>2
<1>4. ASSUME NEW k \in ApiKeys, CallLogin(k) PROVE CallsBelong'
  BY <1>4 DEF CallLogin, Exclusive, NoSends, Login
<1>5. ASSUME NEW c, Call(c) PROVE CallsBelong'
  BY <1>5 DEF Call
<1>6. CASE LoginFails  BY <1>6 DEF LoginFails, NoSends, Idle
<1>7. CASE DropClient  BY <1>7 DEF DropClient, Exclusive, NoSends
<1>8. CASE UNCHANGED <<facade, calling, sending, logins, accepted>>
  BY <1>8 DEF NoSends
<1>9. CASE Connect \/ ConnectWithGovernor
  BY <1>9 DEF Connect, ConnectWithGovernor, NoSends
<1> QED
  BY <1>1, <1>3, <1>4, <1>5, <1>6, <1>7, <1>8, <1>9
     DEF Next, vars, ConnectFails, CallPrivate, CallPublic,
         Stream, DropStream, EngineTakes, EngineEnds

\* Only a login that succeeds, and the end of the client, touch the credentials;
\* a token the client does not get changes none that it has.
LEMMA CredentialsKept == ASSUME IInv, [Next]_vars PROVE CredentialsTogether'
<1> USE DEF IInv, CredentialsTogether
<1>0. logins \in Seq(ApiKeys)  BY DEF TypeOK
<1>1. CASE LoginSucceeds
  <2>1. creds' = [key |-> calling.key, secret |-> calling.key, token |-> Len(logins')]
        /\ logins' = Append(logins, calling.key) /\ calling.key \in ApiKeys
    BY <1>1, Waits DEF LoginSucceeds
  <2>2. Len(logins') \in DOMAIN logins' /\ logins'[Len(logins')] = calling.key
    BY <1>0, <2>1
  <2> QED  BY <2>1, <2>2
<1>2. CASE CancelLogin
  <2>1. creds' = creds /\ logins' \in {logins, Append(logins, calling.key)} /\ calling.key \in ApiKeys
    BY <1>2, Waits DEF CancelLogin
  <2>2. \A i \in DOMAIN logins : i \in DOMAIN logins' /\ logins'[i] = logins[i]
    BY <1>0, <2>1
  <2> QED  BY <2>1, <2>2
<1>3. CASE DropClient  BY <1>3 DEF DropClient
<1>4. CASE UNCHANGED <<creds, logins>>  BY <1>4
<1> QED
  BY <1>1, <1>2, <1>3, <1>4
     DEF Next, vars, Connect, ConnectWithGovernor, ConnectFails, CallLogin, LoginFails, Call,
         CallPrivate, CallPublic, SendEnds, CancelSend, Stream, DropStream, EngineTakes, EngineEnds

\* Only a command that is accepted is recorded, with the token of the client,
\* which is the newest; while a call waits the token stays what it is.
LEMMA TokensKept == ASSUME IInv, [Next]_vars PROVE TokensRise' /\ TokensInOrder'
<1> USE DEF IInv, TokensRise, TokensInOrder
<1>0. /\ logins \in Seq(ApiKeys) /\ accepted \in Seq(Command) /\ creds.token \in Nat
      /\ \A i \in DOMAIN accepted : accepted[i].token \in Nat
  <2>1. creds.token \in Nat /\ \A c \in Command : c.token \in Nat
    BY ClientAssumption DEF TypeOK, Credentials
  <2>2. \A i \in DOMAIN accepted : accepted[i] \in Command
    BY DEF TypeOK
  <2> QED  BY <2>1, <2>2 DEF TypeOK
<1>1. CASE LoginSucceeds
  <2>1. /\ UNCHANGED <<accepted, facade, sending>> /\ creds'.token = Len(logins) + 1
        /\ calling # Idle
    BY <1>0, <1>1 DEF LoginSucceeds, Idle
  <2>2. creds.token < creds'.token
    BY <1>0, <2>1 DEF CredentialsTogether, NoCredentials, NoToken
  <2>3. \A c \in Command : sending'[c] = 0
    BY <2>1 DEF CallsBelong, NoSends
  <2> QED  BY <1>0, <2>1, <2>2, <2>3
<1>2. ASSUME NEW c \in {PrivateCommand, PublicCommand},
             c = PrivateCommand => creds.token # NoToken, Call(c)
      PROVE  TokensRise' /\ TokensInOrder'
  <2>1. PrivateCommand' = PrivateCommand /\ PublicCommand' = PublicCommand
    BY <1>2 DEF Call, PrivateCommand, PublicCommand
  <2>2. c.op = "private" => c = PrivateCommand
    BY <1>2 DEF PrivateCommand, PublicCommand
  <2>3. UNCHANGED <<facade, creds, accepted>> /\ sending' = [sending EXCEPT ![c] = @ + 1]
    BY <1>2 DEF Call
  <2>4. \A d \in Command : d # c => sending'[d] = sending[d]
    BY <2>3 DEF TypeOK
  <2> QED  BY <1>2, <2>1, <2>2, <2>3, <2>4
<1>3. ASSUME NEW c \in Command, SendEnds(c) PROVE TokensRise' /\ TokensInOrder'
  <2>1. /\ facade = "live" /\ c.token \in Nat
        /\ c.op = "private" => c.token = creds.token /\ c.token # NoToken
        /\ c.token <= creds.token
    <3>1. sending[c] > 0 /\ ~NoSends
      BY <1>3 DEF SendEnds, NoSends
    <3> QED  BY <1>0, <3>1 DEF CallsBelong, PrivateCommand, PublicCommand, NoToken
  <2>2. /\ accepted' = Append(accepted, c) /\ facade' = facade /\ creds' = creds
        /\ \A d \in Command : sending'[d] > 0 => sending[d] > 0
    BY <1>3 DEF SendEnds, TypeOK
  <2>3. /\ DOMAIN accepted' = DOMAIN accepted \cup {Len(accepted) + 1}
        /\ \A i \in DOMAIN accepted : accepted'[i] = accepted[i]
        /\ accepted'[Len(accepted) + 1] = c
        /\ DOMAIN accepted = 1 .. Len(accepted) /\ Len(accepted) \in Nat
    BY <1>0, <2>2
  <2>4. TokensRise'
    BY <2>1, <2>2, <2>3 DEF PrivateCommand, PublicCommand
  <2>5. TokensInOrder'
    BY <1>0, <2>1, <2>2, <2>3
  <2> QED  BY <2>4, <2>5
<1>4. ASSUME NEW c \in Command, CancelSend(c) PROVE TokensRise' /\ TokensInOrder'
  <2>1. /\ UNCHANGED <<facade, creds, accepted>>
        /\ \A d \in Command : sending'[d] > 0 => sending[d] > 0
    BY <1>4 DEF CancelSend, TypeOK
  <2> QED  BY <2>1 DEF PrivateCommand, PublicCommand
<1>5. ASSUME NEW k \in ApiKeys, CallLogin(k) PROVE TokensRise' /\ TokensInOrder'
  BY <1>5 DEF CallLogin, PrivateCommand, PublicCommand
<1>6. CASE DropClient
  BY <1>6 DEF DropClient, Exclusive, NoSends
<1>7. CASE Connect \/ ConnectWithGovernor
  BY <1>7 DEF Connect, ConnectWithGovernor, CallsBelong, NoSends
<1>8. CASE UNCHANGED <<facade, creds, sending, accepted>>
  BY <1>8 DEF PrivateCommand, PublicCommand
<1>9. CASE CallPrivate  BY <1>2, <1>9 DEF CallPrivate
<1>10. CASE CallPublic
  BY <1>2, <1>10 DEF CallPublic, PublicCommand, PrivateCommand
<1> QED
  BY <1>1, <1>3, <1>4, <1>5, <1>6, <1>7, <1>8, <1>9, <1>10
     DEF Next, vars, ConnectFails, LoginFails, CancelLogin, Stream, DropStream, EngineTakes,
         EngineEnds

\* The invariant holds throughout.
LEMMA Invariant == Spec => []IInv
<1>1. IInv /\ [Next]_vars => IInv'
  BY TypesKept, CallsKept, CredentialsKept, TokensKept DEF IInv
<1> QED  BY <1>1, InitInv, PTL DEF Spec

-----------------------------------------------------------------------------
\* Theorems.

\* Every variable keeps its type; the command channel never holds more than its
\* capacity.
THEOREM TypeCorrect == Spec => []TypeOK
<1>1. IInv => TypeOK  BY DEF IInv
<1> QED  BY <1>1, Invariant, PTL

\* The key, the secret and the token a client has stored come from one login.
THEOREM OneLogin == Spec => []CredentialsTogether
<1>1. IInv => CredentialsTogether  BY DEF IInv
<1> QED  BY <1>1, Invariant, PTL

\* Private commands carry a token, and tokens reach the engine in the order of
\* the logins that gave them.
THEOREM TokensSentInOrder == Spec => []TokensInOrder
<1>1. IInv => TokensInOrder  BY DEF IInv
<1> QED  BY <1>1, Invariant, PTL

=============================================================================
