------------------------------- MODULE Client -------------------------------
(***************************************************************************)
(* The facade an application holds (client.rs): KrakenClient with its      *)
(* credentials, its half of the command channel, the receiver it gives     *)
(* away once, and its share of the governor.  The engine behind it is the  *)
(* one of CommandPath.                                                     *)
(*                                                                         *)
(* Connecting is tried until it succeeds once.  A method that awaits is    *)
(* two steps, the call and what ends it; in between the application may    *)
(* drop the future.  The methods that send share the client (&self), so    *)
(* any number of sends may wait for the channel at once; login and stream  *)
(* borrow it mutably (&mut self), and dropping it needs the whole of it,   *)
(* so none of these meets a call that is under way.                        *)
(***************************************************************************)
EXTENDS CommandPath, FiniteSets

CONSTANTS
  ApiKeys,      \* the API keys the application has, each with its secret
  MaxAttempts,  \* bound: connections tried with an invalid URL
  MaxLogins,    \* bound: logins that succeed
  MaxCalls      \* bound: sends that are called

ASSUME ClientAssumption ==
  /\ Capacity \in Nat \ {0}
  /\ MaxAttempts \in Nat /\ MaxLogins \in Nat /\ MaxCalls \in Nat
  /\ Command = [op : {"private", "public"}, token : 0 .. MaxLogins]

VARIABLES
  facade,    \* the KrakenClient: not yet there, live, or dropped
  creds,     \* its api_key, api_secret and token
  calling,   \* the login that awaits, or Idle
  sending,   \* how many sends of each command wait for the channel
  stream,    \* the receiver: held in event_receiver, taken, or dropped
  holders,   \* who holds the Arc of the client's governor
  orphans,   \* monitor tasks left behind by attempts that failed
  attempts, calls,
  logins,    \* history: the API key of each token the server has issued
  accepted   \* history: the commands that were answered with Ok

governors == <<holders, orphans, attempts>>

vars == <<path, facade, creds, calling, sending, stream, governors, calls, logins, accepted>>

\* Option::None, for a key and for a token.
None == "none"
NoToken == 0

NoCredentials == [key |-> None, secret |-> None, token |-> NoToken]

Idle == [op |-> "idle"]
Login(k) == [op |-> "login", key |-> k]

\* No send borrows the client.
NoSends == \A c \in Command : sending[c] = 0

\* The client can be borrowed mutably.
Exclusive == facade = "live" /\ calling = Idle /\ NoSends

Init ==
  /\ PathInit
  /\ facade = "none" /\ creds = NoCredentials /\ calling = Idle
  /\ sending = [c \in Command |-> 0] /\ stream = "held"
  /\ holders = {} /\ orphans = 0 /\ attempts = 0 /\ calls = 0
  /\ logins = <<>> /\ accepted = <<>>

-----------------------------------------------------------------------------
\* connect and connect_with_governor.

\* The URL is parsed in ConnectionManager::new.
Connect ==
  /\ facade = "none"
  /\ facade' = "live"
  /\ UNCHANGED <<path, creds, calling, sending, stream, governors, calls, logins, accepted>>

\* Governor::start gives one Arc to the task that monitors; the engine gets a
\* clone and the client keeps the original.
ConnectWithGovernor ==
  /\ facade = "none"
  /\ facade' = "live" /\ holders' = {"task", "engine", "client"}
  /\ UNCHANGED <<path, creds, calling, sending, stream, orphans, attempts, calls, logins, accepted>>

\* The URL is invalid.  With a governor, its task has been started already, and
\* it is the only one that still holds the governor.
ConnectFails ==
  /\ facade = "none" /\ attempts < MaxAttempts
  /\ orphans' \in {orphans, orphans + 1}
  /\ attempts' = attempts + 1
  /\ UNCHANGED <<path, facade, creds, calling, sending, stream, holders, calls, logins, accepted>>

-----------------------------------------------------------------------------
\* login.

\* Slip: key and secret are stored before the token is there.
SlipStoreFirst(k) ==
  /\ Exclusive /\ Len(logins) < MaxLogins
  /\ calling' = Login(k)
  /\ creds' = [creds EXCEPT !.key = k, !.secret = k]
  /\ UNCHANGED <<path, facade, sending, stream, governors, calls, logins, accepted>>

\* Slip: login shares the client.
SlipSharedLogin(k) ==
  /\ facade = "live" /\ calling = Idle /\ Len(logins) < MaxLogins
  /\ calling' = Login(k)
  /\ UNCHANGED <<path, facade, creds, sending, stream, governors, calls, logins, accepted>>

CallLogin(k) ==
  /\ Exclusive /\ Len(logins) < MaxLogins
  /\ calling' = Login(k)
  /\ UNCHANGED <<path, facade, creds, sending, stream, governors, calls, logins, accepted>>

\* get_ws_token answers with a token.
LoginSucceeds ==
  /\ calling.op = "login"
  /\ logins' = Append(logins, calling.key)
  /\ creds' = [key |-> calling.key, secret |-> calling.key, token |-> Len(logins')]
  /\ calling' = Idle
  /\ UNCHANGED <<path, facade, sending, stream, governors, calls, accepted>>

\* A secret that is not base64, a request that fails or an answer without a
\* token: the credentials stay what they were.
LoginFails ==
  /\ calling.op = "login"
  /\ calling' = Idle
  /\ UNCHANGED <<path, facade, creds, sending, stream, governors, calls, logins, accepted>>

\* The future is dropped; the server may have issued a token nobody gets.
CancelLogin ==
  /\ calling.op = "login"
  /\ logins' \in {logins, Append(logins, calling.key)}
  /\ calling' = Idle
  /\ UNCHANGED <<path, facade, creds, sending, stream, governors, calls, accepted>>

-----------------------------------------------------------------------------
\* Commands.

\* The token as text is put into the command when the method is called.
PrivateCommand == [op |-> "private", token |-> creds.token]
PublicCommand == [op |-> "public", token |-> NoToken]

Call(c) ==
  /\ facade = "live" /\ calling = Idle /\ calls < MaxCalls
  /\ sending' = [sending EXCEPT ![c] = @ + 1]
  /\ calls' = calls + 1
  /\ UNCHANGED <<path, facade, creds, calling, stream, governors, logins, accepted>>

\* add_order, cancel_order, subscribe_own_trades, subscribe_open_orders: without
\* a token they answer AuthError at once.
CallPrivate ==
  /\ creds.token # NoToken
  /\ Call(PrivateCommand)

\* subscribe_ticker, subscribe_book, send_command and send_raw.
CallPublic == Call(PublicCommand)

\* The channel has room for one of the sends that wait.  send answers
\* ChannelClosed if the engine has ended, which it does not while there is a
\* client to send (ImplementsPath of ConnectionProperties).
SendEnds(c) ==
  /\ sending[c] > 0
  /\ Accept(c)
  /\ accepted' = Append(accepted, c)
  /\ sending' = [sending EXCEPT ![c] = @ - 1]
  /\ UNCHANGED <<facade, creds, calling, stream, governors, calls, logins>>

\* The future is dropped while it waits for room: nothing is sent.
CancelSend(c) ==
  /\ sending[c] > 0
  /\ sending' = [sending EXCEPT ![c] = @ - 1]
  /\ UNCHANGED <<path, facade, creds, calling, stream, governors, calls, logins, accepted>>

-----------------------------------------------------------------------------
\* The receiver, and the end of the client.

\* stream.
Stream ==
  /\ Exclusive /\ stream = "held"
  /\ stream' = "taken"
  /\ UNCHANGED <<path, facade, creds, calling, sending, governors, calls, logins, accepted>>

DropStream ==
  /\ stream = "taken"
  /\ stream' = "dropped"
  /\ UNCHANGED <<path, facade, creds, calling, sending, governors, calls, logins, accepted>>

\* The client goes out of scope, or a second call of stream panics and unwinds
\* it.
DropClient ==
  /\ Exclusive /\ Close
  /\ facade' = "dropped" /\ creds' = NoCredentials
  /\ holders' = holders \ {"client"}
  /\ stream' = IF stream = "held" THEN "dropped" ELSE stream
  /\ UNCHANGED <<calling, sending, orphans, attempts, calls, logins, accepted>>

-----------------------------------------------------------------------------
\* The engine, spawned when the client connects.

EngineTakes ==
  /\ facade # "none" /\ Take
  /\ UNCHANGED <<facade, creds, calling, sending, stream, governors, calls, logins, accepted>>

\* Slip: the engine keeps a sender of its own and so never sees the channel close
\* while the stream is read.
SlipHoldsSender ==
  /\ facade # "none" /\ stream # "taken" /\ End
  /\ holders' = holders \ {"engine"}
  /\ UNCHANGED <<facade, creds, calling, sending, stream, orphans, attempts, calls, logins,
                 accepted>>

EngineEnds ==
  /\ facade # "none" /\ End
  /\ holders' = holders \ {"engine"}
  /\ UNCHANGED <<facade, creds, calling, sending, stream, orphans, attempts, calls, logins,
                 accepted>>

Next ==
  \/ Connect \/ ConnectWithGovernor \/ ConnectFails
  \/ (\E k \in ApiKeys : CallLogin(k)) \/ LoginSucceeds \/ LoginFails \/ CancelLogin
  \/ CallPrivate \/ CallPublic \/ (\E c \in Command : SendEnds(c) \/ CancelSend(c))
  \/ Stream \/ DropStream \/ DropClient
  \/ EngineTakes \/ EngineEnds

Spec == Init /\ [][Next]_vars

\* The engine takes what it is sent and ends when it can, as ConnectionManager
\* shows of its own.
FairSpec ==
  /\ Spec
  /\ WF_vars(EngineTakes) /\ WF_vars(EngineEnds)

-----------------------------------------------------------------------------
\* Properties.

Credentials == [key : ApiKeys \cup {None}, secret : ApiKeys \cup {None}, token : 0 .. MaxLogins]

\* Every variable has its type.
TypeOK ==
  /\ queue \in Seq(Command) /\ Len(queue) <= Capacity /\ open \in BOOLEAN /\ running \in BOOLEAN
  /\ facade \in {"none", "live", "dropped"}
  /\ creds \in Credentials
  /\ calling \in {Idle} \cup {Login(k) : k \in ApiKeys}
  /\ sending \in [Command -> Nat] /\ calls \in 0 .. MaxCalls
  /\ stream \in {"held", "taken", "dropped"}
  /\ holders \subseteq {"client", "engine", "task"}
  /\ orphans \in 0 .. attempts /\ attempts \in 0 .. MaxAttempts
  /\ logins \in Seq(ApiKeys)
  /\ accepted \in Seq(Command)

\* Key, secret and token of a client always come from one login, also while a
\* login is under way and after one that failed or was given up: the fields are
\* stored together, after the await (login).
CredentialsTogether ==
  \/ creds = NoCredentials
  \/ /\ creds.token \in DOMAIN logins
     /\ creds.key = logins[creds.token] /\ creds.secret = creds.key

\* Every private command the engine is sent carries a token, and commands are
\* sent in the order of their logins: one made with an old token never follows
\* one made with a newer token, although sends that wait together end in any
\* order (the guards of the private methods, login's exclusive borrow and the
\* order of the channel).
TokensInOrder ==
  \A i \in DOMAIN accepted :
    accepted[i].op = "private" =>
      /\ accepted[i].token # NoToken
      /\ \A j \in 1 .. i - 1 : accepted[j].token <= accepted[i].token

\* A client that is dropped ends its engine, whatever has become of the stream,
\* and not before the engine has taken every command that was answered with Ok;
\* of the governor only its task is left.
DroppedClientEnds ==
  facade = "dropped" ~> ~running /\ queue = <<>> /\ holders \subseteq {"task"}

=============================================================================
