-------------------------- MODULE ConnectionProofs --------------------------
(***************************************************************************)
(* Theorems about the engine task, for every feed, every set of commands,  *)
(* every size of the channels and any number of lost connections.          *)
(***************************************************************************)
EXTENDS ConnectionProperties, SequenceTheorems, TLAPS

\* What the engine's place says of the command channel: a flush that is forced,
\* and the end, come only when the client is gone and its commands are taken; a
\* command that waits for a slot has a client.
Ending ==
  /\ pc \in {"forceAggregates", "forceDrain", "stopped"} => cmdq = <<>> /\ ~cmdOpen
  /\ blocked # NoCommand => cmdOpen /\ blocked \in ClientCommands

-----------------------------------------------------------------------------

\* It holds at the start.
LEMMA EndingInit == ASSUME Init PROVE Ending
BY DEF Init, Ending, NoCommand

\* Every step keeps it.  Only Enqueue, CallSend, DropClient and TakeCommand touch
\* the command channel, and only CommandsClosed starts to end.
LEMMA EndingKept == ASSUME Ending, [Next]_vars PROVE Ending'
<1> USE DEF Ending, channels, application, history, engine, network, conflation
<1>1. CASE ConnectOk  BY <1>1 DEF ConnectOk
<1>2. CASE ConnectFails  BY <1>2 DEF ConnectFails
<1>3. CASE Resubscribe  BY <1>3 DEF Resubscribe
<1>4. CASE Resubscribed  BY <1>4 DEF Resubscribed
<1>5. CASE Wake  BY <1>5 DEF Wake
<1>6. CASE ReadMessage  BY <1>6 DEF ReadMessage
<1>7. CASE ConnectionEnds  BY <1>7 DEF ConnectionEnds, LeaveLoop
<1>8. CASE TakeCommand  BY <1>8 DEF TakeCommand, LeaveLoop
<1>9. CASE CommandsClosed  BY <1>9 DEF CommandsClosed
<1>10. CASE Tick  BY <1>10 DEF Tick, StartFlush
<1>11. CASE SendAtOnce  BY <1>11 DEF SendAtOnce, LeaveLoop
<1>12. CASE Conflate  BY <1>12 DEF Conflate
<1>13. CASE Gate  BY <1>13 DEF Gate, StartFlush
<1>14. CASE SendAggregate  BY <1>14 DEF SendAggregate
<1>15. CASE AggregatesSent  BY <1>15 DEF AggregatesSent
<1>16. CASE FlushOne  BY <1>16 DEF FlushOne
<1>17. CASE FlushEnds  BY <1>17 DEF FlushEnds
<1>18. CASE ForceFlushOne  BY <1>18 DEF ForceFlushOne
<1>19. CASE Stop  BY <1>19 DEF Stop
<1>20. CASE Receive  BY <1>20 DEF Receive
<1>21. CASE CallSend  BY <1>21 DEF CallSend
<1>22. CASE Enqueue  BY <1>22 DEF Enqueue
<1>23. CASE DropClient  BY <1>23 DEF DropClient
<1>24. CASE DropReceiver  BY <1>24 DEF DropReceiver
<1>25. CASE ServerSends \/ LinkLost \/ LossNoticed \/ GovernorSwitches
  BY <1>25 DEF ServerSends, LinkLost, LossNoticed, GovernorSwitches
<1>26. CASE UNCHANGED vars  BY <1>26 DEF vars
<1> QED
  BY <1>1, <1>2, <1>3, <1>4, <1>5, <1>6, <1>7, <1>8, <1>9, <1>10, <1>11, <1>12, <1>13,
     <1>14, <1>15, <1>16, <1>17, <1>18, <1>19, <1>20, <1>21, <1>22, <1>23, <1>24, <1>25,
     <1>26 DEF Next, Engine, Environment, Terminated

\* Every step is a step of the command path, or none.
LEMMA NextPath == ASSUME Ending, [Next]_vars PROVE [Path!PathNext]_(Path!path)
<1> DEFINE Same == cmdq' = cmdq /\ cmdOpen' = cmdOpen /\ (pc' = "stopped" <=> pc = "stopped")
<1>0. ASSUME Same PROVE UNCHANGED Path!path
  BY <1>0 DEF Path!path
<1>1. CASE TakeCommand
  <2>1. /\ pc = "select" /\ pc' \in {"select", "sleep"} /\ cmdq # <<>>
        /\ cmdq' = Tail(cmdq) /\ cmdOpen' = cmdOpen
    BY <1>1 DEF TakeCommand, LeaveLoop
  <2>2. Path!Take
    BY <2>1 DEF Path!Take
  <2> QED  BY <2>2 DEF Path!PathNext
<1>2. CASE Enqueue
  <2>1. /\ blocked \in ClientCommands /\ cmdOpen /\ Len(cmdq) < CommandCapacity
        /\ cmdq' = Append(cmdq, blocked) /\ cmdOpen' = cmdOpen /\ pc' = pc
    BY <1>2 DEF Enqueue, Ending, engine
  <2>2. Path!Accept(blocked)
    BY <2>1 DEF Path!Accept
  <2> QED  BY <2>1, <2>2 DEF Path!PathNext
<1>3. CASE DropClient
  <2>1. cmdOpen /\ cmdOpen' = FALSE /\ cmdq' = cmdq /\ pc' = pc
    BY <1>3 DEF DropClient, engine
  <2>2. Path!Close
    BY <2>1 DEF Path!Close
  <2> QED  BY <2>2 DEF Path!PathNext
<1>4. CASE ForceFlushOne \/ Stop
  <2>1. /\ pc = "forceDrain" /\ pc' \in {"forceDrain", "stopped"}
        /\ cmdq = <<>> /\ ~cmdOpen /\ cmdq' = cmdq /\ cmdOpen' = cmdOpen
    BY <1>4 DEF ForceFlushOne, Stop, Ending, channels
  <2>2. CASE pc' = "stopped"
    <3>1. Path!End
      BY <2>1, <2>2 DEF Path!End
    <3> QED  BY <3>1 DEF Path!PathNext
  <2>3. CASE pc' = "forceDrain"
    BY <1>0, <2>1, <2>3
  <2> QED  BY <2>1, <2>2, <2>3
<1>5. CASE ConnectOk \/ ConnectFails \/ Resubscribe \/ Resubscribed \/ Wake
  <2>1. Same
    BY <1>5 DEF ConnectOk, ConnectFails, Resubscribe, Resubscribed, Wake, channels
  <2> QED  BY <1>0, <2>1
<1>6. CASE ReadMessage \/ ConnectionEnds \/ CommandsClosed \/ Tick
  <2>1. Same
    BY <1>6 DEF ReadMessage, ConnectionEnds, CommandsClosed, Tick, StartFlush, LeaveLoop, channels
  <2> QED  BY <1>0, <2>1
<1>7. CASE SendAtOnce \/ Conflate \/ Gate
  <2>1. Same
    BY <1>7 DEF SendAtOnce, Conflate, Gate, StartFlush, LeaveLoop, channels
  <2> QED  BY <1>0, <2>1
<1>8. CASE SendAggregate \/ AggregatesSent \/ FlushOne \/ FlushEnds
  <2>1. Same
    BY <1>8 DEF SendAggregate, AggregatesSent, FlushOne, FlushEnds, channels
  <2> QED  BY <1>0, <2>1
<1>9. CASE Receive \/ CallSend \/ DropReceiver
  <2>1. Same
    BY <1>9 DEF Receive, CallSend, DropReceiver, engine, channels
  <2> QED  BY <1>0, <2>1
<1>10. CASE ServerSends \/ LinkLost \/ LossNoticed \/ GovernorSwitches
  <2>1. Same
    BY <1>10 DEF ServerSends, LinkLost, LossNoticed, GovernorSwitches, engine, channels
  <2> QED  BY <1>0, <2>1
<1>11. CASE UNCHANGED vars
  <2>1. Same
    BY <1>11 DEF vars, engine, channels
  <2> QED  BY <1>0, <2>1
<1> HIDE DEF Same
<1> QED
  BY <1>1, <1>2, <1>3, <1>4, <1>5, <1>6, <1>7, <1>8, <1>9, <1>10, <1>11
     DEF Next, Engine, Environment, Terminated

\* The initial state is an initial state of the command path.
LEMMA InitPath == ASSUME Init PROVE Path!PathInit
BY DEF Init, Path!PathInit

\* The engine keeps the promise the client relies on: commands are taken in
\* order, and it ends only when the client is gone and none is left.
THEOREM EngineIsPath == Spec => ImplementsPath
<1>1. Spec => []Ending
  BY EndingInit, EndingKept, PTL DEF Spec
<1> QED
  BY <1>1, InitPath, NextPath, PTL DEF Spec, ImplementsPath, Path!PathSpec

-----------------------------------------------------------------------------
\* Subscriptions.

Subscriptions == {c \in Range(InitialSubscriptions) \cup ClientCommands : IsSubscribe(c)}

Args(cs) == {cs[i].arg : i \in DOMAIN cs}

\* Why no subscription is lost: what the application wants is recorded, and
\* during a replay the server has it or it is still to be replayed.
Recorded ==
  /\ cmdq \in Seq(ClientCommands)
  /\ active \in Seq(Subscriptions) /\ replay \in Seq(Subscriptions)
  /\ wanted \subseteq Args(active)
  /\ pc = "resubscribe" /\ link = "up" => Owed \subseteq serverSubs \cup Args(replay)
  /\ pc # "resubscribe" /\ link = "up" => Owed \subseteq serverSubs

\* The channels of a sequence of subscriptions, when one is added or taken.
LEMMA ArgsAppend ==
  ASSUME NEW S, NEW cs \in Seq(S), NEW c \in S
  PROVE  Append(cs, c) \in Seq(S) /\ Args(Append(cs, c)) = Args(cs) \cup {c.arg}
<1>1. /\ Append(cs, c) \in Seq(S) /\ DOMAIN Append(cs, c) = DOMAIN cs \cup {Len(cs) + 1}
      /\ \A i \in DOMAIN cs : Append(cs, c)[i] = cs[i]
      /\ Append(cs, c)[Len(cs) + 1] = c
  OBVIOUS
<1> QED  BY <1>1 DEF Args

LEMMA ArgsTail ==
  ASSUME NEW S, NEW cs \in Seq(S), cs # <<>>
  PROVE  Head(cs) \in S /\ Tail(cs) \in Seq(S) /\ Args(cs) \subseteq {Head(cs).arg} \cup Args(Tail(cs))
<1>1. Len(cs) \in Nat \ {0} /\ DOMAIN cs = 1 .. Len(cs)
  BY EmptySeq, LenProperties
<1>2. Head(cs) \in S /\ Head(cs) = cs[1] /\ Tail(cs) \in Seq(S) /\ Len(Tail(cs)) = Len(cs) - 1
  BY HeadTailProperties, <1>1, ElementOfSeq
<1>3. DOMAIN Tail(cs) = 1 .. Len(cs) - 1
  BY <1>2, LenProperties
<1>4. \A i \in DOMAIN cs : i = 1 \/ (i - 1 \in DOMAIN Tail(cs) /\ Tail(cs)[i - 1] = cs[i])
  <2> SUFFICES ASSUME NEW i \in 2 .. Len(cs) PROVE i - 1 \in DOMAIN Tail(cs) /\ Tail(cs)[i - 1] = cs[i]
    BY <1>1
  <2>1. i - 1 \in 1 .. Len(cs) - 1 /\ (i - 1) + 1 = i
    BY <1>1
  <2>2. \A j \in 1 .. Len(Tail(cs)) : Tail(cs)[j] = cs[j + 1]
    BY HeadTailProperties, <1>1
  <2> QED  BY <1>2, <1>3, <2>1, <2>2
<1> QED  BY <1>2, <1>4 DEF Args

\* It holds at the start.
LEMMA RecordedInit == ASSUME Init PROVE Recorded
<1>1. /\ InitialSubscriptions \in Seq(Range(InitialSubscriptions))
      /\ \A i \in DOMAIN InitialSubscriptions :
           InitialSubscriptions[i] \in Range(InitialSubscriptions)
      /\ \A c \in Range(InitialSubscriptions) : IsSubscribe(c)
  BY ConnectionAssumption DEF IsSubscribe, Range
<1>2. InitialSubscriptions \in Seq(Subscriptions)
  BY <1>1 DEF Subscriptions
<1>3. wanted = Args(InitialSubscriptions) /\ active = InitialSubscriptions
  BY DEF Init, Args
<1> QED  BY <1>2, <1>3 DEF Init, Recorded

\* A replay starts with everything recorded, shrinks as the server takes it, and
\* a command is recorded before it is written.
LEMMA RecordedKept == ASSUME Recorded, Ending, [Next]_vars PROVE Recorded'
<1> USE DEF Recorded, Owed
<1> DEFINE Same ==
      /\ cmdq' = cmdq /\ active' = active /\ replay' = replay /\ wanted' = wanted
      /\ link' = "up" => link = "up" /\ serverSubs' = serverSubs /\ (pc' = "resubscribe" <=> pc = "resubscribe")
<1>0. ASSUME Same PROVE Recorded'
  BY <1>0 DEF Args
<1>1. CASE ConnectOk
  BY <1>1 DEF ConnectOk, channels, Args
<1>2. CASE Resubscribe
  <2>1. /\ pc = "resubscribe" /\ pc' = pc /\ replay # <<>> /\ replay' = Tail(replay)
        /\ cmdq' = cmdq /\ active' = active /\ wanted' = wanted /\ link' = link
        /\ link = "up" => ServerTakes(Head(replay))
    BY <1>2 DEF Resubscribe, channels, history
  <2>2. /\ Head(replay) \in Subscriptions /\ Tail(replay) \in Seq(Subscriptions)
        /\ Args(replay) \subseteq {Head(replay).arg} \cup Args(Tail(replay))
    BY <2>1, ArgsTail
  <2>3. link = "up" => Owed \cap (serverSubs \cup {Head(replay).arg}) \subseteq serverSubs'
    BY <2>1, <2>2 DEF ServerTakes, CarriesToken, Subscriptions, IsSubscribe
  <2>4. Args(active)' = Args(active) /\ Args(replay)' = Args(Tail(replay))
    BY <2>1 DEF Args
  <2> QED  BY <2>1, <2>2, <2>3, <2>4
<1>3. CASE Resubscribed
  <2>1. Args(replay) = {} /\ Args(active)' = Args(active)
    BY <1>3 DEF Resubscribed, Args
  <2> QED  BY <1>3, <2>1 DEF Resubscribed, channels, network, history
<1>4. CASE TakeCommand
  <2> DEFINE c == Head(cmdq)
  <2>1. /\ pc = "select" /\ pc' \in {"select", "sleep"} /\ cmdq # <<>> /\ cmdq' = Tail(cmdq)
        /\ replay' = replay /\ active' = IF IsSubscribe(c) THEN Append(active, c) ELSE active
        /\ Wants(c)
        /\ link' = "up" => link = "up" /\ ServerTakes(c)
    BY <1>4 DEF TakeCommand, LeaveLoop, network
  <2>2. c \in ClientCommands /\ cmdq' \in Seq(ClientCommands)
    BY <2>1, ArgsTail
  <2>3. IsSubscribe(c) => c \in Subscriptions
    BY <2>2 DEF Subscriptions
  <2>4. /\ active' \in Seq(Subscriptions)
        /\ Args(active') = IF IsSubscribe(c) THEN Args(active) \cup {c.arg} ELSE Args(active)
    <3>1. CASE IsSubscribe(c)
      <4>1. /\ Append(active, c) \in Seq(Subscriptions)
            /\ Args(Append(active, c)) = Args(active) \cup {c.arg}
        BY <3>1, <2>3, ArgsAppend
      <4> QED  BY <4>1, <3>1, <2>1
    <3>2. CASE ~IsSubscribe(c)
      BY <3>2, <2>1
    <3> QED  BY <3>1, <3>2
  <2>5. wanted' \subseteq Args(active')
    BY <2>1, <2>4 DEF Wants, IsSubscribe
  <2>6. link' = "up" => Owed' \subseteq serverSubs'
    <3> SUFFICES ASSUME link' = "up" PROVE Owed' \subseteq serverSubs'
      OBVIOUS
    <3>1. link = "up" /\ ServerTakes(c) /\ Owed \subseteq serverSubs
      BY <2>1
    <3>2. CASE c.op = "subscribe"
      BY <2>1, <3>1, <3>2 DEF Wants, ServerTakes, CarriesToken
    <3>3. CASE c.op = "unsubscribe"
      BY <2>1, <3>1, <3>3 DEF Wants, ServerTakes, CarriesToken
    <3>4. CASE c.op \notin {"subscribe", "unsubscribe"}
      BY <2>1, <3>1, <3>4 DEF Wants, ServerTakes, CarriesToken
    <3> QED  BY <3>2, <3>3, <3>4
  <2> QED  BY <2>1, <2>2, <2>4, <2>5, <2>6
<1>5. CASE Enqueue
  <2>1. blocked \in ClientCommands /\ cmdq' = Append(cmdq, blocked)
    BY <1>5 DEF Enqueue, Ending
  <2>2. cmdq' \in Seq(ClientCommands)
    BY <2>1
  <2> QED  BY <1>5, <2>2 DEF Enqueue, engine, network, history, Args
<1>6. CASE ConnectFails \/ Wake \/ ReadMessage \/ ConnectionEnds \/ CommandsClosed \/ Tick
  <2>1. Same
    BY <1>6 DEF ConnectFails, Wake, ReadMessage, ConnectionEnds, CommandsClosed, Tick,
         StartFlush, LeaveLoop, channels, network, history
  <2> QED  BY <1>0, <2>1
<1>7. CASE SendAtOnce \/ Conflate \/ Gate
  <2>1. Same
    BY <1>7 DEF SendAtOnce, Conflate, Gate, StartFlush, LeaveLoop, channels, network, history
  <2> QED  BY <1>0, <2>1
<1>8. CASE SendAggregate \/ AggregatesSent \/ FlushOne \/ FlushEnds \/ ForceFlushOne \/ Stop
  <2>1. Same
    BY <1>8 DEF SendAggregate, AggregatesSent, FlushOne, FlushEnds, ForceFlushOne, Stop,
         channels, network, history
  <2> QED  BY <1>0, <2>1
<1>9. CASE Receive \/ CallSend \/ DropClient \/ DropReceiver
  <2>1. Same
    BY <1>9 DEF Receive, CallSend, DropClient, DropReceiver, engine, channels, network, history
  <2> QED  BY <1>0, <2>1
<1>10. CASE ServerSends \/ LinkLost \/ LossNoticed \/ GovernorSwitches
  <2>1. Same
    BY <1>10 DEF ServerSends, LinkLost, LossNoticed, GovernorSwitches, engine, channels,
         network, history
  <2> QED  BY <1>0, <2>1
<1>11. CASE UNCHANGED vars
  <2>1. Same
    BY <1>11 DEF vars, engine, channels, network, history
  <2> QED  BY <1>0, <2>1
<1> HIDE DEF Same
<1> QED
  BY <1>1, <1>2, <1>3, <1>4, <1>5, <1>6, <1>7, <1>8, <1>9, <1>10, <1>11
     DEF Next, Engine, Environment, Terminated

\* Whenever the engine waits on a live connection, the server has every
\* subscription the application has made and not taken back, but for the private
\* ones it refused.
THEOREM SubscriptionsSurvive == Spec => []WantedSubscribed
<1>1. Recorded => WantedSubscribed
  BY DEF Recorded, WantedSubscribed
<1>2. Init => Ending /\ Recorded
  BY EndingInit, RecordedInit
<1>3. Ending /\ Recorded /\ [Next]_vars => Ending' /\ Recorded'
  BY EndingKept, RecordedKept
<1> QED  BY <1>1, <1>2, <1>3, PTL DEF Spec

-----------------------------------------------------------------------------
\* Orders.

Placed == {sent[i] : i \in 1 .. Len(sent)}

\* The application sent c before d.
Before(c, d) == \E i, j \in 1 .. Len(sent) : i < j /\ sent[i] = c /\ sent[j] = d

\* Why orders stay in order: the application sends every command once; what waits
\* in the queue was sent in the queue's order, and before the command that waits
\* for a slot; and an executed order was sent before all of them and before the
\* orders executed after it.
Sequenced ==
  /\ sent \in Seq(ClientCommands) /\ executed \in Seq({c.id : c \in ClientCommands})
  /\ \A i, j \in 1 .. Len(sent) : sent[i] = sent[j] => i = j
  /\ blocked # NoCommand => blocked \in Placed
  /\ \A i \in 1 .. Len(cmdq) :
       /\ cmdq[i] \in Placed
       /\ \A j \in 1 .. Len(cmdq) : i < j => Before(cmdq[i], cmdq[j])
       /\ blocked # NoCommand => Before(cmdq[i], blocked)
  /\ \A i \in 1 .. Len(executed) : \E c \in Placed :
       /\ c.op = "order" /\ c.id = executed[i]
       /\ \A j \in 1 .. Len(executed) : i < j =>
            \E d \in Placed : d.op = "order" /\ d.id = executed[j] /\ Before(c, d)
       /\ \A j \in 1 .. Len(cmdq) : Before(c, cmdq[j])
       /\ blocked # NoCommand => Before(c, blocked)

LEMMA SequencedInit == ASSUME Init PROVE Sequenced
<1>1. /\ sent = <<>> /\ executed = <<>> /\ cmdq = <<>> /\ blocked = NoCommand
      /\ \A S : <<>> \in Seq(S)
  BY DEF Init
<1>2. Len(sent) = 0 /\ Len(executed) = 0 /\ Len(cmdq) = 0
  BY <1>1
<1>3. sent \in Seq(ClientCommands) /\ executed \in Seq({c.id : c \in ClientCommands})
  BY <1>1
<1> QED  BY <1>1, <1>2, <1>3 DEF Sequenced

\* Nothing in the path of the commands changes.
LEMMA SequencedSame ==
  ASSUME Sequenced, UNCHANGED <<sent, executed, cmdq, blocked>>
  PROVE  Sequenced'
BY DEF Sequenced, Placed, Before

\* A call adds a command after all others.
LEMMA SequencedCall ==
  ASSUME Sequenced, CallSend
  PROVE  Sequenced'
<1>1. PICK c \in ClientCommands : c \notin Range(sent) /\ sent' = Append(sent, c) /\ blocked' = c
  BY DEF CallSend
<1>2. UNCHANGED <<executed, cmdq>> /\ sent \in Seq(ClientCommands)
  BY DEF CallSend, channels, network, Sequenced
<1>3. /\ sent' \in Seq(ClientCommands) /\ Len(sent') = Len(sent) + 1 /\ Len(sent) \in Nat
      /\ sent'[Len(sent) + 1] = c /\ \A i \in 1 .. Len(sent) : sent'[i] = sent[i]
  BY <1>1, <1>2, AppendProperties, LenProperties
<1>4. c \notin Placed
  BY <1>1, <1>2, LenProperties DEF Range, Placed
<1>5. \A i \in 1 .. Len(sent') : i \in 1 .. Len(sent) \/ i = Len(sent) + 1
  BY <1>3
<1>6. \A i, j \in 1 .. Len(sent') : sent'[i] = sent'[j] => i = j
  <2>1. \A i \in 1 .. Len(sent) : sent[i] # c
    BY <1>4 DEF Placed
  <2>2. \A i, j \in 1 .. Len(sent) : sent[i] = sent[j] => i = j
    BY DEF Sequenced
  <2> QED  BY <1>3, <1>5, <2>1, <2>2
<1>7. Placed \subseteq Placed' /\ c \in Placed'
  BY <1>3 DEF Placed
<1>8. \A x, y : Before(x, y) => Before(x, y)'
  BY <1>3 DEF Before
<1>9. ASSUME NEW x \in Placed PROVE Before(x, c)'
  <2>1. PICK i \in 1 .. Len(sent) : x = sent[i]
    BY <1>9 DEF Placed
  <2>2. i \in 1 .. Len(sent') /\ Len(sent) + 1 \in 1 .. Len(sent') /\ i < Len(sent) + 1
    BY <1>3
  <2> QED  BY <2>1, <2>2, <1>3 DEF Before
<1>10. ASSUME NEW i \in 1 .. Len(cmdq')
       PROVE  /\ cmdq'[i] \in Placed'
              /\ \A j \in 1 .. Len(cmdq') : i < j => Before(cmdq[i], cmdq[j])'
              /\ blocked' # NoCommand => Before(cmdq[i], blocked)'
  BY <1>1, <1>2, <1>7, <1>8, <1>9 DEF Sequenced
<1>11. ASSUME NEW i \in 1 .. Len(executed')
       PROVE  \E d \in Placed' :
                /\ d.op = "order" /\ d.id = executed'[i]
                /\ \A j \in 1 .. Len(executed') : i < j =>
                     \E e \in Placed' : e.op = "order" /\ e.id = executed'[j] /\ Before(d, e)'
                /\ \A j \in 1 .. Len(cmdq') : Before(d, cmdq[j])'
                /\ blocked' # NoCommand => Before(d, blocked)'
  <2>1. PICK d \in Placed :
          /\ d.op = "order" /\ d.id = executed[i]
          /\ \A j \in 1 .. Len(executed) : i < j =>
               \E e \in Placed : e.op = "order" /\ e.id = executed[j] /\ Before(d, e)
          /\ \A j \in 1 .. Len(cmdq) : Before(d, cmdq[j])
    BY <1>2 DEF Sequenced
  <2>2. d \in Placed' /\ \A j \in 1 .. Len(executed') : i < j =>
               \E e \in Placed' : e.op = "order" /\ e.id = executed'[j] /\ Before(d, e)'
    BY <2>1, <1>2, <1>7, <1>8
  <2> QED  BY <2>1, <2>2, <1>1, <1>2, <1>8, <1>9
<1> QED  BY <1>1, <1>2, <1>3, <1>6, <1>7, <1>10, <1>11 DEF Sequenced

\* The command that waited for a slot goes to the end of the queue.
LEMMA SequencedEnqueue ==
  ASSUME Ending, Recorded, Sequenced, Enqueue
  PROVE  Sequenced'
<1>1. /\ blocked # NoCommand /\ cmdq' = Append(cmdq, blocked) /\ blocked' = NoCommand
      /\ UNCHANGED <<sent, executed>>
  BY DEF Enqueue, network
<1>2. blocked \in ClientCommands /\ blocked \in Placed /\ cmdq \in Seq(ClientCommands)
  BY <1>1 DEF Ending, Sequenced, Recorded
<1>3. /\ Len(cmdq') = Len(cmdq) + 1 /\ Len(cmdq) \in Nat
      /\ cmdq'[Len(cmdq) + 1] = blocked /\ \A i \in 1 .. Len(cmdq) : cmdq'[i] = cmdq[i]
  BY <1>1, <1>2, AppendProperties, LenProperties
<1>4. \A i \in 1 .. Len(cmdq') : i \in 1 .. Len(cmdq) \/ i = Len(cmdq) + 1
  BY <1>3
<1>5. Placed' = Placed /\ \A x, y : Before(x, y)' = Before(x, y)
  BY <1>1 DEF Placed, Before
<1>6. ASSUME NEW i \in 1 .. Len(cmdq')
      PROVE  /\ cmdq'[i] \in Placed
             /\ \A j \in 1 .. Len(cmdq') : i < j => Before(cmdq'[i], cmdq'[j])
             /\ blocked' # NoCommand => Before(cmdq'[i], blocked')
  <2>1. CASE i \in 1 .. Len(cmdq)
    <3>1. \A j \in 1 .. Len(cmdq) : i < j => Before(cmdq'[i], cmdq'[j])
      BY <2>1, <1>3 DEF Sequenced
    <3>2. Before(cmdq'[i], cmdq'[Len(cmdq) + 1]) /\ cmdq'[i] \in Placed
      BY <2>1, <1>1, <1>3 DEF Sequenced
    <3> QED  BY <3>1, <3>2, <1>1, <1>4
  <2>2. CASE i = Len(cmdq) + 1
    BY <2>2, <1>1, <1>2, <1>3
  <2> QED  BY <2>1, <2>2, <1>4
<1>7. ASSUME NEW i \in 1 .. Len(executed)
      PROVE  \E c \in Placed :
                /\ c.op = "order" /\ c.id = executed[i]
                /\ \A j \in 1 .. Len(executed) : i < j =>
                     \E d \in Placed : d.op = "order" /\ d.id = executed[j] /\ Before(c, d)
                /\ \A j \in 1 .. Len(cmdq') : Before(c, cmdq'[j])
                /\ blocked' # NoCommand => Before(c, blocked')
  <2>1. PICK c \in Placed :
          /\ c.op = "order" /\ c.id = executed[i]
          /\ \A j \in 1 .. Len(executed) : i < j =>
               \E d \in Placed : d.op = "order" /\ d.id = executed[j] /\ Before(c, d)
          /\ \A j \in 1 .. Len(cmdq) : Before(c, cmdq[j])
          /\ Before(c, blocked)
    BY <1>1 DEF Sequenced
  <2>2. \A j \in 1 .. Len(cmdq') : Before(c, cmdq'[j])
    BY <2>1, <1>3, <1>4
  <2> QED  BY <2>1, <2>2, <1>1
<1>8. /\ sent' \in Seq(ClientCommands) /\ executed' \in Seq({c.id : c \in ClientCommands})
      /\ \A i, j \in 1 .. Len(sent') : sent'[i] = sent'[j] => i = j
      /\ blocked' # NoCommand => blocked' \in Placed
  BY <1>1, <1>5 DEF Sequenced
<1>9. /\ blocked' # NoCommand => blocked' \in Placed'
      /\ \A i \in 1 .. Len(cmdq') :
           /\ cmdq'[i] \in Placed'
           /\ \A j \in 1 .. Len(cmdq') : i < j => Before(cmdq[i], cmdq[j])'
           /\ blocked' # NoCommand => Before(cmdq[i], blocked)'
  BY <1>5, <1>6, <1>8
<1>10. \A i \in 1 .. Len(executed') : \E c \in Placed' :
         /\ c.op = "order" /\ c.id = executed'[i]
         /\ \A j \in 1 .. Len(executed') : i < j =>
              \E d \in Placed' : d.op = "order" /\ d.id = executed'[j] /\ Before(c, d)'
         /\ \A j \in 1 .. Len(cmdq') : Before(c, cmdq[j])'
         /\ blocked' # NoCommand => Before(c, blocked)'
  BY <1>1, <1>5, <1>7
<1> QED  BY <1>8, <1>9, <1>10 DEF Sequenced

\* A command leaves the front of the queue; if it is an order and the connection
\* is up, the server executes it.
LEMMA SequencedTake ==
  ASSUME Recorded, Sequenced, TakeCommand
  PROVE  Sequenced'
<1> DEFINE c == cmdq[1]
<1>1. /\ cmdq # <<>> /\ cmdq' = Tail(cmdq) /\ UNCHANGED <<sent, blocked>>
      /\ \/ executed' = executed
         \/ Head(cmdq).op = "order" /\ executed' = Append(executed, Head(cmdq).id)
  BY DEF TakeCommand, network, application, ServerTakes
<1>2. /\ cmdq \in Seq(ClientCommands) /\ executed \in Seq({d.id : d \in ClientCommands})
      /\ Len(cmdq) \in Nat \ {0} /\ Len(executed) \in Nat
  BY <1>1, EmptySeq, LenProperties DEF Recorded, Sequenced
<1>3. /\ Head(cmdq) = c /\ c \in ClientCommands /\ c.id \in {d.id : d \in ClientCommands}
      /\ Len(cmdq') = Len(cmdq) - 1
      /\ \A i \in 1 .. Len(cmdq') : i + 1 \in 1 .. Len(cmdq) /\ cmdq'[i] = cmdq[i + 1]
  BY <1>1, <1>2, HeadTailProperties, ElementOfSeq
<1>4. Placed' = Placed /\ \A x, y : Before(x, y)' = Before(x, y)
  BY <1>1 DEF Placed, Before
<1>5. 1 \in 1 .. Len(cmdq) /\ c \in Placed /\ \A i \in 1 .. Len(cmdq') : Before(c, cmdq'[i])
  <2>1. 1 \in 1 .. Len(cmdq) /\ \A i \in 1 .. Len(cmdq') : 1 < i + 1
    BY <1>2, <1>3
  <2> QED  BY <2>1, <1>3 DEF Sequenced
<1> HIDE DEF c
<1>6. ASSUME NEW i \in 1 .. Len(cmdq')
      PROVE  /\ cmdq'[i] \in Placed
             /\ \A j \in 1 .. Len(cmdq') : i < j => Before(cmdq'[i], cmdq'[j])
             /\ blocked # NoCommand => Before(cmdq'[i], blocked)
  <2>1. \A j \in 1 .. Len(cmdq') : i < j => i + 1 < j + 1
    BY <1>2
  <2> QED  BY <2>1, <1>3 DEF Sequenced
<1> DEFINE Good(i, ex) == \E d \in Placed :
                /\ d.op = "order" /\ d.id = ex[i]
                /\ \A j \in 1 .. Len(ex) : i < j =>
                     \E e \in Placed : e.op = "order" /\ e.id = ex[j] /\ Before(d, e)
                /\ \A j \in 1 .. Len(cmdq') : Before(d, cmdq'[j])
                /\ blocked # NoCommand => Before(d, blocked)
<1>7. ASSUME NEW i \in 1 .. Len(executed)
      PROVE  \E d \in Placed :
               /\ d.op = "order" /\ d.id = executed[i]
               /\ \A j \in 1 .. Len(executed) : i < j =>
                    \E e \in Placed : e.op = "order" /\ e.id = executed[j] /\ Before(d, e)
               /\ \A j \in 1 .. Len(cmdq') : Before(d, cmdq'[j])
               /\ blocked # NoCommand => Before(d, blocked)
               /\ Before(d, c)
  <2>1. PICK d \in Placed :
          /\ d.op = "order" /\ d.id = executed[i]
          /\ \A j \in 1 .. Len(executed) : i < j =>
               \E e \in Placed : e.op = "order" /\ e.id = executed[j] /\ Before(d, e)
          /\ \A j \in 1 .. Len(cmdq) : Before(d, cmdq[j])
          /\ blocked # NoCommand => Before(d, blocked)
    BY DEF Sequenced
  <2>2. Before(d, c) /\ \A j \in 1 .. Len(cmdq') : Before(d, cmdq'[j])
    BY <2>1, <1>3, <1>5 DEF c
  <2> QED  BY <2>1, <2>2
<1>8. executed' \in Seq({d.id : d \in ClientCommands}) /\ \A i \in 1 .. Len(executed') : Good(i, executed')
  <2>1. CASE executed' = executed
    BY <2>1, <1>2, <1>7
  <2>2. CASE c.op = "order" /\ executed' = Append(executed, c.id)
    <3>1. /\ executed' \in Seq({d.id : d \in ClientCommands})
          /\ Len(executed') = Len(executed) + 1 /\ executed'[Len(executed) + 1] = c.id
          /\ \A i \in 1 .. Len(executed) : executed'[i] = executed[i]
      BY <2>2, <1>2, <1>3, AppendProperties
    <3>2. \A i \in 1 .. Len(executed') : i \in 1 .. Len(executed) \/ i = Len(executed) + 1
      BY <3>1, <1>2
    <3>3. ASSUME NEW i \in 1 .. Len(executed) PROVE Good(i, executed')
      <4>1. PICK d \in Placed :
               /\ d.op = "order" /\ d.id = executed[i]
               /\ \A j \in 1 .. Len(executed) : i < j =>
                    \E e \in Placed : e.op = "order" /\ e.id = executed[j] /\ Before(d, e)
               /\ \A j \in 1 .. Len(cmdq') : Before(d, cmdq'[j])
               /\ blocked # NoCommand => Before(d, blocked)
               /\ Before(d, c)
        BY <1>7
      <4>2. \A j \in 1 .. Len(executed') : i < j =>
              \E e \in Placed : e.op = "order" /\ e.id = executed'[j] /\ Before(d, e)
        BY <4>1, <3>1, <3>2, <1>5, <2>2
      <4>3. d.id = executed'[i]
        BY <4>1, <3>1
      <4> QED  BY <4>1, <4>2, <4>3
    <3>4. Good(Len(executed) + 1, executed')
      <4>1. \A j \in 1 .. Len(executed') : ~(Len(executed) + 1 < j)
        BY <3>1, <1>2
      <4>2. blocked # NoCommand => Before(c, blocked)
        BY <1>5 DEF Sequenced, c
      <4> QED  BY <4>1, <4>2, <3>1, <2>2, <1>5
    <3> HIDE DEF Good
    <3> QED  BY <3>1, <3>2, <3>3, <3>4
  <2> QED  BY <1>1, <1>3, <2>1, <2>2
<1>9. sent' \in Seq(ClientCommands) /\ (\A i, j \in 1 .. Len(sent') : sent'[i] = sent'[j] => i = j)
      /\ (blocked' # NoCommand => blocked' \in Placed)
  BY <1>1 DEF Sequenced
<1> QED  BY <1>1, <1>4, <1>6, <1>8, <1>9 DEF Sequenced

\* A replay consists of subscriptions, so the server executes nothing.
LEMMA SequencedKept == ASSUME Ending, Recorded, Sequenced, [Next]_vars PROVE Sequenced'
<1> USE DEF channels, application, network, engine
<1>1. CASE Resubscribe
  <2>1. /\ replay # <<>> /\ UNCHANGED <<cmdq, sent, blocked>>
        /\ ServerTakes(Head(replay)) \/ executed' = executed
    BY <1>1 DEF Resubscribe
  <2>2. Head(replay).op = "subscribe"
    BY <2>1, ArgsTail DEF Recorded, Subscriptions, IsSubscribe
  <2>3. executed' = executed
    BY <2>1, <2>2 DEF ServerTakes
  <2> QED  BY <2>1, <2>3, SequencedSame
<1>2. CASE TakeCommand  BY <1>2, SequencedTake
<1>3. CASE CallSend  BY <1>3, SequencedCall
<1>4. CASE Enqueue  BY <1>4, SequencedEnqueue
<1>5. ASSUME UNCHANGED <<sent, executed, cmdq, blocked>> PROVE Sequenced'
  BY <1>5, SequencedSame
<1>6. CASE ConnectOk \/ ConnectFails \/ Resubscribed \/ Wake
  BY <1>5, <1>6 DEF ConnectOk, ConnectFails, Resubscribed, Wake
<1>7. CASE ReadMessage \/ ConnectionEnds \/ CommandsClosed \/ Tick
  BY <1>5, <1>7 DEF ReadMessage, ConnectionEnds, CommandsClosed, Tick
<1>8. CASE SendAtOnce \/ Conflate \/ Gate \/ SendAggregate \/ AggregatesSent
  BY <1>5, <1>8 DEF SendAtOnce, Conflate, Gate, SendAggregate, AggregatesSent
<1>9. CASE FlushOne \/ FlushEnds \/ ForceFlushOne \/ Stop
  BY <1>5, <1>9 DEF FlushOne, FlushEnds, ForceFlushOne, Stop
<1>10. CASE Receive \/ DropClient \/ DropReceiver
  BY <1>5, <1>10 DEF Receive, DropClient, DropReceiver
<1>11. CASE ServerSends \/ LinkLost \/ LossNoticed \/ GovernorSwitches
  BY <1>5, <1>11 DEF ServerSends, LinkLost, LossNoticed, GovernorSwitches
<1>12. CASE UNCHANGED vars  BY <1>5, <1>12 DEF vars
<1> HIDE DEF channels, application, network, engine
<1> QED
  BY <1>1, <1>2, <1>3, <1>4, <1>6, <1>7, <1>8, <1>9, <1>10, <1>11, <1>12
     DEF Next, Engine, Environment, Terminated

\* An order is known by its id, and sent once.
LEMMA SequencedOrder ==
  ASSUME Sequenced
  PROVE  OrdersInSequence
<1> SUFFICES ASSUME NEW i \in DOMAIN executed, NEW j \in DOMAIN executed, i < j
             PROVE  SentAs(executed[i]) < SentAs(executed[j])
  BY DEF OrdersInSequence
<1>1. DOMAIN executed = 1 .. Len(executed) /\ DOMAIN sent = 1 .. Len(sent) /\ Len(sent) \in Nat
      /\ \A p \in 1 .. Len(sent) : sent[p] \in ClientCommands
  BY LenProperties, ElementOfSeq DEF Sequenced
<1>2. PICK c \in Placed : /\ c.op = "order" /\ c.id = executed[i]
                          /\ \E d \in Placed : d.op = "order" /\ d.id = executed[j] /\ Before(c, d)
  BY <1>1 DEF Sequenced
<1>3. PICK d \in Placed : d.op = "order" /\ d.id = executed[j] /\ Before(c, d)
  BY <1>2
<1>4. PICK p, q \in 1 .. Len(sent) : p < q /\ sent[p] = c /\ sent[q] = d
  BY <1>3 DEF Before
<1>5. ASSUME NEW r \in 1 .. Len(sent), sent[r].op = "order" PROVE SentAs(sent[r].id) = r
  <2>1. ASSUME NEW x \in 1 .. Len(sent), sent[x].op = "order", sent[x].id = sent[r].id PROVE x = r
    <3>1. sent[x] = sent[r]
      BY <1>1, <1>5, <2>1, ConnectionAssumption
    <3> QED  BY <3>1 DEF Sequenced
  <2> QED  BY <2>1, <1>1, <1>5 DEF SentAs
<1>6. SentAs(executed[i]) = p /\ SentAs(executed[j]) = q
  BY <1>2, <1>3, <1>4, <1>5
<1> QED  BY <1>4, <1>6

\* The server executes orders in the order they were placed, and none twice.
THEOREM OrdersStayInSequence == Spec => []OrdersInSequence
<1>1. Init => Ending /\ Recorded /\ Sequenced
  BY EndingInit, RecordedInit, SequencedInit
<1>2. Ending /\ Recorded /\ Sequenced /\ [Next]_vars => Ending' /\ Recorded' /\ Sequenced'
  BY EndingKept, RecordedKept, SequencedKept
<1>3. Sequenced => OrdersInSequence
  BY SequencedOrder
<1> QED  BY <1>1, <1>2, <1>3, PTL DEF Spec

=============================================================================
