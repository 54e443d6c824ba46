---------------------------- MODULE RabbitTopology ----------------------------
(***************************************************************************)
(* The queues of RabbitMQ and how messages move between them.  Every       *)
(* replica of api-gateway and of notification-service declares exchanges,  *)
(* queues and bindings when it starts (RabbitmqSetupService), one command  *)
(* after the other; an error is logged and the replica goes on without.    *)
(* Then the gateway sends saga messages to the main queue and              *)
(* notification-service consumes them.  Both declare the main queue once   *)
(* more, from arguments of their own.                                      *)
(*                                                                         *)
(* A message whose pattern has no handler, which happens while replicas of *)
(* two versions run, is rejected: it waits in the retry queue and comes    *)
(* back.  One that was handled is never acknowledged; it belongs to the    *)
(* consumer until that dies or its channel is lost, at the latest when     *)
(* RabbitMQ's own ack timeout closes it, and is delivered again.           *)
(*                                                                         *)
(* Not modelled: what handlers do (RegistrationSaga), and a broker that    *)
(* loses durable queues.                                                   *)
(***************************************************************************)
EXTENDS Naturals, Sequences

CONSTANTS
    Gateways,       \* replicas of api-gateway
    Consumers,      \* replicas of notification-service
    Messages,
    MaxConnects,    \* retries of the connection, 5
    Budget          \* bound: how often each kind of fault may happen

FaultKinds == {"connect", "connection", "crash", "channel", "noHandler"}

ASSUME TopologyAssumption ==
    /\ Gateways \cap Consumers = {}
    /\ MaxConnects \in Nat \ {0}
    /\ Budget \in [FaultKinds -> Nat]

Replicas == Gateways \cup Consumers

Queues == {"MAIN", "RETRY", "DLQ"}
Exchanges == {"NOTIFY", "RETRY", "DLQ"}

\* x-dead-letter-exchange and x-dead-letter-routing-key of a queue.
DeadLetterTo(exchange, key) == [exchange |-> exchange, key |-> key]
NoArguments == DeadLetterTo("none", "none")
Undeclared == DeadLetterTo("none", "undeclared")

Arguments == [exchange : Exchanges, key : Queues] \cup {NoArguments}

VARIABLES
    pc,         \* where setupTopology, or the replica after it, is
    step,       \* the next command of the script; 1 when there is none
    retries,    \* attempts to connect that are left, until it has succeeded
    consuming,  \* the consumers whose microservice has started
    exchanges,  \* exchanges declared so far
    queues,     \* arguments of each queue
    bindings,   \* pairs of a queue and an exchange, with the queue as key
    place,      \* per message: unsent, a queue, unacked or lost
    holder,     \* per message: who it was delivered to, when it is unacked
    handled,    \* per message: how often a handler has got it
    budget

setupVars == <<pc, step, retries>>
brokerVars == <<exchanges, queues, bindings>>
messageVars == <<place, holder, handled>>
vars == <<setupVars, consuming, brokerVars, messageVars, budget>>

-----------------------------------------------------------------------------
(* RabbitmqSetupService                                                    *)

\* Mutated: messages of the retry queue go to the dead-letter queue.
ArgumentsToDlq(q) ==
    CASE q = "DLQ"   -> NoArguments
      [] q = "RETRY" -> DeadLetterTo("DLQ", "DLQ")
      [] q = "MAIN"  -> DeadLetterTo("RETRY", "RETRY")

ArgumentsOf(q) ==
    CASE q = "DLQ"   -> NoArguments
      [] q = "RETRY" -> DeadLetterTo("NOTIFY", "MAIN")
      [] q = "MAIN"  -> DeadLetterTo("RETRY", "RETRY")

AssertExchange(ex) == [op |-> "exchange", queue |-> "none", exchange |-> ex]
AssertQueue(q) == [op |-> "queue", queue |-> q, exchange |-> "none"]
BindQueue(q, ex) == [op |-> "bind", queue |-> q, exchange |-> ex]

\* Mutated: bindings come before the queues.
ScriptBindFirst ==
    << AssertExchange("NOTIFY"), AssertExchange("RETRY"), AssertExchange("DLQ"),
       BindQueue("DLQ", "DLQ"), BindQueue("RETRY", "RETRY"),
       BindQueue("MAIN", "NOTIFY"),
       AssertQueue("DLQ"), AssertQueue("RETRY"), AssertQueue("MAIN") >>

\* Mutated: the binding over which retried messages come back is forgotten.
ScriptUnbound ==
    << AssertExchange("NOTIFY"), AssertExchange("RETRY"), AssertExchange("DLQ"),
       AssertQueue("DLQ"), BindQueue("DLQ", "DLQ"),
       AssertQueue("RETRY"), BindQueue("RETRY", "RETRY"),
       AssertQueue("MAIN") >>

\* The commands of setupTopology in their order.
Script ==
    << AssertExchange("NOTIFY"), AssertExchange("RETRY"), AssertExchange("DLQ"),
       AssertQueue("DLQ"), BindQueue("DLQ", "DLQ"),
       AssertQueue("RETRY"), BindQueue("RETRY", "RETRY"),
       AssertQueue("MAIN"), BindQueue("MAIN", "NOTIFY") >>

TypeOK ==
    /\ pc \in [Replicas -> {"connect", "declare", "done", "failed"}]
    /\ step \in [Replicas -> 1 .. Len(Script)]
    /\ retries \in [Replicas -> 1 .. MaxConnects]
    /\ consuming \subseteq Consumers
    /\ exchanges \subseteq Exchanges
    /\ queues \in [Queues -> Arguments \cup {Undeclared}]
    /\ bindings \subseteq Queues \X Exchanges
    /\ \A b \in bindings : queues[b[1]] # Undeclared /\ b[2] \in exchanges
    /\ place \in [Messages -> Queues \cup {"unsent", "unacked", "lost"}]
    /\ holder \in [Messages -> Replicas \cup {"nobody"}]
    /\ \A m \in Messages : place[m] = "unacked" => holder[m] \in consuming
    /\ handled \in [Messages -> Nat]
    /\ budget \in [FaultKinds -> Nat]

Init ==
    /\ pc = [r \in Replicas |-> "connect"]
    /\ step = [r \in Replicas |-> 1]
    /\ retries = [r \in Replicas |-> MaxConnects]
    /\ consuming = {}
    /\ exchanges = {}
    /\ queues = [q \in Queues |-> Undeclared]
    /\ bindings = {}
    /\ place = [m \in Messages |-> "unsent"]
    /\ holder = [m \in Messages |-> "nobody"]
    /\ handled = [m \in Messages |-> 0]
    /\ budget = Budget

Spend(kind) ==
    /\ budget[kind] > 0
    /\ budget' = [budget EXCEPT ![kind] = @ - 1]

Goto(r, label) == pc' = [pc EXCEPT ![r] = label]

Connect(r) ==
    /\ pc[r] = "connect"
    /\ Goto(r, "declare")
    /\ retries' = [retries EXCEPT ![r] = MaxConnects]
    /\ UNCHANGED <<step, consuming, brokerVars, messageVars, budget>>

\* After the last attempt the error is thrown, and logged.
ConnectFails(r) ==
    /\ pc[r] = "connect"
    /\ Spend("connect")
    /\ IF retries[r] = 1
       THEN /\ Goto(r, "failed")
            /\ retries' = [retries EXCEPT ![r] = MaxConnects]
       ELSE /\ retries' = [retries EXCEPT ![r] = @ - 1]
            /\ UNCHANGED pc
    /\ UNCHANGED <<step, consuming, brokerVars, messageVars>>

\* RabbitMQ refuses to declare a queue again with other arguments, and to bind
\* what is not there.
Accepts(command) ==
    CASE command.op = "exchange" -> TRUE
      [] command.op = "queue" ->
             queues[command.queue] \in {Undeclared, ArgumentsOf(command.queue)}
      [] command.op = "bind" ->
             queues[command.queue] # Undeclared /\ command.exchange \in exchanges

Apply(command) ==
    /\ exchanges' = IF command.op = "exchange"
                    THEN exchanges \cup {command.exchange} ELSE exchanges
    /\ queues' = IF command.op = "queue"
                 THEN [queues EXCEPT ![command.queue] = ArgumentsOf(command.queue)]
                 ELSE queues
    /\ bindings' = IF command.op = "bind"
                   THEN bindings \cup {<<command.queue, command.exchange>>}
                   ELSE bindings

\* Mutated: the loop runs past the last command.
DeclarePastEnd(r) ==
    /\ pc[r] = "declare"
    /\ Accepts(Script[step[r]])
    /\ Apply(Script[step[r]])
    /\ IF step[r] > Len(Script)
       THEN /\ Goto(r, "done")
            /\ step' = [step EXCEPT ![r] = 1]
       ELSE /\ step' = [step EXCEPT ![r] = @ + 1]
            /\ UNCHANGED pc
    /\ UNCHANGED <<retries, consuming, messageVars, budget>>

Declare(r) ==
    /\ pc[r] = "declare"
    /\ Accepts(Script[step[r]])
    /\ Apply(Script[step[r]])
    /\ IF step[r] = Len(Script)
       THEN /\ Goto(r, "done")
            /\ step' = [step EXCEPT ![r] = 1]
       ELSE /\ step' = [step EXCEPT ![r] = @ + 1]
            /\ UNCHANGED pc
    /\ UNCHANGED <<retries, consuming, messageVars, budget>>

\* The connection breaks between two commands, or RabbitMQ refuses the next one:
\* the rest is not declared.
DeclareFails(r) ==
    /\ pc[r] = "declare"
    /\ IF Accepts(Script[step[r]]) THEN Spend("connection") ELSE UNCHANGED budget
    /\ Goto(r, "failed")
    /\ step' = [step EXCEPT ![r] = 1]
    /\ UNCHANGED <<retries, consuming, brokerVars, messageVars>>

\* onModuleInit has returned, with or without a topology.
Started(r) == pc[r] \in {"done", "failed"}

-----------------------------------------------------------------------------
(* Clients and consumers of the main queue                                 *)

\* queueOptions of the client of api-gateway, and of that of task-service.
ClientArguments == DeadLetterTo("RETRY", "RETRY")

\* queueOptions of the microservice of notification-service.
ServerArguments == DeadLetterTo("RETRY", "RETRY")

\* assertQueue of the main queue outside of setupTopology.
AssertMain(arguments) ==
    /\ queues["MAIN"] \in {Undeclared, arguments}
    /\ queues' = [queues EXCEPT !["MAIN"] = arguments]
    /\ UNCHANGED <<exchanges, bindings>>

\* The client publishes to the default exchange, with the queue as key.
Send(g, m) ==
    /\ Started(g)
    /\ place[m] = "unsent"
    /\ AssertMain(ClientArguments)
    /\ place' = [place EXCEPT ![m] = "MAIN"]
    /\ UNCHANGED <<setupVars, consuming, holder, handled, budget>>

\* app.init has ended; startAllMicroservices.  After ChannelLost the client
\* library does the same once more.
StartConsumer(c) ==
    /\ Started(c)
    /\ c \notin consuming
    /\ AssertMain(ServerArguments)
    /\ consuming' = consuming \cup {c}
    /\ UNCHANGED <<setupVars, messageVars, budget>>

\* Mutated: a handled message is rejected all the same.
HandleThenNack(c, m) ==
    /\ c \in consuming
    /\ place[m] = "MAIN"
    /\ place' = [place EXCEPT ![m] = "RETRY"]
    /\ handled' = [handled EXCEPT ![m] = @ + 1]
    /\ UNCHANGED <<setupVars, consuming, brokerVars, holder, budget>>

\* noAck is false and no handler acknowledges.
Handle(c, m) ==
    /\ c \in consuming
    /\ place[m] = "MAIN"
    /\ place' = [place EXCEPT ![m] = "unacked"]
    /\ holder' = [holder EXCEPT ![m] = c]
    /\ handled' = [handled EXCEPT ![m] = @ + 1]
    /\ UNCHANGED <<setupVars, consuming, brokerVars, budget>>

\* Where a message that dies in q goes: nowhere if the exchange or the binding
\* its arguments name has not been declared.
DeadLetter(q) ==
    IF /\ queues[q].exchange \in exchanges
       /\ <<queues[q].key, queues[q].exchange>> \in bindings
    THEN queues[q].key
    ELSE "lost"

\* nack without requeue of a message for which the replica has no handler.
Nack(c, m) ==
    /\ c \in consuming
    /\ place[m] = "MAIN"
    /\ Spend("noHandler")
    /\ place' = [place EXCEPT ![m] = DeadLetter("MAIN")]
    /\ UNCHANGED <<setupVars, consuming, brokerVars, holder, handled>>

\* x-message-ttl of the retry queue.
RetryExpires(m) ==
    /\ place[m] = "RETRY"
    /\ place' = [place EXCEPT ![m] = DeadLetter("RETRY")]
    /\ UNCHANGED <<setupVars, consuming, brokerVars, holder, handled, budget>>

\* The messages that c has not acknowledged return to the main queue.
Requeue(c) ==
    place' = [m \in Messages |->
                  IF place[m] = "unacked" /\ holder[m] = c THEN "MAIN" ELSE place[m]]

\* The connection of c breaks, or RabbitMQ has waited for an acknowledgement
\* long enough and closes the channel.
ChannelLost(c) ==
    /\ c \in consuming
    /\ Spend("channel")
    /\ consuming' = consuming \ {c}
    /\ Requeue(c)
    /\ UNCHANGED <<setupVars, brokerVars, holder, handled>>

\* A replica dies, is started again and runs its setup again.
Crash(r) ==
    /\ Spend("crash")
    /\ Goto(r, "connect")
    /\ step' = [step EXCEPT ![r] = 1]
    /\ retries' = [retries EXCEPT ![r] = MaxConnects]
    /\ consuming' = consuming \ {r}
    /\ Requeue(r)
    /\ UNCHANGED <<brokerVars, holder, handled>>

-----------------------------------------------------------------------------

SetupStep(r) == Connect(r) \/ ConnectFails(r) \/ Declare(r) \/ DeclareFails(r)

Next ==
    \/ \E r \in Replicas : SetupStep(r) \/ Crash(r)
    \/ \E g \in Gateways, m \in Messages : Send(g, m)
    \/ \E c \in Consumers : StartConsumer(c) \/ ChannelLost(c)
    \/ \E c \in Consumers, m \in Messages : Handle(c, m) \/ Nack(c, m)
    \/ \E m \in Messages : RetryExpires(m)

Spec == Init /\ [][Next]_vars

\* Every await of a setup ends, the client library keeps connecting and
\* consuming, and messages expire.  Nothing is assumed of requests and faults.
Fairness ==
    /\ \A r \in Replicas : WF_vars(SetupStep(r))
    /\ \A c \in Consumers : WF_vars(StartConsumer(c))
    /\ \A m \in Messages :
           /\ WF_vars(\E c \in Consumers : Handle(c, m))
           /\ WF_vars(RetryExpires(m))

FairSpec == Spec /\ Fairness

-----------------------------------------------------------------------------
(* Properties                                                              *)

SetupDone == \E r \in Replicas : pc[r] = "done"

\* The four places that declare the main queue agree, and in whatever order
\* replicas interleave their commands, every queue and exchange is there before
\* it is bound: no declaration is refused.
NeverRefused ==
    /\ \A r \in Replicas : pc[r] = "declare" => Accepts(Script[step[r]])
    /\ queues["MAIN"] \in {Undeclared, ClientArguments}
    /\ queues["MAIN"] \in {Undeclared, ServerArguments}

\* project.md:56, "zero data loss", as far as the code goes: from the moment the
\* setup of one replica has got through, no message is lost between the queues,
\* although setups that fail are only logged and replicas that restart declare
\* everything again.
NothingLostAfterSetup ==
    \A m \in Messages :
        [](SetupDone /\ place[m] # "lost" => [](place[m] # "lost"))

\* A message is handled once, and once more for every replica that died and
\* every channel that was lost, by an ack timeout too.
HandledBounded ==
    \A m \in Messages :
        handled[m] <= 1 + (Budget["crash"] - budget["crash"])
                        + (Budget["channel"] - budget["channel"])

\* A message sent to the main queue reaches a handler, also if it is rejected
\* first, once all three queues have been declared.
RetriedUntilHandled ==
    \A m \in Messages :
        SetupDone /\ place[m] \in Queues ~> handled[m] > 0
=============================================================================
