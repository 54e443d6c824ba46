------------------------- MODULE RabbitTopologyProofs -------------------------
(***************************************************************************)
(* Proofs about RabbitTopology for any number of replicas, messages,       *)
(* attempts and faults.  Nothing is ever undeclared, and whoever declares  *)
(* a queue gives it the same arguments; so a setup that is under way may   *)
(* rely on all the commands before its next one, whatever other setups,    *)
(* clients and consumers do meanwhile.                                     *)
(***************************************************************************)
EXTENDS RabbitTopology, Integers, TLAPS

Commands == {AssertExchange(ex) : ex \in Exchanges}
            \cup {AssertQueue(q) : q \in Queues}
            \cup {BindQueue(q, ex) : q \in Queues, ex \in Exchanges}

\* The effect of a command that has been executed.
Declared(command) ==
    CASE command.op = "exchange" -> command.exchange \in exchanges
      [] command.op = "queue" ->
             queues[command.queue] = ArgumentsOf(command.queue)
      [] command.op = "bind" ->
             <<command.queue, command.exchange>> \in bindings

\* Of a replica that is not in the script, step is 1 and nothing is said.
PrefixInv(r) == \A i \in 1 .. step[r] - 1 : Declared(Script[i])

QueuesInv == \A q \in Queues : queues[q] \in {Undeclared, ArgumentsOf(q)}

\* The way of a rejected message: main queue, retry queue, main queue.
Complete ==
    /\ queues["MAIN"] = ArgumentsOf("MAIN")
    /\ queues["RETRY"] = ArgumentsOf("RETRY")
    /\ {"NOTIFY", "RETRY"} \subseteq exchanges
    /\ {<<"RETRY", "RETRY">>, <<"MAIN", "NOTIFY">>} \subseteq bindings

DoneInv == SetupDone => Complete

\* The faults that send messages back to the main queue.
Returns == (Budget["crash"] - budget["crash"])
           + (Budget["channel"] - budget["channel"])

CountInv(m) == handled[m] <= Returns + (IF place[m] = "unacked" THEN 1 ELSE 0)

Inv ==
    /\ TypeOK
    /\ \A r \in Replicas : PrefixInv(r)
    /\ QueuesInv
    /\ DoneInv
    /\ \A m \in Messages : CountInv(m)

-----------------------------------------------------------------------------
(* The script                                                              *)

LEMMA ScriptFacts ==
    /\ Len(Script) = 9
    /\ Script[1] = AssertExchange("NOTIFY")
    /\ Script[2] = AssertExchange("RETRY")
    /\ Script[3] = AssertExchange("DLQ")
    /\ Script[4] = AssertQueue("DLQ")
    /\ Script[5] = BindQueue("DLQ", "DLQ")
    /\ Script[6] = AssertQueue("RETRY")
    /\ Script[7] = BindQueue("RETRY", "RETRY")
    /\ Script[8] = AssertQueue("MAIN")
    /\ Script[9] = BindQueue("MAIN", "NOTIFY")
  BY DEF Script

LEMMA ScriptType == \A i \in 1 .. 9 : Script[i] \in Commands
  <1> SUFFICES ASSUME NEW i \in 1 .. 9
               PROVE  Script[i] \in Commands
    OBVIOUS
  <1>1. i \in {1, 2, 3, 4, 5, 6, 7, 8, 9}
    OBVIOUS
  <1>2. QED
    BY <1>1, ScriptFacts DEF Commands, Exchanges, Queues

LEMMA ArgumentsType ==
    /\ \A q \in Queues : ArgumentsOf(q) \in Arguments /\ ArgumentsOf(q) # Undeclared
    /\ ClientArguments = ArgumentsOf("MAIN")
    /\ ServerArguments = ArgumentsOf("MAIN")
  BY DEF Queues, Exchanges, ArgumentsOf, Arguments, NoArguments, DeadLetterTo,
         Undeclared, ClientArguments, ServerArguments

LEMMA CommandCases ==
    ASSUME NEW command \in Commands
    PROVE  \/ \E ex \in Exchanges : command = AssertExchange(ex)
           \/ \E q \in Queues : command = AssertQueue(q)
           \/ \E q \in Queues, ex \in Exchanges : command = BindQueue(q, ex)
  BY DEF Commands

LEMMA DeclaredCases ==
    /\ \A ex : Declared(AssertExchange(ex)) <=> ex \in exchanges
    /\ \A q : Declared(AssertQueue(q)) <=> queues[q] = ArgumentsOf(q)
    /\ \A q, ex : Declared(BindQueue(q, ex)) <=> <<q, ex>> \in bindings
  BY DEF Declared, AssertExchange, AssertQueue, BindQueue

LEMMA AcceptsCases ==
    /\ \A ex : Accepts(AssertExchange(ex))
    /\ \A q : Accepts(AssertQueue(q)) <=> queues[q] \in {Undeclared, ArgumentsOf(q)}
    /\ \A q, ex : Accepts(BindQueue(q, ex)) <=>
                      queues[q] # Undeclared /\ ex \in exchanges
  BY DEF Accepts, AssertExchange, AssertQueue, BindQueue

LEMMA ApplyCases ==
    /\ \A ex : Apply(AssertExchange(ex)) <=>
                   /\ exchanges' = exchanges \cup {ex}
                   /\ queues' = queues /\ bindings' = bindings
    /\ \A q : Apply(AssertQueue(q)) <=>
                   /\ queues' = [queues EXCEPT ![q] = ArgumentsOf(q)]
                   /\ exchanges' = exchanges /\ bindings' = bindings
    /\ \A q, ex : Apply(BindQueue(q, ex)) <=>
                   /\ bindings' = bindings \cup {<<q, ex>>}
                   /\ exchanges' = exchanges /\ queues' = queues
  BY DEF Apply, AssertExchange, AssertQueue, BindQueue

\* A setup that has executed the commands before number i is not refused it.
LEMMA NextAccepted ==
    ASSUME QueuesInv, NEW i \in 1 .. 9,
           \A j \in 1 .. i - 1 : Declared(Script[j])
    PROVE  Accepts(Script[i])
  <1>1. CASE i \in {1, 2, 3}
    BY <1>1, ScriptFacts, AcceptsCases
  <1>2. CASE i \in {4, 6, 8}
    BY <1>2, ScriptFacts, AcceptsCases DEF QueuesInv, Queues
  <1>3. CASE i = 5
    <2>1. Declared(Script[3]) /\ Declared(Script[4])
      BY <1>3
    <2>2. QED
      BY <1>3, <2>1, ScriptFacts, AcceptsCases, DeclaredCases, ArgumentsType
      DEF Queues
  <1>4. CASE i = 7
    <2>1. Declared(Script[2]) /\ Declared(Script[6])
      BY <1>4
    <2>2. QED
      BY <1>4, <2>1, ScriptFacts, AcceptsCases, DeclaredCases, ArgumentsType
      DEF Queues
  <1>5. CASE i = 9
    <2>1. Declared(Script[1]) /\ Declared(Script[8])
      BY <1>5
    <2>2. QED
      BY <1>5, <2>1, ScriptFacts, AcceptsCases, DeclaredCases, ArgumentsType
      DEF Queues
  <1>6. QED
    BY <1>1, <1>2, <1>3, <1>4, <1>5

LEMMA AllDeclared ==
    ASSUME \A i \in 1 .. 9 : Declared(Script[i])
    PROVE  Complete
  <1>1. /\ Declared(Script[1]) /\ Declared(Script[2]) /\ Declared(Script[6])
        /\ Declared(Script[7]) /\ Declared(Script[8]) /\ Declared(Script[9])
    OBVIOUS
  <1>2. QED
    BY <1>1, ScriptFacts, DeclaredCases DEF Complete

\* What steps of the system do to the broker: they add what the arguments say.
BrokerGrows ==
    /\ exchanges \subseteq exchanges'
    /\ bindings \subseteq bindings'
    /\ \A q \in Queues : \/ queues'[q] = queues[q]
                         \/ queues'[q] = ArgumentsOf(q)

BrokerTypes ==
    /\ exchanges \subseteq Exchanges
    /\ queues \in [Queues -> Arguments \cup {Undeclared}]
    /\ bindings \subseteq Queues \X Exchanges
    /\ \A b \in bindings : queues[b[1]] # Undeclared /\ b[2] \in exchanges

LEMMA GrowsKeeps ==
    ASSUME BrokerGrows, QueuesInv
    PROVE  /\ QueuesInv'
           /\ \A command \in Commands : Declared(command) => Declared(command)'
           /\ Complete => Complete'
  <1>1. QueuesInv'
    BY DEF BrokerGrows, QueuesInv
  <1>2. ASSUME NEW command \in Commands, Declared(command)
        PROVE  Declared(command)'
    <2>1. CASE \E ex \in Exchanges : command = AssertExchange(ex)
      BY <1>2, <2>1 DEF BrokerGrows, Declared, AssertExchange
    <2>2. CASE \E q \in Queues : command = AssertQueue(q)
      BY <1>2, <2>2 DEF BrokerGrows, Declared, AssertQueue
    <2>3. CASE \E q \in Queues, ex \in Exchanges : command = BindQueue(q, ex)
      BY <1>2, <2>3 DEF BrokerGrows, Declared, BindQueue
    <2>4. QED
      BY <2>1, <2>2, <2>3, CommandCases
  <1>3. Complete => Complete'
    BY DEF BrokerGrows, Complete, Queues
  <1>4. QED
    BY <1>1, <1>2, <1>3

LEMMA ApplyGrows ==
    ASSUME BrokerTypes, NEW command \in Commands, Accepts(command), Apply(command)
    PROVE  BrokerGrows /\ BrokerTypes' /\ Declared(command)'
  <1>1. CASE \E ex \in Exchanges : command = AssertExchange(ex)
    <2>1. PICK ex \in Exchanges : command = AssertExchange(ex)
      BY <1>1
    <2>2. /\ exchanges' = exchanges \cup {ex}
          /\ queues' = queues /\ bindings' = bindings
      BY <2>1, ApplyCases
    <2>3. QED
      BY <2>1, <2>2 DEF BrokerTypes, BrokerGrows, Declared, AssertExchange
  <1>2. CASE \E q \in Queues : command = AssertQueue(q)
    <2>1. PICK q \in Queues : command = AssertQueue(q)
      BY <1>2
    <2>2. /\ queues' = [queues EXCEPT ![q] = ArgumentsOf(q)]
          /\ exchanges' = exchanges /\ bindings' = bindings
      BY <2>1, ApplyCases
    <2>3. BrokerTypes'
      BY <2>2, ArgumentsType DEF BrokerTypes
    <2>4. BrokerGrows
      BY <2>2 DEF BrokerTypes, BrokerGrows
    <2>5. Declared(command)'
      BY <2>1, <2>2 DEF BrokerTypes, Declared, AssertQueue
    <2>6. QED
      BY <2>3, <2>4, <2>5
  <1>3. CASE \E q \in Queues, ex \in Exchanges : command = BindQueue(q, ex)
    <2>1. PICK q \in Queues, ex \in Exchanges : command = BindQueue(q, ex)
      BY <1>3
    <2>2. /\ bindings' = bindings \cup {<<q, ex>>}
          /\ exchanges' = exchanges /\ queues' = queues
          /\ queues[q] # Undeclared /\ ex \in exchanges
      BY <2>1, ApplyCases, AcceptsCases
    <2>3. QED
      BY <2>1, <2>2 DEF BrokerTypes, BrokerGrows, Declared, BindQueue
  <1>4. QED
    BY <1>1, <1>2, <1>3, CommandCases

LEMMA AssertMainGrows ==
    ASSUME BrokerTypes, NEW arguments \in {ClientArguments, ServerArguments},
           AssertMain(arguments)
    PROVE  BrokerGrows /\ BrokerTypes'
  <1>1. /\ queues' = [queues EXCEPT !["MAIN"] = ArgumentsOf("MAIN")]
        /\ exchanges' = exchanges /\ bindings' = bindings
    BY ArgumentsType DEF AssertMain
  <1>2. "MAIN" \in Queues
    BY DEF Queues
  <1>3. BrokerTypes'
    BY <1>1, <1>2, ArgumentsType DEF BrokerTypes
  <1>4. BrokerGrows
    BY <1>1, <1>2 DEF BrokerTypes, BrokerGrows
  <1>5. QED
    BY <1>3, <1>4

\* In a complete topology, a message that dies in one queue reaches the other.
LEMMA RouteOf ==
    ASSUME Complete
    PROVE  DeadLetter("MAIN") = "RETRY" /\ DeadLetter("RETRY") = "MAIN"
  BY DEF Complete, DeadLetter, ArgumentsOf, DeadLetterTo

LEMMA DeadLetterType ==
    ASSUME BrokerTypes, NEW q \in Queues
    PROVE  DeadLetter(q) \in Queues \cup {"lost"} /\ DeadLetter(q) # "unacked"
  BY DEF BrokerTypes, DeadLetter, Queues

-----------------------------------------------------------------------------
(* Every step                                                              *)

SetupTypes ==
    /\ pc \in [Replicas -> {"connect", "declare", "done", "failed"}]
    /\ step \in [Replicas -> 1 .. 9]
    /\ retries \in [Replicas -> 1 .. MaxConnects]
    /\ consuming \subseteq Consumers

MessageTypes ==
    /\ place \in [Messages -> Queues \cup {"unsent", "unacked", "lost"}]
    /\ holder \in [Messages -> Replicas \cup {"nobody"}]
    /\ \A m \in Messages : place[m] = "unacked" => holder[m] \in consuming
    /\ handled \in [Messages -> Nat]
    /\ budget \in [FaultKinds -> Nat]

LEMMA TypeParts ==
    /\ TypeOK <=> SetupTypes /\ BrokerTypes /\ MessageTypes
    /\ TypeOK' <=> SetupTypes' /\ BrokerTypes' /\ MessageTypes'
  BY ScriptFacts DEF TypeOK, SetupTypes, BrokerTypes, MessageTypes

SetupInv == (\A r \in Replicas : PrefixInv(r)) /\ DoneInv

Counts == \A m \in Messages : CountInv(m)

LEMMA SpendType ==
    ASSUME MessageTypes, NEW kind \in FaultKinds, Spend(kind)
    PROVE  /\ budget' \in [FaultKinds -> Nat]
           /\ kind \in {"crash", "channel"} => Returns' = Returns + 1
           /\ kind \notin {"crash", "channel"} => Returns' = Returns
  BY TopologyAssumption DEF MessageTypes, Spend, Returns, FaultKinds

\* A step of the broker only, or none: the setups rely on no less than before.
LEMMA SetupKept ==
    ASSUME SetupTypes, QueuesInv, SetupInv, BrokerGrows, NEW r \in Replicas,
           step'[r] = step[r]
    PROVE  PrefixInv(r)'
  <1> SUFFICES ASSUME NEW i \in 1 .. step[r] - 1
               PROVE  Declared(Script[i])'
    BY DEF PrefixInv
  <1>1. i \in 1 .. 9
    BY DEF SetupTypes
  <1>2. Declared(Script[i])
    BY DEF SetupInv, PrefixInv
  <1>3. QED
    BY <1>1, <1>2, ScriptType, GrowsKeeps

LEMMA SetupUnchanged ==
    ASSUME SetupTypes, QueuesInv, SetupInv, BrokerGrows, UNCHANGED <<pc, step>>
    PROVE  SetupInv'
  <1>1. \A r \in Replicas : PrefixInv(r)'
    BY SetupKept
  <1>2. DoneInv'
    BY GrowsKeeps DEF SetupInv, DoneInv, SetupDone
  <1>3. QED
    BY <1>1, <1>2 DEF SetupInv

LEMMA NoGrowth == UNCHANGED brokerVars => BrokerGrows
  BY DEF BrokerGrows, brokerVars

\* A setup leaves the script or has not begun it.
LEMMA SetupLeft ==
    ASSUME SetupTypes, QueuesInv, SetupInv, UNCHANGED brokerVars,
           NEW r \in Replicas, NEW label \in {"connect", "failed"}, Goto(r, label),
           step' = [step EXCEPT ![r] = 1]
    PROVE  SetupInv'
  <1>1. pc' = [pc EXCEPT ![r] = label]
    BY DEF Goto
  <1>2. ASSUME NEW q \in Replicas
        PROVE  PrefixInv(q)'
    <2>1. CASE q = r
      BY <1>1, <2>1 DEF PrefixInv, SetupTypes
    <2>2. CASE q # r
      BY <1>1, <2>2, SetupKept, NoGrowth DEF SetupTypes
    <2>3. QED
      BY <2>1, <2>2
  <1>3. DoneInv'
    <2>1. SetupDone' => SetupDone
      BY <1>1 DEF SetupTypes, SetupDone
    <2>2. QED
      BY <2>1, NoGrowth, GrowsKeeps DEF SetupInv, DoneInv
  <1>4. QED
    BY <1>2, <1>3 DEF SetupInv

LEMMA InitInv == Init => Inv
  <1> SUFFICES ASSUME Init
               PROVE  Inv
    OBVIOUS
  <1>1. SetupTypes /\ BrokerTypes /\ MessageTypes
    BY TopologyAssumption
    DEF Init, SetupTypes, BrokerTypes, MessageTypes, Queues, Replicas
  <1>2. QueuesInv /\ SetupInv
    BY DEF Init, QueuesInv, SetupInv, PrefixInv, DoneInv, SetupDone
  <1>3. Counts
    BY TopologyAssumption DEF Init, Counts, CountInv, Returns, FaultKinds
  <1>4. QED
    BY <1>1, <1>2, <1>3, TypeParts DEF Inv, SetupInv, Counts

LEMMA DeclareStep ==
    ASSUME Inv, NEW r \in Replicas, Declare(r)
    PROVE  Inv'
  <1>1. SetupTypes /\ BrokerTypes /\ MessageTypes /\ QueuesInv /\ SetupInv
    BY TypeParts DEF Inv, SetupInv
  <1>2. PICK n \in 1 .. 9 : step[r] = n
    BY <1>1 DEF SetupTypes
  <1>3. BrokerGrows /\ BrokerTypes' /\ Declared(Script[n])'
    <2>1. Script[n] \in Commands /\ Accepts(Script[n]) /\ Apply(Script[n])
      BY <1>2, ScriptType DEF Declare
    <2>2. QED
      BY <1>1, <2>1, ApplyGrows
  <1>4. QueuesInv'
    BY <1>1, <1>3, GrowsKeeps
  <1>5. \/ /\ step[r] = 9
           /\ pc' = [pc EXCEPT ![r] = "done"]
           /\ step' = [step EXCEPT ![r] = 1]
        \/ /\ step[r] # 9
           /\ pc' = pc
           /\ step' = [step EXCEPT ![r] = step[r] + 1]
    BY ScriptFacts DEF Declare, Goto
  <1>6. SetupTypes' /\ MessageTypes' /\ UNCHANGED <<messageVars, budget>>
    <2>1. UNCHANGED <<retries, consuming, messageVars, budget>>
      BY DEF Declare
    <2>2. SetupTypes'
      BY <1>1, <1>2, <1>5, <2>1 DEF SetupTypes
    <2>3. QED
      BY <1>1, <2>1, <2>2 DEF MessageTypes, messageVars
  <1>7. \A i \in 1 .. step[r] : Declared(Script[i])'
    <2> SUFFICES ASSUME NEW i \in 1 .. step[r]
                 PROVE  Declared(Script[i])'
      OBVIOUS
    <2>1. CASE i = step[r]
      BY <1>2, <1>3, <2>1
    <2>2. CASE i # step[r]
      <3>1. i \in 1 .. step[r] - 1 /\ i \in 1 .. 9
        BY <1>2, <2>2
      <3>2. Declared(Script[i])
        BY <1>1, <3>1 DEF Declare, SetupInv, PrefixInv
      <3>3. QED
        BY <1>1, <1>3, <3>1, <3>2, ScriptType, GrowsKeeps
    <2>3. QED
      BY <2>1, <2>2
  <1>8. ASSUME NEW q \in Replicas
        PROVE  PrefixInv(q)'
    <2>1. CASE q = r
      <3>1. CASE step[r] = 9
        BY <1>1, <1>5, <2>1, <3>1 DEF PrefixInv, SetupTypes
      <3>2. CASE step[r] # 9
        <4>1. step'[r] - 1 = step[r]
          BY <1>1, <1>2, <1>5, <3>2 DEF SetupTypes
        <4>2. QED
          BY <1>7, <2>1, <4>1 DEF PrefixInv
      <3>3. QED
        BY <3>1, <3>2
    <2>2. CASE q # r
      <3>1. step'[q] = step[q]
        BY <1>1, <1>5, <2>2 DEF SetupTypes
      <3>2. QED
        BY <1>1, <1>3, <3>1, SetupKept
    <2>3. QED
      BY <2>1, <2>2
  <1>9. DoneInv'
    <2>1. CASE step[r] = 9
      <3>1. Complete'
        <4>1. \A i \in 1 .. 9 : Declared(Script[i])'
          BY <1>7, <2>1
        <4>2. (\A i \in 1 .. 9 : Declared(Script[i]))'
          BY <4>1
        <4>3. QED
          BY <4>2, AllDeclared, PTL
      <3>2. QED
        BY <3>1 DEF DoneInv
    <2>2. CASE step[r] # 9
      <3>1. SetupDone' => SetupDone
        BY <1>5, <2>2 DEF SetupDone
      <3>2. QED
        BY <1>1, <1>3, <3>1, GrowsKeeps DEF SetupInv, DoneInv
    <2>3. QED
      BY <2>1, <2>2
  <1>10. Counts'
    BY <1>6 DEF Inv, Counts, CountInv, Returns, messageVars
  <1>11. QED
    BY <1>3, <1>4, <1>6, <1>8, <1>9, <1>10, TypeParts DEF Inv, Counts

\* Steps in which messages move: no setup is concerned.
LEMMA MessageStep ==
    ASSUME Inv, UNCHANGED setupVars, BrokerGrows, BrokerTypes',
           consuming' \subseteq Consumers,
           MessageTypes', Counts'
    PROVE  Inv'
  <1>1. SetupTypes /\ BrokerTypes /\ MessageTypes /\ QueuesInv /\ SetupInv
    BY TypeParts DEF Inv, SetupInv
  <1>2. SetupTypes'
    BY <1>1 DEF SetupTypes, setupVars
  <1>3. QueuesInv' /\ SetupInv'
    BY <1>1, GrowsKeeps, SetupUnchanged DEF setupVars
  <1>4. QED
    BY <1>2, <1>3, TypeParts DEF Inv, SetupInv, Counts

LEMMA NoGrowthTypes == BrokerTypes /\ UNCHANGED brokerVars => BrokerTypes'
  BY DEF BrokerTypes, brokerVars

\* A step of a setup that declares nothing.
LEMMA QuietSetupStep ==
    ASSUME Inv, UNCHANGED <<consuming, brokerVars, messageVars>>, SetupTypes',
           SetupInv', budget' \in [FaultKinds -> Nat], Returns' = Returns
    PROVE  Inv'
  <1>1. BrokerTypes /\ MessageTypes /\ QueuesInv
    BY TypeParts DEF Inv
  <1>2. BrokerTypes' /\ QueuesInv'
    BY <1>1, NoGrowth, NoGrowthTypes, GrowsKeeps
  <1>3. MessageTypes'
    BY <1>1 DEF MessageTypes, messageVars
  <1>4. Counts'
    BY DEF Inv, Counts, CountInv, messageVars
  <1>5. QED
    BY <1>2, <1>3, <1>4, TypeParts DEF Inv, SetupInv, Counts

LEMMA ConnectStep ==
    ASSUME Inv, NEW r \in Replicas, Connect(r)
    PROVE  Inv'
  <1>1. SetupTypes /\ BrokerTypes /\ MessageTypes /\ QueuesInv /\ SetupInv
    BY TypeParts DEF Inv, SetupInv
  <1>2. /\ pc' = [pc EXCEPT ![r] = "declare"]
        /\ retries' = [retries EXCEPT ![r] = MaxConnects]
        /\ UNCHANGED <<step, consuming, brokerVars, messageVars, budget>>
    BY DEF Connect, Goto
  <1>3. SetupTypes'
    BY <1>1, <1>2, TopologyAssumption DEF SetupTypes
  <1>4. SetupInv'
    <2>1. \A q \in Replicas : PrefixInv(q)'
      BY <1>1, <1>2, SetupKept, NoGrowth
    <2>2. SetupDone' => SetupDone
      BY <1>1, <1>2 DEF SetupTypes, SetupDone
    <2>3. DoneInv'
      BY <1>1, <1>2, <2>2, NoGrowth, GrowsKeeps DEF SetupInv, DoneInv
    <2>4. QED
      BY <2>1, <2>3 DEF SetupInv
  <1>5. budget' \in [FaultKinds -> Nat] /\ Returns' = Returns
    BY <1>1, <1>2 DEF MessageTypes, Returns
  <1>6. QED
    BY <1>2, <1>3, <1>4, <1>5, QuietSetupStep

LEMMA ConnectFailsStep ==
    ASSUME Inv, NEW r \in Replicas, ConnectFails(r)
    PROVE  Inv'
  <1>1. SetupTypes /\ BrokerTypes /\ MessageTypes /\ QueuesInv /\ SetupInv
    BY TypeParts DEF Inv, SetupInv
  <1>2. /\ UNCHANGED <<consuming, brokerVars, messageVars>>
        /\ step' = step
        /\ Spend("connect")
    BY DEF ConnectFails
  <1>3. \/ /\ Goto(r, "failed")
           /\ retries' = [retries EXCEPT ![r] = MaxConnects]
        \/ /\ pc' = pc
           /\ retries[r] # 1
           /\ retries' = [retries EXCEPT ![r] = retries[r] - 1]
    BY DEF ConnectFails
  <1>4. SetupTypes'
    BY <1>1, <1>2, <1>3, TopologyAssumption DEF SetupTypes, Goto
  <1>5. SetupInv'
    <2>1. \A q \in Replicas : PrefixInv(q)'
      BY <1>1, <1>2, SetupKept, NoGrowth
    <2>2. SetupDone' => SetupDone
      BY <1>1, <1>3 DEF SetupTypes, SetupDone, Goto
    <2>3. DoneInv'
      BY <1>1, <1>2, <2>2, NoGrowth, GrowsKeeps DEF SetupInv, DoneInv
    <2>4. QED
      BY <2>1, <2>3 DEF SetupInv
  <1>6. budget' \in [FaultKinds -> Nat] /\ Returns' = Returns
    BY <1>1, <1>2, SpendType DEF FaultKinds
  <1>7. QED
    BY <1>2, <1>4, <1>5, <1>6, QuietSetupStep

LEMMA DeclareFailsStep ==
    ASSUME Inv, NEW r \in Replicas, DeclareFails(r)
    PROVE  Inv'
  <1>1. SetupTypes /\ BrokerTypes /\ MessageTypes /\ QueuesInv /\ SetupInv
    BY TypeParts DEF Inv, SetupInv
  <1>2. /\ UNCHANGED <<consuming, brokerVars, messageVars>>
        /\ UNCHANGED brokerVars
        /\ retries' = retries
        /\ Goto(r, "failed")
        /\ step' = [step EXCEPT ![r] = 1]
        /\ Spend("connection") \/ budget' = budget
    BY DEF DeclareFails
  <1>3. SetupTypes'
    BY <1>1, <1>2 DEF SetupTypes, Goto
  <1>4. SetupInv'
    BY <1>1, <1>2, SetupLeft
  <1>5. budget' \in [FaultKinds -> Nat] /\ Returns' = Returns
    <2>1. CASE Spend("connection")
      BY <1>1, <2>1, SpendType DEF FaultKinds
    <2>2. CASE budget' = budget
      BY <1>1, <2>2 DEF MessageTypes, Returns
    <2>3. QED
      BY <1>2, <2>1, <2>2
  <1>6. QED
    BY <1>2, <1>3, <1>4, <1>5, QuietSetupStep

LEMMA SendStep ==
    ASSUME Inv, NEW g \in Gateways, NEW m \in Messages, Send(g, m)
    PROVE  Inv'
  <1>1. SetupTypes /\ BrokerTypes /\ MessageTypes /\ QueuesInv /\ SetupInv
    BY TypeParts DEF Inv, SetupInv
  <1>2. /\ place[m] = "unsent"
        /\ AssertMain(ClientArguments)
        /\ place' = [place EXCEPT ![m] = "MAIN"]
        /\ UNCHANGED setupVars
        /\ UNCHANGED <<consuming, holder, handled, budget>>
    BY DEF Send
  <1>3. BrokerGrows /\ BrokerTypes'
    BY <1>1, <1>2, AssertMainGrows
  <1>4. MessageTypes'
    BY <1>1, <1>2 DEF MessageTypes, Queues
  <1>5. Counts'
    BY <1>1, <1>2 DEF Inv, Counts, CountInv, Returns, MessageTypes
  <1>6. QED
    BY <1>1, <1>2, <1>3, <1>4, <1>5, MessageStep DEF SetupTypes

LEMMA StartConsumerStep ==
    ASSUME Inv, NEW c \in Consumers, StartConsumer(c)
    PROVE  Inv'
  <1>1. SetupTypes /\ BrokerTypes /\ MessageTypes /\ QueuesInv /\ SetupInv
    BY TypeParts DEF Inv, SetupInv
  <1>2. /\ AssertMain(ServerArguments)
        /\ consuming' = consuming \cup {c}
        /\ UNCHANGED setupVars
        /\ UNCHANGED <<messageVars, budget>>
    BY DEF StartConsumer
  <1>3. BrokerGrows /\ BrokerTypes'
    BY <1>1, <1>2, AssertMainGrows
  <1>4. MessageTypes'
    BY <1>1, <1>2 DEF MessageTypes, messageVars
  <1>5. Counts'
    BY <1>1, <1>2 DEF Inv, Counts, CountInv, Returns, messageVars
  <1>6. QED
    BY <1>1, <1>2, <1>3, <1>4, <1>5, MessageStep DEF SetupTypes

LEMMA HandleStep ==
    ASSUME Inv, NEW c \in Consumers, NEW m \in Messages, Handle(c, m)
    PROVE  Inv'
  <1>1. SetupTypes /\ BrokerTypes /\ MessageTypes /\ QueuesInv /\ SetupInv
    BY TypeParts DEF Inv, SetupInv
  <1>2. /\ c \in consuming
        /\ place[m] = "MAIN"
        /\ place' = [place EXCEPT ![m] = "unacked"]
        /\ holder' = [holder EXCEPT ![m] = c]
        /\ handled' = [handled EXCEPT ![m] = handled[m] + 1]
        /\ UNCHANGED setupVars
        /\ UNCHANGED brokerVars
        /\ UNCHANGED <<consuming, budget>>
    BY DEF Handle
  <1>3. BrokerGrows /\ BrokerTypes'
    BY <1>1, <1>2, NoGrowth, NoGrowthTypes
  <1>4. MessageTypes'
    <2>1. c \in Replicas
      BY DEF Replicas
    <2>2. QED
      BY <1>1, <1>2, <2>1 DEF MessageTypes
  <1>5. Counts'
    <2>1. Returns' = Returns /\ Returns \in Int
      BY <1>1, <1>2, TopologyAssumption DEF Returns, MessageTypes, FaultKinds
    <2>2. ASSUME NEW n \in Messages
          PROVE  CountInv(n)'
      <3>1. CountInv(n) /\ handled[n] \in Nat
        BY <1>1 DEF Inv, MessageTypes
      <3>2. QED
        BY <1>1, <1>2, <2>1, <3>1 DEF CountInv, MessageTypes
    <2>3. QED
      BY <2>2 DEF Counts
  <1>6. QED
    BY <1>1, <1>2, <1>3, <1>4, <1>5, MessageStep DEF SetupTypes

\* A message that is not with a consumer goes somewhere else.
LEMMA MovedStep ==
    ASSUME Inv, NEW m \in Messages, NEW q \in Queues, place[m] = q,
           place' = [place EXCEPT ![m] = DeadLetter(q)],
           UNCHANGED <<consuming, brokerVars, holder, handled>>,
           UNCHANGED setupVars,
           budget' \in [FaultKinds -> Nat], Returns' = Returns
    PROVE  Inv'
  <1>1. SetupTypes /\ BrokerTypes /\ MessageTypes /\ QueuesInv /\ SetupInv
    BY TypeParts DEF Inv, SetupInv
  <1>2. BrokerGrows /\ BrokerTypes'
    BY <1>1, NoGrowth, NoGrowthTypes
  <1>3. /\ DeadLetter(q) \in Queues \cup {"lost"}
        /\ DeadLetter(q) # "unacked" /\ place[m] # "unacked"
    BY <1>1, DeadLetterType DEF Queues
  <1>4. MessageTypes'
    BY <1>1, <1>3 DEF MessageTypes
  <1>5. Counts'
    <2>1. ASSUME NEW n \in Messages
          PROVE  CountInv(n)'
      <3>1. CountInv(n) /\ handled'[n] = handled[n]
        BY DEF Inv
      <3>2. place'[n] = "unacked" <=> place[n] = "unacked"
        BY <1>1, <1>3 DEF MessageTypes
      <3>3. QED
        BY <3>1, <3>2 DEF CountInv
    <2>2. QED
      BY <2>1 DEF Counts
  <1>6. QED
    BY <1>1, <1>2, <1>4, <1>5, MessageStep DEF SetupTypes

LEMMA CrashStep ==
    ASSUME Inv, NEW r \in Replicas, Crash(r)
    PROVE  Inv'
  <1>1. SetupTypes /\ BrokerTypes /\ MessageTypes /\ QueuesInv /\ SetupInv
    BY TypeParts DEF Inv, SetupInv
  <1>2. /\ Spend("crash")
        /\ Goto(r, "connect")
        /\ step' = [step EXCEPT ![r] = 1]
        /\ retries' = [retries EXCEPT ![r] = MaxConnects]
        /\ consuming' = consuming \ {r}
        /\ place' = [m \in Messages |->
                         IF place[m] = "unacked" /\ holder[m] = r
                         THEN "MAIN" ELSE place[m]]
        /\ UNCHANGED brokerVars
        /\ UNCHANGED <<holder, handled>>
    BY DEF Crash, Requeue
  <1>3. BrokerGrows /\ BrokerTypes' /\ QueuesInv'
    BY <1>1, <1>2, NoGrowth, NoGrowthTypes, GrowsKeeps
  <1>4. SetupTypes'
    BY <1>1, <1>2, TopologyAssumption DEF SetupTypes, Goto
  <1>5. SetupInv'
    BY <1>1, <1>2, SetupLeft
  <1>6. budget' \in [FaultKinds -> Nat] /\ Returns' = Returns + 1
    BY <1>1, <1>2, SpendType DEF FaultKinds
  <1>7. MessageTypes'
    BY <1>1, <1>2, <1>6 DEF MessageTypes, Queues
  <1>8. Counts'
    <2>1. Returns \in Int
      BY <1>1, TopologyAssumption DEF Returns, MessageTypes, FaultKinds
    <2>2. ASSUME NEW m \in Messages
          PROVE  CountInv(m)'
      <3>1. CountInv(m) /\ handled[m] \in Nat /\ handled'[m] = handled[m]
        BY <1>1, <1>2 DEF Inv, MessageTypes
      <3>2. QED
        BY <1>6, <2>1, <3>1 DEF CountInv
    <2>3. QED
      BY <2>2 DEF Counts
  <1>9. QED
    BY <1>3, <1>4, <1>5, <1>7, <1>8, TypeParts DEF Inv, SetupInv, Counts

LEMMA ChannelLostStep ==
    ASSUME Inv, NEW c \in Consumers, ChannelLost(c)
    PROVE  Inv'
  <1>1. SetupTypes /\ BrokerTypes /\ MessageTypes /\ QueuesInv /\ SetupInv
    BY TypeParts DEF Inv, SetupInv
  <1>2. /\ Spend("channel")
        /\ consuming' = consuming \ {c}
        /\ place' = [m \in Messages |->
                         IF place[m] = "unacked" /\ holder[m] = c
                         THEN "MAIN" ELSE place[m]]
        /\ UNCHANGED setupVars
        /\ UNCHANGED brokerVars
        /\ UNCHANGED <<holder, handled>>
    BY DEF ChannelLost, Requeue
  <1>3. BrokerGrows /\ BrokerTypes'
    BY <1>1, <1>2, NoGrowth, NoGrowthTypes
  <1>4. budget' \in [FaultKinds -> Nat] /\ Returns' = Returns + 1
    BY <1>1, <1>2, SpendType DEF FaultKinds
  <1>5. MessageTypes'
    BY <1>1, <1>2, <1>4 DEF MessageTypes, Queues
  <1>6. Counts'
    <2>1. Returns \in Int
      BY <1>1, TopologyAssumption DEF Returns, MessageTypes, FaultKinds
    <2>2. ASSUME NEW m \in Messages
          PROVE  CountInv(m)'
      <3>1. CountInv(m) /\ handled[m] \in Nat /\ handled'[m] = handled[m]
        BY <1>1, <1>2 DEF Inv, MessageTypes
      <3>2. QED
        BY <1>4, <2>1, <3>1 DEF CountInv
    <2>3. QED
      BY <2>2 DEF Counts
  <1>7. consuming' \subseteq Consumers
    BY <1>1, <1>2 DEF SetupTypes
  <1>8. QED
    BY <1>1, <1>2, <1>3, <1>5, <1>6, <1>7, MessageStep

LEMMA InvStep == Inv /\ [Next]_vars => Inv'
  <1> SUFFICES ASSUME Inv, [Next]_vars
               PROVE  Inv'
    OBVIOUS
  <1>0. SetupTypes /\ BrokerTypes /\ MessageTypes /\ QueuesInv /\ SetupInv
    BY TypeParts DEF Inv, SetupInv
  <1>1. ASSUME NEW r \in Replicas, SetupStep(r) \/ Crash(r)
        PROVE  Inv'
    BY <1>1, ConnectStep, ConnectFailsStep, DeclareStep, DeclareFailsStep,
       CrashStep DEF SetupStep
  <1>2. ASSUME NEW g \in Gateways, NEW m \in Messages, Send(g, m)
        PROVE  Inv'
    BY <1>2, SendStep
  <1>3. ASSUME NEW c \in Consumers, StartConsumer(c) \/ ChannelLost(c)
        PROVE  Inv'
    BY <1>3, StartConsumerStep, ChannelLostStep
  <1>4. ASSUME NEW c \in Consumers, NEW m \in Messages, Handle(c, m)
        PROVE  Inv'
    BY <1>4, HandleStep
  <1>5. ASSUME NEW c \in Consumers, NEW m \in Messages, Nack(c, m)
        PROVE  Inv'
    <2>1. /\ place[m] = "MAIN" /\ "MAIN" \in Queues
          /\ place' = [place EXCEPT ![m] = DeadLetter("MAIN")]
          /\ UNCHANGED setupVars
          /\ UNCHANGED <<consuming, brokerVars, holder, handled>>
      BY <1>5 DEF Nack, Queues
    <2>2. budget' \in [FaultKinds -> Nat] /\ Returns' = Returns
      BY <1>0, <1>5, SpendType DEF Nack, FaultKinds
    <2>3. QED
      BY <2>1, <2>2, MovedStep
  <1>6. ASSUME NEW m \in Messages, RetryExpires(m)
        PROVE  Inv'
    <2>1. /\ place[m] = "RETRY" /\ "RETRY" \in Queues
          /\ place' = [place EXCEPT ![m] = DeadLetter("RETRY")]
          /\ UNCHANGED setupVars
          /\ UNCHANGED <<consuming, brokerVars, holder, handled>>
          /\ budget' = budget
      BY <1>6 DEF RetryExpires, Queues
    <2>2. budget' \in [FaultKinds -> Nat] /\ Returns' = Returns
      BY <1>0, <2>1 DEF MessageTypes, Returns
    <2>3. QED
      BY <2>1, <2>2, MovedStep
  <1>7. CASE UNCHANGED vars
    <2>1. BrokerGrows /\ BrokerTypes'
      BY <1>0, <1>7, NoGrowth, NoGrowthTypes DEF vars
    <2>2. MessageTypes' /\ consuming' = consuming /\ UNCHANGED setupVars
      BY <1>0, <1>7 DEF vars, MessageTypes, messageVars
    <2>3. Counts'
      BY <1>7 DEF vars, Inv, Counts, CountInv, Returns, messageVars
    <2>4. QED
      BY <1>0, <2>1, <2>2, <2>3, MessageStep DEF SetupTypes
  <1>8. QED
    BY <1>1, <1>2, <1>3, <1>4, <1>5, <1>6, <1>7 DEF Next

LEMMA InvAlways == Spec => []Inv
  BY InitInv, InvStep, PTL DEF Spec

-----------------------------------------------------------------------------
(* Theorems                                                                *)

\* The topology and the messages in it keep their types; every binding is one
\* between a queue and an exchange that exist (RabbitmqSetupService).
THEOREM TypeCorrect == Spec => []TypeOK
  <1>1. Inv => TypeOK
    BY DEF Inv
  <1>2. QED
    BY <1>1, InvAlways, PTL

\* No command of any setup, client or consumer is refused by RabbitMQ, in
\* whatever order they come (setupTopology, the queueOptions of the clients and
\* of the microservice).
THEOREM DeclarationsAgree == Spec => []NeverRefused
  <1>1. Inv => NeverRefused
    <2> SUFFICES ASSUME Inv
                 PROVE  NeverRefused
      OBVIOUS
    <2>1. SetupTypes /\ QueuesInv /\ SetupInv
      BY TypeParts DEF Inv, SetupInv
    <2>2. ASSUME NEW r \in Replicas
          PROVE  Accepts(Script[step[r]])
      <3>1. PICK n \in 1 .. 9 : step[r] = n
        BY <2>1 DEF SetupTypes
      <3>2. \A j \in 1 .. n - 1 : Declared(Script[j])
        BY <2>1, <3>1 DEF SetupInv, PrefixInv
      <3>3. QED
        BY <2>1, <3>1, <3>2, NextAccepted
    <2>3. QED
      BY <2>1, <2>2, ArgumentsType DEF NeverRefused, QueuesInv, Queues
  <1>2. QED
    BY <1>1, InvAlways, PTL

\* A message that nobody acknowledges is handled again only when the consumer
\* that had it dies or its channel is lost, and each death and each loss costs
\* one more handling at most (noAck, the handlers of notification-service).
THEOREM HandlingIsBounded == Spec => []HandledBounded
  <1>1. Inv => HandledBounded
    <2> SUFFICES ASSUME Inv, NEW m \in Messages
                 PROVE  handled[m] <= 1 + (Budget["crash"] - budget["crash"])
                                        + (Budget["channel"] - budget["channel"])
      BY DEF HandledBounded
    <2>1. handled[m] \in Nat /\ budget \in [FaultKinds -> Nat]
      BY TypeParts DEF Inv, MessageTypes
    <2>2. /\ budget["crash"] \in Nat /\ budget["channel"] \in Nat
          /\ Budget["crash"] \in Nat /\ Budget["channel"] \in Nat
      BY <2>1, TopologyAssumption DEF FaultKinds
    <2>3. CountInv(m)
      BY DEF Inv
    <2>4. QED
      BY <2>1, <2>2, <2>3 DEF CountInv, Returns
  <1>2. QED
    BY <1>1, InvAlways, PTL

\* Once the topology is complete, a message that is somewhere stays somewhere.
LEMMA KeptStep ==
    ASSUME NEW m \in Messages, Inv, [Next]_vars, Complete, place[m] # "lost"
    PROVE  Complete' /\ place'[m] # "lost"
  <1>1. SetupTypes /\ BrokerTypes /\ MessageTypes /\ QueuesInv /\ SetupInv
    BY TypeParts DEF Inv, SetupInv
  <1>2. Complete'
    <2>1. CASE \E r \in Replicas : Declare(r)
      <3>1. PICK r \in Replicas : Declare(r)
        BY <2>1
      <3>2. Script[step[r]] \in Commands /\ Accepts(Script[step[r]])
            /\ Apply(Script[step[r]])
        BY <1>1, <3>1, ScriptType DEF Declare, SetupTypes
      <3>3. QED
        BY <1>1, <3>2, ApplyGrows, GrowsKeeps
    <2>2. CASE \E g \in Gateways, n \in Messages : Send(g, n)
      BY <1>1, <2>2, AssertMainGrows, GrowsKeeps DEF Send
    <2>3. CASE \E c \in Consumers : StartConsumer(c)
      BY <1>1, <2>3, AssertMainGrows, GrowsKeeps DEF StartConsumer
    <2>4. CASE UNCHANGED brokerVars
      BY <1>1, <2>4, NoGrowth, GrowsKeeps
    <2>5. QED
      BY <2>1, <2>2, <2>3, <2>4
      DEF Next, vars, SetupStep, Connect, ConnectFails, DeclareFails, Crash,
          ChannelLost, Handle, Nack, RetryExpires
  <1>3. place'[m] # "lost"
    <2>1. CASE place' = place
      BY <2>1
    <2>2. ASSUME NEW g \in Gateways, NEW n \in Messages, Send(g, n)
          PROVE  place'[m] # "lost"
      BY <1>1, <2>2 DEF Send, MessageTypes
    <2>3. ASSUME NEW c \in Consumers, NEW n \in Messages, Handle(c, n)
          PROVE  place'[m] # "lost"
      BY <1>1, <2>3 DEF Handle, MessageTypes
    <2>4. ASSUME NEW c \in Consumers, NEW n \in Messages, Nack(c, n)
          PROVE  place'[m] # "lost"
      BY <1>1, <2>4, RouteOf DEF Nack, MessageTypes
    <2>5. ASSUME NEW n \in Messages, RetryExpires(n)
          PROVE  place'[m] # "lost"
      BY <1>1, <2>5, RouteOf DEF RetryExpires, MessageTypes
    <2>6. ASSUME NEW r \in Replicas, Crash(r)
          PROVE  place'[m] # "lost"
      BY <2>6 DEF Crash, Requeue
    <2>7. ASSUME NEW c \in Consumers, ChannelLost(c)
          PROVE  place'[m] # "lost"
      BY <2>7 DEF ChannelLost, Requeue
    <2>8. QED
      BY <2>1, <2>2, <2>3, <2>4, <2>5, <2>6, <2>7
      DEF Next, vars, messageVars, SetupStep, Connect, ConnectFails, Declare,
          DeclareFails, StartConsumer
  <1>4. QED
    BY <1>2, <1>3

\* From the end of the first setup that gets through, no message is lost between
\* the queues, whatever setups, clients, consumers and crashes follow.
THEOREM CompleteTopologyKeepsMessages == Spec => NothingLostAfterSetup
  <1>1. ASSUME NEW m \in Messages
        PROVE  Spec => [](SetupDone /\ place[m] # "lost" => [](place[m] # "lost"))
    <2>1. Inv /\ SetupDone => Complete
      BY DEF Inv, DoneInv
    <2>2. Inv /\ [Next]_vars /\ Complete /\ place[m] # "lost"
              => Complete' /\ (place[m] # "lost")'
      BY KeptStep
    <2>3. QED
      BY <2>1, <2>2, InvAlways, PTL DEF Spec
  <1>2. QED
    BY <1>1 DEF NothingLostAfterSetup
===============================================================================
