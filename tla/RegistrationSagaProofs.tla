------------------------ MODULE RegistrationSagaProofs ------------------------
(***************************************************************************)
(* Proofs about RegistrationSaga for every set of requests and every fault *)
(* budget.  The argument for a completed saga: documents of a request are  *)
(* only deleted by its own undo calls, early or late, and those exist only *)
(* once its rollback has begun, from which it never comes back.  For a     *)
(* failed saga: what exists of it is on its undo list, except for one saga *)
(* per timeout, per call that failed after it had stored its document and  *)
(* per failed undo call.                                                   *)
(***************************************************************************)
EXTENDS RegistrationSaga, SequenceTheorems, FiniteSetTheorems, TLAPS

Undone == {"rollback", "failed", "dead"}

\* What the gateway knows of r is true of the servers while r goes forward.
ForwardInv(r) ==
    /\ auth[r] = "created" /\ pc[r] \notin Undone => r \in users
    /\ task[r] = "created" /\ pc[r] \notin Undone => r \in tasks
    /\ pc[r] \in {"createTask", "notify", "done"} => auth[r] = "created"
    /\ pc[r] \in {"notify", "done"} => task[r] = "created"
    /\ reply[r] = "ok" => notes[r] >= 1
    /\ pc[r] = "done" => notes[r] >= 1

\* Late undo calls belong to sagas that have begun to roll back.
LateInv(r) ==
    \A action \in Undoable : <<action, r>> \in late => pc[r] \in Undone

\* The undo list follows the steps completed so far.
UndoInv(r) ==
    /\ pc[r] \in {"start", "register"} => undo[r] = <<>>
    /\ pc[r] = "createTask" => undo[r] = <<"user">>
    /\ pc[r] = "start" => auth[r] = "none"
    /\ pc[r] \in {"start", "register"} => task[r] = "none"

RequestInv(r) == ForwardInv(r) /\ LateInv(r) /\ UndoInv(r)

Inv == \A r \in Requests : RequestInv(r)

-----------------------------------------------------------------------------
(* Type correctness                                                        *)

LEMMA InitTypeOK == Init => TypeOK
  BY SagaAssumption DEF Init, TypeOK

LEMMA SpendType ==
    ASSUME TypeOK, NEW kind \in FaultKinds, Spend(kind)
    PROVE  budget' \in [FaultKinds -> Nat]
  BY DEF Spend, TypeOK

\* Two sequences of the undo list, computed.
LEMMA PushTask == Append(<<"user">>, "task") = <<"user", "task">>
  <1> DEFINE s == Append(<<"user">>, "task")
             t == <<"user", "task">>
  <1>1. "user" \in Undoable /\ "task" \in Undoable
    BY DEF Undoable
  <1>2. <<"user">> \in Seq(Undoable) /\ t \in Seq(Undoable)
    BY <1>1
  <1>3. s \in Seq(Undoable)
    BY <1>1, <1>2, AppendProperties
  <1>4. Len(s) = 2 /\ Len(t) = 2
    OBVIOUS
  <1>5. s[1] = "user" /\ s[2] = "task" /\ t[1] = "user" /\ t[2] = "task"
    OBVIOUS
  <1>6. \A i \in 1 .. Len(s) : s[i] = t[i]
    BY <1>4, <1>5
  <1> HIDE DEF s, t
  <1>7. s = t
    BY <1>2, <1>3, <1>4, <1>6, SeqEqual
  <1>8. QED
    BY <1>7 DEF s, t

LEMMA PopTask == SubSeq(<<"user", "task">>, 1, 1) = <<"user">>
  <1> DEFINE s == SubSeq(<<"user", "task">>, 1, 1)
             t == <<"user">>
  <1>1. "user" \in Undoable /\ "task" \in Undoable
    BY DEF Undoable
  <1>2. t \in Seq(Undoable)
    BY <1>1
  <1>3. \A i \in 1 .. 1 : <<"user", "task">>[i] \in Undoable
    BY <1>1
  <1>4. s \in Seq(Undoable)
    BY <1>3, SubSeqProperties
  <1>5. Len(s) = 1 /\ Len(t) = 1
    OBVIOUS
  <1>6. s[1] = "user" /\ t[1] = "user"
    OBVIOUS
  <1>7. \A i \in 1 .. Len(s) : s[i] = t[i]
    BY <1>5, <1>6
  <1> HIDE DEF s, t
  <1>8. s = t
    BY <1>2, <1>4, <1>5, <1>7, SeqEqual
  <1>9. QED
    BY <1>8 DEF s, t

\* Pushing and popping the undo list yields the lists of TypeOK.
LEMMA UndoStack ==
    /\ Append(<<>>, "user") = <<"user">>
    /\ Append(<<"user">>, "task") = <<"user", "task">>
    /\ NextUndo(<<"user">>).action = "user"
    /\ NextUndo(<<"user">>).rest = <<>>
    /\ NextUndo(<<"user", "task">>).action = "task"
    /\ NextUndo(<<"user", "task">>).rest = <<"user">>
  <1>1. Len(<<"user">>) = 1 /\ Len(<<"user", "task">>) = 2
    OBVIOUS
  <1>2. Append(<<>>, "user") = <<"user">>
    OBVIOUS
  <1>3. /\ NextUndo(<<"user">>).action = "user"
        /\ NextUndo(<<"user">>).rest = <<>>
    <2>1. SubSeq(<<"user">>, 1, 0) = <<>>
      BY SubSeqEmpty
    <2>2. QED
      BY <1>1, <2>1 DEF NextUndo
  <1>4. NextUndo(<<"user", "task">>).action = "task"
    BY <1>1 DEF NextUndo
  <1>5. NextUndo(<<"user", "task">>).rest = <<"user">>
    BY <1>1, PopTask DEF NextUndo
  <1>6. QED
    BY <1>2, <1>3, <1>4, <1>5, PushTask

LEMMA TakeUndoType ==
    ASSUME TypeOK, NEW r \in Requests, TakeUndo(r)
    PROVE  /\ undo' \in [Requests -> {<<>>, <<"user">>, <<"user", "task">>}]
           /\ NextUndo(undo[r]).action \in Undoable
  <1>1. undo[r] \in {<<"user">>, <<"user", "task">>}
    BY DEF TakeUndo, TypeOK
  <1>2. /\ NextUndo(undo[r]).rest \in {<<>>, <<"user">>}
        /\ NextUndo(undo[r]).action \in Undoable
    BY <1>1, UndoStack DEF Undoable
  <1>3. QED
    BY <1>2 DEF TakeUndo, TypeOK

-----------------------------------------------------------------------------
(* Every step keeps the types and the invariant.  NextStep splits the      *)
(* next-state relation into the actions.                                   *)

LEMMA TypeStep == TypeOK /\ Inv /\ [Next]_vars => TypeOK'
  <1> SUFFICES ASSUME TypeOK, Inv, [Next]_vars
               PROVE  TypeOK'
    OBVIOUS
  <1> USE DEF gatewayVars, serverVars
  <1>1. ASSUME NEW r \in Requests, AuthCheck(r)
        PROVE  TypeOK'
    BY <1>1 DEF AuthCheck, TypeOK
  <1>2. ASSUME NEW r \in Requests, AuthCreate(r)
        PROVE  TypeOK'
    BY <1>2 DEF AuthCreate, TypeOK
  <1>3. ASSUME NEW r \in Requests, TaskCreate(r)
        PROVE  TypeOK'
    BY <1>3 DEF TaskCreate, TypeOK
  <1>4. ASSUME NEW r \in Requests, NotifyCreate(r)
        PROVE  TypeOK'
    BY <1>4 DEF NotifyCreate, TypeOK, Answer
  <1>5. ASSUME NEW r \in Requests, NEW action \in Undoable, LateUndo(action, r)
        PROVE  TypeOK'
    BY <1>5 DEF LateUndo, TypeOK, Delete, Undoable
  <1>6. ASSUME NEW r \in Requests, Start(r)
        PROVE  TypeOK'
    BY <1>6 DEF Start, TypeOK, Goto, Inv, RequestInv, UndoInv
  <1>7. ASSUME NEW r \in Requests, UserRegistered(r)
        PROVE  TypeOK'
    BY <1>7, UndoStack
    DEF UserRegistered, TypeOK, Goto, Push, Inv, RequestInv, UndoInv
  <1>8. ASSUME NEW r \in Requests, TaskCreated(r)
        PROVE  TypeOK'
    BY <1>8, UndoStack
    DEF TaskCreated, TypeOK, Goto, Push, Inv, RequestInv, UndoInv
  <1>9. ASSUME NEW r \in Requests, Notified(r)
        PROVE  TypeOK'
    BY <1>9 DEF Notified, TypeOK, Goto
  <1>10. ASSUME NEW r \in Requests, StepFails(r)
        PROVE  TypeOK'
    BY <1>10 DEF StepFails, TypeOK, Goto
  <1>11. ASSUME NEW r \in Requests, Undo(r)
        PROVE  TypeOK'
    BY <1>11, TakeUndoType DEF Undo, TypeOK, TakeUndo, Delete
  <1>12. ASSUME NEW r \in Requests, RolledBack(r)
        PROVE  TypeOK'
    BY <1>12 DEF RolledBack, TypeOK, Goto
  <1>13. ASSUME NEW r \in Requests, AuthFails(r)
        PROVE  TypeOK'
    BY <1>13, SpendType DEF AuthFails, TypeOK, FaultKinds
  <1>14. ASSUME NEW r \in Requests, TaskFails(r)
        PROVE  TypeOK'
    BY <1>14, SpendType DEF TaskFails, TypeOK, FaultKinds
  <1>15. ASSUME NEW r \in Requests, NotifyFails(r)
        PROVE  TypeOK'
    BY <1>15, SpendType DEF NotifyFails, TypeOK, Answer, FaultKinds
  <1>16. ASSUME NEW r \in Requests, CallTimesOut(r)
        PROVE  TypeOK'
    BY <1>16, SpendType DEF CallTimesOut, TypeOK, Goto, FaultKinds
  <1>17. ASSUME NEW r \in Requests, CallRejected(r)
        PROVE  TypeOK'
    BY <1>17, SpendType DEF CallRejected, TypeOK, Goto, FaultKinds
  <1>18. ASSUME NEW r \in Requests, ReplyLost(r)
        PROVE  TypeOK'
    BY <1>18, SpendType DEF ReplyLost, TypeOK, FaultKinds
  <1>19. ASSUME NEW r \in Requests, UndoFails(r)
        PROVE  TypeOK'
    BY <1>19, SpendType, TakeUndoType
    DEF UndoFails, TypeOK, TakeUndo, Delete, FaultKinds
  <1>20. ASSUME NEW r \in Requests, UndoTimesOut(r)
        PROVE  TypeOK'
    <2>1. late' \subseteq Undoable \X Requests
      <3>1. <<NextUndo(undo[r]).action, r>> \in Undoable \X Requests
        BY <1>20, TakeUndoType DEF UndoTimesOut
      <3> DEFINE call == <<NextUndo(undo[r]).action, r>>
      <3>2. late' = late \cup {call}
        BY <1>20 DEF UndoTimesOut
      <3> HIDE DEF call
      <3>3. call \in Undoable \X Requests
        BY <3>1 DEF call
      <3>4. QED
        BY <3>2, <3>3 DEF TypeOK
    <2>2. /\ undo' \in [Requests -> {<<>>, <<"user">>, <<"user", "task">>}]
          /\ budget' \in [FaultKinds -> Nat]
      BY <1>20, SpendType, TakeUndoType DEF UndoTimesOut, FaultKinds
    <2>3. UNCHANGED <<pc, auth, task, note, reply, users, tasks, notes>>
      BY <1>20 DEF UndoTimesOut, TakeUndo
    <2>4. QED
      BY <2>1, <2>2, <2>3 DEF TypeOK
  <1>21. CASE Redeliver
    BY <1>21, SpendType DEF Redeliver, TypeOK, FaultKinds
  <1>22. CASE GatewayCrash
    BY <1>22, SpendType DEF GatewayCrash, TypeOK, FaultKinds
  <1>23. CASE UNCHANGED vars
    BY <1>23 DEF vars, TypeOK
  <1>24. ASSUME NEW r \in Requests, AuthStoresAndFails(r)
        PROVE  TypeOK'
    BY <1>24, SpendType DEF AuthStoresAndFails, TypeOK, FaultKinds
  <1>25. ASSUME NEW r \in Requests, TaskStoresAndFails(r)
        PROVE  TypeOK'
    BY <1>25, SpendType DEF TaskStoresAndFails, TypeOK, FaultKinds
  <1>26. ASSUME NEW r \in Requests, NotifyStoresAndFails(r)
        PROVE  TypeOK'
    <2>1. budget' \in [FaultKinds -> Nat]
      BY <1>26, SpendType DEF NotifyStoresAndFails, FaultKinds
    <2>2. /\ notes' \in [Requests -> Nat]
          /\ note' \in [Requests -> {"none", "queued", "unacked"}]
          /\ reply' \in [Requests -> {"none", "ok", "error"}]
      BY <1>26 DEF NotifyStoresAndFails, TypeOK, Answer
    <2>3. QED
      BY <1>26, <2>1, <2>2 DEF NotifyStoresAndFails, TypeOK
  <1>27. ASSUME NEW r \in Requests, StepHasNoId(r)
        PROVE  TypeOK'
    BY <1>27, SpendType DEF StepHasNoId, TypeOK, Goto, FaultKinds
  <1>28. QED
    BY <1>1, <1>2, <1>3, <1>4, <1>5, <1>6, <1>7, <1>8, <1>9, <1>10, <1>11,
       <1>12, <1>13, <1>14, <1>15, <1>16, <1>17, <1>18, <1>19, <1>20, <1>21,
       <1>22, <1>23, <1>24, <1>25, <1>26, <1>27
    DEF Next, ServerStep, GatewayStep, FaultStep

LEMMA InvStep == TypeOK /\ Inv /\ [Next]_vars => Inv'
  <1> SUFFICES ASSUME TypeOK, Inv, [Next]_vars, NEW q \in Requests
               PROVE  RequestInv(q)'
    BY DEF Inv
  <1>0. RequestInv(q) /\ \A r \in Requests : LateInv(r)
    BY DEF Inv, RequestInv
  <1> USE DEF gatewayVars, serverVars, Undone
  <1>1. ASSUME NEW r \in Requests, AuthCheck(r)
        PROVE  RequestInv(q)'
    BY <1>0, <1>1
    DEF AuthCheck, TypeOK, RequestInv, ForwardInv, LateInv, UndoInv
  <1>2. ASSUME NEW r \in Requests, AuthCreate(r)
        PROVE  RequestInv(q)'
    BY <1>0, <1>2
    DEF AuthCreate, TypeOK, RequestInv, ForwardInv, LateInv, UndoInv
  <1>3. ASSUME NEW r \in Requests, TaskCreate(r)
        PROVE  RequestInv(q)'
    BY <1>0, <1>3
    DEF TaskCreate, TypeOK, RequestInv, ForwardInv, LateInv, UndoInv
  <1>4. ASSUME NEW r \in Requests, NotifyCreate(r)
        PROVE  RequestInv(q)'
    BY <1>0, <1>4
    DEF NotifyCreate, TypeOK, RequestInv, ForwardInv, LateInv, UndoInv,
        Answer
  <1>5. ASSUME NEW r \in Requests, NEW action \in Undoable, LateUndo(action, r)
        PROVE  RequestInv(q)'
    <2>1. pc[r] \in Undone
      BY <1>0, <1>5 DEF LateUndo, LateInv
    <2>2. UNCHANGED <<pc, undo, auth, task, note, reply, notes>>
      BY <1>5 DEF LateUndo
    <2>3. /\ q # r => (q \in users <=> q \in users')
          /\ q # r => (q \in tasks <=> q \in tasks')
      BY <1>5 DEF LateUndo, Delete
    <2>4. late' \subseteq late
      BY <1>5 DEF LateUndo
    <2>5. ForwardInv(q)'
      BY <1>0, <2>1, <2>2, <2>3 DEF RequestInv, ForwardInv
    <2>6. LateInv(q)' /\ UndoInv(q)'
      BY <1>0, <2>2, <2>4 DEF RequestInv, LateInv, UndoInv
    <2>7. QED
      BY <2>5, <2>6 DEF RequestInv
  <1>6. ASSUME NEW r \in Requests, Start(r)
        PROVE  RequestInv(q)'
    BY <1>0, <1>6
    DEF Start, TypeOK, RequestInv, ForwardInv, LateInv, UndoInv, Goto
  <1>7. ASSUME NEW r \in Requests, UserRegistered(r)
        PROVE  RequestInv(q)'
    <2>1. /\ pc[r] = "register" /\ auth[r] = "created"
          /\ pc' = [pc EXCEPT ![r] = "createTask"]
          /\ task' = [task EXCEPT ![r] = "called"]
          /\ UNCHANGED <<auth, note, reply, users, tasks, notes, late>>
      BY <1>7 DEF UserRegistered, Goto
    <2>2. undo' = [undo EXCEPT ![r] = <<"user">>]
      <3>1. undo[r] = <<>>
        BY <2>1 DEF Inv, RequestInv, UndoInv
      <3>2. QED
        BY <1>7, <3>1, UndoStack DEF UserRegistered, Push
    <2>3. ForwardInv(q)'
      BY <1>0, <2>1 DEF TypeOK, RequestInv, ForwardInv
    <2>4. LateInv(q)'
      BY <1>0, <2>1 DEF TypeOK, LateInv
    <2>5. UndoInv(q)'
      BY <1>0, <2>1, <2>2 DEF TypeOK, RequestInv, UndoInv
    <2>6. QED
      BY <2>3, <2>4, <2>5 DEF RequestInv
  <1>8. ASSUME NEW r \in Requests, TaskCreated(r)
        PROVE  RequestInv(q)'
    BY <1>0, <1>8
    DEF TaskCreated, TypeOK, RequestInv, ForwardInv, LateInv, UndoInv, Goto,
        Push
  <1>9. ASSUME NEW r \in Requests, Notified(r)
        PROVE  RequestInv(q)'
    BY <1>0, <1>9
    DEF Notified, TypeOK, RequestInv, ForwardInv, LateInv, UndoInv, Goto
  <1>10. ASSUME NEW r \in Requests, StepFails(r)
        PROVE  RequestInv(q)'
    BY <1>0, <1>10
    DEF StepFails, TypeOK, RequestInv, ForwardInv, LateInv, UndoInv, Goto
  <1>11. ASSUME NEW r \in Requests, Undo(r)
        PROVE  RequestInv(q)'
    BY <1>0, <1>11
    DEF Undo, TypeOK, RequestInv, ForwardInv, LateInv, UndoInv, TakeUndo,
        Delete
  <1>12. ASSUME NEW r \in Requests, RolledBack(r)
        PROVE  RequestInv(q)'
    BY <1>0, <1>12
    DEF RolledBack, TypeOK, RequestInv, ForwardInv, LateInv, UndoInv, Goto
  <1>13. ASSUME NEW r \in Requests, AuthFails(r)
        PROVE  RequestInv(q)'
    BY <1>0, <1>13
    DEF AuthFails, TypeOK, RequestInv, ForwardInv, LateInv, UndoInv
  <1>14. ASSUME NEW r \in Requests, TaskFails(r)
        PROVE  RequestInv(q)'
    BY <1>0, <1>14
    DEF TaskFails, TypeOK, RequestInv, ForwardInv, LateInv, UndoInv
  <1>15. ASSUME NEW r \in Requests, NotifyFails(r)
        PROVE  RequestInv(q)'
    BY <1>0, <1>15
    DEF NotifyFails, TypeOK, RequestInv, ForwardInv, LateInv, UndoInv, Answer
  <1>16. ASSUME NEW r \in Requests, CallTimesOut(r)
        PROVE  RequestInv(q)'
    BY <1>0, <1>16
    DEF CallTimesOut, TypeOK, RequestInv, ForwardInv, LateInv, UndoInv, Goto
  <1>17. ASSUME NEW r \in Requests, CallRejected(r)
        PROVE  RequestInv(q)'
    BY <1>0, <1>17
    DEF CallRejected, TypeOK, RequestInv, ForwardInv, LateInv, UndoInv, Goto
  <1>18. ASSUME NEW r \in Requests, ReplyLost(r)
        PROVE  RequestInv(q)'
    BY <1>0, <1>18
    DEF ReplyLost, TypeOK, RequestInv, ForwardInv, LateInv, UndoInv
  <1>19. ASSUME NEW r \in Requests, UndoFails(r)
        PROVE  RequestInv(q)'
    BY <1>0, <1>19
    DEF UndoFails, TypeOK, RequestInv, ForwardInv, LateInv, UndoInv, TakeUndo
  <1>20. ASSUME NEW r \in Requests, UndoTimesOut(r)
        PROVE  RequestInv(q)'
    <2>1. UNCHANGED <<pc, auth, task, note, reply, users, tasks, notes>>
      BY <1>20 DEF UndoTimesOut, TakeUndo
    <2>2. pc[r] = "rollback" /\ undo' = [undo EXCEPT ![r] = NextUndo(@).rest]
      BY <1>20 DEF UndoTimesOut, TakeUndo
    <2>3. ForwardInv(q)'
      BY <1>0, <2>1 DEF RequestInv, ForwardInv
    <2>4. UndoInv(q)'
      BY <1>0, <2>1, <2>2 DEF RequestInv, UndoInv, TypeOK
    <2>5. LateInv(q)'
      <3>1. SUFFICES ASSUME NEW action \in Undoable, <<action, q>> \in late'
                     PROVE  pc[q] \in Undone
        BY <2>1 DEF LateInv
      <3>2. CASE q = r
        BY <2>2, <3>2
      <3>3. CASE q # r
        <4>1. <<action, q>> \in late
          BY <1>20, <3>1, <3>3 DEF UndoTimesOut
        <4>2. QED
          BY <1>0, <4>1 DEF RequestInv, LateInv
      <3>4. QED
        BY <3>2, <3>3
    <2>6. QED
      BY <2>3, <2>4, <2>5 DEF RequestInv
  <1>21. CASE Redeliver
    BY <1>0, <1>21
    DEF Redeliver, TypeOK, RequestInv, ForwardInv, LateInv, UndoInv
  <1>22. CASE GatewayCrash
    BY <1>0, <1>22
    DEF GatewayCrash, Active, TypeOK, RequestInv, ForwardInv, LateInv,
        UndoInv
  <1>23. CASE UNCHANGED vars
    BY <1>0, <1>23 DEF vars, RequestInv, ForwardInv, LateInv, UndoInv
  <1>24. ASSUME NEW r \in Requests, AuthStoresAndFails(r)
        PROVE  RequestInv(q)'
    BY <1>0, <1>24
    DEF AuthStoresAndFails, TypeOK, RequestInv, ForwardInv, LateInv, UndoInv
  <1>25. ASSUME NEW r \in Requests, TaskStoresAndFails(r)
        PROVE  RequestInv(q)'
    BY <1>0, <1>25
    DEF TaskStoresAndFails, TypeOK, RequestInv, ForwardInv, LateInv, UndoInv
  <1>26. ASSUME NEW r \in Requests, NotifyStoresAndFails(r)
        PROVE  RequestInv(q)'
    BY <1>0, <1>26
    DEF NotifyStoresAndFails, TypeOK, RequestInv, ForwardInv, LateInv, UndoInv, Answer
  <1>27. ASSUME NEW r \in Requests, StepHasNoId(r)
        PROVE  RequestInv(q)'
    BY <1>0, <1>27
    DEF StepHasNoId, TypeOK, RequestInv, ForwardInv, LateInv, UndoInv, Goto
  <1>28. QED
    BY <1>1, <1>2, <1>3, <1>4, <1>5, <1>6, <1>7, <1>8, <1>9, <1>10, <1>11,
       <1>12, <1>13, <1>14, <1>15, <1>16, <1>17, <1>18, <1>19, <1>20, <1>21,
       <1>22, <1>23, <1>24, <1>25, <1>26, <1>27
    DEF Next, ServerStep, GatewayStep, FaultStep

-----------------------------------------------------------------------------
(* The theorems                                                            *)

LEMMA Invariance == Spec => [](TypeOK /\ Inv)
  <1>1. Init => TypeOK /\ Inv
    <2>1. Init => Inv
      BY DEF Init, Inv, RequestInv, ForwardInv, LateInv, UndoInv, Undone
    <2>2. QED
      BY <2>1, InitTypeOK
  <1>2. TypeOK /\ Inv /\ [Next]_vars => (TypeOK /\ Inv)'
    BY TypeStep, InvStep
  <1>3. QED
    BY <1>1, <1>2, PTL DEF Spec

\* Every reachable state of RegistrationSagaService and of the services it
\* calls has the shape of TypeOK; above all the list of undo actions only ever
\* takes the three forms that the order of the steps gives it.
THEOREM TypeCorrect == Spec => []TypeOK
  BY Invariance, PTL

\* executeRegistrationSaga answers success only for a registration that is
\* complete and stays complete, for any number of concurrent registrations and
\* any number of errors, timeouts, late undo calls, redeliveries and crashes.
THEOREM SuccessIsComplete == Spec => []DoneIsComplete
  <1>1. Inv => DoneIsComplete
    BY DEF Inv, RequestInv, ForwardInv, DoneIsComplete, Undone
  <1>2. QED
    BY <1>1, Invariance, PTL

-----------------------------------------------------------------------------
(* Sagas that can be undone                                                *)

\* What exists of r is what the undo list names, and the step under way.
DocumentsInv(r) ==
    /\ r \in users => undo[r] # <<>> \/ (pc[r] = "register" /\ auth[r] = "created")
    /\ undo[r] # <<>> => r \in users
    /\ r \in tasks =>
           \/ undo[r] = <<"user", "task">>
           \/ pc[r] = "createTask" /\ task[r] = "created"
    /\ pc[r] = "failed" => undo[r] = <<>>

\* The gateway waits for every gRPC call that is under way.
CallsInv(r) ==
    /\ auth[r] \in {"called", "checked"} => pc[r] = "register"
    /\ task[r] = "called" => pc[r] = "createTask"
    /\ \A action \in Undoable : <<action, r>> \notin late

Clean(r) == DocumentsInv(r) /\ CallsInv(r)

\* The undo call of a rollback deletes what the list names last.
LEMMA UndoClean ==
    ASSUME TypeOK, NEW q \in Requests, Clean(q), NEW r \in Requests, Undo(r)
    PROVE  Clean(q)'
  <1>1. /\ pc[r] = "rollback"
        /\ UNCHANGED <<pc, auth, task, note, reply, notes, late>>
        /\ undo' = [undo EXCEPT ![r] = NextUndo(@).rest]
        /\ Delete(NextUndo(undo[r]).action, r)
    BY DEF Undo, TakeUndo
  <1>2. CallsInv(q)'
    BY <1>1 DEF Clean, CallsInv
  <1>3. CASE q # r
    BY <1>1, <1>2, <1>3 DEF Clean, DocumentsInv, Delete, TypeOK
  <1>4. CASE q = r /\ undo[r] = <<"user">>
    <2>1. /\ undo'[r] = <<>> /\ users' = users \ {r} /\ tasks' = tasks
      BY <1>1, <1>4, UndoStack DEF Delete, TypeOK
    <2>2. r \notin tasks
      BY <1>1, <1>4 DEF Clean, DocumentsInv
    <2>3. QED
      BY <1>1, <1>2, <1>4, <2>1, <2>2 DEF Clean, DocumentsInv
  <1>5. CASE q = r /\ undo[r] = <<"user", "task">>
    <2>1. /\ undo'[r] = <<"user">> /\ users' = users /\ tasks' = tasks \ {r}
      BY <1>1, <1>5, UndoStack DEF Delete, TypeOK
    <2>2. QED
      BY <1>1, <1>2, <1>5, <2>1 DEF Clean, DocumentsInv
  <1>6. QED
    BY <1>3, <1>4, <1>5 DEF Undo, TakeUndo, TypeOK

\* A call that has stored its document and ends in an error all the same.
StoresAndFails(r) ==
    \/ AuthStoresAndFails(r) \/ TaskStoresAndFails(r) \/ NotifyStoresAndFails(r)
    \/ StepHasNoId(r)

\* A fault that may leave documents of r behind.
CutShort(r) ==
    StoresAndFails(r) \/ CallTimesOut(r) \/ UndoFails(r) \/ UndoTimesOut(r)

\* It does so for r only.
LEMMA OthersClean ==
    ASSUME TypeOK, NEW q \in Requests, Clean(q), NEW r \in Requests, CutShort(r), q # r
    PROVE  Clean(q)'
  <1>1. /\ pc'[q] = pc[q] /\ undo'[q] = undo[q]
        /\ auth'[q] = auth[q] /\ task'[q] = task[q]
    BY DEF CutShort, StoresAndFails, AuthStoresAndFails, TaskStoresAndFails,
           NotifyStoresAndFails, StepHasNoId, CallTimesOut, UndoFails, UndoTimesOut,
           TakeUndo, Goto, TypeOK, gatewayVars, serverVars
  <1>2. (q \in users' <=> q \in users) /\ (q \in tasks' <=> q \in tasks)
    BY DEF CutShort, StoresAndFails, AuthStoresAndFails, TaskStoresAndFails,
           NotifyStoresAndFails, StepHasNoId, CallTimesOut, UndoFails, UndoTimesOut,
           serverVars
  <1>3. \A action \in Undoable : <<action, q>> \notin late'
    <2>1. late' = late \/ \E a : late' = late \cup {<<a, r>>}
      BY DEF CutShort, StoresAndFails, AuthStoresAndFails, TaskStoresAndFails,
             NotifyStoresAndFails, StepHasNoId, CallTimesOut, UndoFails, UndoTimesOut,
             serverVars
    <2>2. QED
      BY <2>1 DEF Clean, CallsInv
  <1>4. QED
    BY <1>1, <1>2, <1>3 DEF Clean, DocumentsInv, CallsInv

LEMMA CleanStays ==
    ASSUME TypeOK, Inv, NEW q \in Requests, Clean(q), [Next]_vars,
           \A r \in Requests : ~CutShort(r), ~GatewayCrash
    PROVE  Clean(q)'
  <1> USE DEF gatewayVars, serverVars
  <1>1. ASSUME NEW r \in Requests,
               AuthCheck(r) \/ AuthCreate(r) \/ AuthFails(r)
        PROVE  Clean(q)'
    BY <1>1
    DEF AuthCheck, AuthCreate, AuthFails, TypeOK, Clean, DocumentsInv, CallsInv
  <1>2. ASSUME NEW r \in Requests, TaskCreate(r) \/ TaskFails(r)
        PROVE  Clean(q)'
    BY <1>2 DEF TaskCreate, TaskFails, TypeOK, Clean, DocumentsInv, CallsInv
  <1>3. CASE UNCHANGED <<pc, undo, auth, task, users, tasks, late>>
    BY <1>3 DEF Clean, DocumentsInv, CallsInv
  <1>4. ASSUME NEW r \in Requests, Start(r)
        PROVE  Clean(q)'
    BY <1>4 DEF Start, Goto, TypeOK, Clean, DocumentsInv, CallsInv
  <1>5. ASSUME NEW r \in Requests, UserRegistered(r)
        PROVE  Clean(q)'
    <2>1. undo[r] = <<>> /\ task[r] = "none" /\ r \in users
      BY <1>5 DEF UserRegistered, Inv, RequestInv, UndoInv, ForwardInv, Undone
    <2>2. undo' = [undo EXCEPT ![r] = <<"user">>]
      BY <1>5, <2>1, UndoStack DEF UserRegistered, Push
    <2>3. <<"user">> # <<>> /\ (q = r => r \notin tasks)
      BY <1>5, <2>1, SMTT(30) DEF UserRegistered, Clean, DocumentsInv
    <2>4. QED
      BY <1>5, <2>1, <2>2, <2>3
      DEF UserRegistered, Goto, TypeOK, Clean, DocumentsInv, CallsInv
  <1>6. ASSUME NEW r \in Requests, TaskCreated(r)
        PROVE  Clean(q)'
    <2>1. undo[r] = <<"user">>
      BY <1>6 DEF TaskCreated, Inv, RequestInv, UndoInv
    <2>2. undo' = [undo EXCEPT ![r] = <<"user", "task">>]
      BY <1>6, <2>1, UndoStack DEF TaskCreated, Push
    <2>3. <<"user">> # <<>> /\ <<"user", "task">> # <<>>
      OBVIOUS
    <2>4. QED
      BY <1>6, <2>1, <2>2, <2>3
      DEF TaskCreated, Goto, TypeOK, Clean, DocumentsInv, CallsInv
  <1>7. ASSUME NEW r \in Requests, Notified(r) \/ StepFails(r) \/ CallRejected(r)
        PROVE  Clean(q)'
    BY <1>7
    DEF Notified, StepFails, CallRejected, Goto, TypeOK, Clean, DocumentsInv,
        CallsInv
  <1>8. ASSUME NEW r \in Requests, Undo(r)
        PROVE  Clean(q)'
    BY <1>8, UndoClean
  <1>9. ASSUME NEW r \in Requests, RolledBack(r)
        PROVE  Clean(q)'
    BY <1>9 DEF RolledBack, Goto, TypeOK, Clean, DocumentsInv, CallsInv
  <1>10. ASSUME NEW r \in Requests, NEW action \in Undoable, LateUndo(action, r)
         PROVE  Clean(q)'
    <2>1. q # r
      BY <1>10 DEF LateUndo, Clean, CallsInv
    <2>2. QED
      BY <1>10, <2>1 DEF LateUndo, Delete, Clean, DocumentsInv, CallsInv
  <1>11. QED
    BY <1>1, <1>2, <1>3, <1>4, <1>5, <1>6, <1>7, <1>8, <1>9, <1>10
    DEF Next, ServerStep, GatewayStep, FaultStep, vars, NotifyCreate, NotifyFails,
        ReplyLost, Redeliver, CutShort, StoresAndFails

-----------------------------------------------------------------------------
(* What failures leave behind                                              *)

\* Sagas of a living gateway that the rollback may not clean up.
AtRisk == {r \in Requests : ~Clean(r) /\ pc[r] # "dead"}

\* The kinds of faults that put a saga at risk.
Risky == {"timeout", "storedFails", "undoFails"}

Spendable(b) == b["timeout"] + b["storedFails"] + b["undoFails"]

RiskInv ==
    /\ IsFiniteSet(AtRisk)
    /\ Cardinality(AtRisk) + Spendable(budget) <= Spendable(Budget)

LEMMA InitRisk == Init => RiskInv
  <1> SUFFICES ASSUME Init PROVE RiskInv
    OBVIOUS
  <1>1. \A r \in Requests : Clean(r)
    BY DEF Init, Clean, DocumentsInv, CallsInv
  <1>2. AtRisk = {}
    BY <1>1 DEF AtRisk
  <1>3. Spendable(budget) = Spendable(Budget) /\ Spendable(Budget) \in Nat
    BY SagaAssumption DEF Init, Spendable, FaultKinds
  <1>4. QED
    BY <1>2, <1>3, FS_EmptySet DEF RiskInv

\* The undo list of a saga is gone with its gateway for good.
LEMMA DeadStays ==
    ASSUME TypeOK, [Next]_vars, NEW q \in Requests, pc[q] = "dead"
    PROVE  pc'[q] = "dead"
  <1>1. ASSUME NEW r \in Requests, pc[r] # "dead", NEW label,
               pc' = [pc EXCEPT ![r] = label]
        PROVE  pc'[q] = "dead"
    BY <1>1 DEF TypeOK
  <1>2. CASE UNCHANGED pc
    BY <1>2
  <1>3. CASE GatewayCrash
    BY <1>3 DEF GatewayCrash, Active
  <1>4. ASSUME NEW r \in Requests,
               Start(r) \/ UserRegistered(r) \/ TaskCreated(r) \/ Notified(r)
        PROVE  pc'[q] = "dead"
    BY <1>1, <1>4 DEF Start, UserRegistered, TaskCreated, Notified, Goto
  <1>5. ASSUME NEW r \in Requests,
               StepFails(r) \/ StepHasNoId(r) \/ CallTimesOut(r) \/ CallRejected(r)
                   \/ RolledBack(r)
        PROVE  pc'[q] = "dead"
    BY <1>1, <1>5
    DEF StepFails, StepHasNoId, CallTimesOut, CallRejected, RolledBack, Goto
  <1>6. ASSUME NEW r \in Requests,
               Undo(r) \/ UndoFails(r) \/ UndoTimesOut(r)
        PROVE  UNCHANGED pc
    BY <1>6 DEF Undo, UndoFails, UndoTimesOut, TakeUndo
  <1>7. ASSUME NEW r \in Requests,
               ServerStep(r) \/ AuthFails(r) \/ TaskFails(r) \/ NotifyFails(r)
                   \/ AuthStoresAndFails(r) \/ TaskStoresAndFails(r)
                   \/ NotifyStoresAndFails(r) \/ ReplyLost(r)
        PROVE  UNCHANGED pc
    BY <1>7 DEF ServerStep, AuthCheck, AuthCreate, TaskCreate, NotifyCreate,
                LateUndo, AuthFails, TaskFails, NotifyFails, AuthStoresAndFails,
                TaskStoresAndFails, NotifyStoresAndFails, ReplyLost, gatewayVars
  <1>8. Redeliver \/ UNCHANGED vars => UNCHANGED pc
    BY DEF Redeliver, gatewayVars, vars
  <1>9. QED
    BY <1>2, <1>3, <1>4, <1>5, <1>6, <1>7, <1>8
    DEF Next, GatewayStep, FaultStep

LEMMA CrashRisksNothing ==
    ASSUME TypeOK, GatewayCrash
    PROVE  AtRisk' \subseteq AtRisk
  <1> SUFFICES ASSUME NEW q \in Requests, Clean(q) \/ pc[q] = "dead"
               PROVE  Clean(q)' \/ pc'[q] = "dead"
    BY DEF AtRisk
  <1>1. CASE Active(q) \/ pc[q] = "dead"
    BY <1>1 DEF GatewayCrash, Active
  <1>2. CASE ~Active(q) /\ Clean(q)
    <2>1. /\ pc'[q] = pc[q] /\ undo'[q] = undo[q]
          /\ UNCHANGED <<auth, task, users, tasks, late>>
      BY <1>2 DEF GatewayCrash, serverVars
    <2>2. QED
      BY <1>2, <2>1 DEF Clean, DocumentsInv, CallsInv
  <1>3. QED
    BY <1>1, <1>2

\* What a step costs and which sagas it puts at risk.
LEMMA RiskCases ==
    ASSUME TypeOK, Inv, [Next]_vars
    PROVE  \/ /\ AtRisk' \subseteq AtRisk
              /\ \A kind \in Risky : budget'[kind] = budget[kind]
           \/ \E kind \in Risky : \E r \in Requests :
                  Spend(kind) /\ AtRisk' \subseteq AtRisk \cup {r}
  <1>1. CASE \E r \in Requests : CutShort(r)
    <2>1. PICK r \in Requests : CutShort(r)
      BY <1>1
    <2>2. \E kind \in Risky : Spend(kind)
      BY <2>1
      DEF CutShort, StoresAndFails, AuthStoresAndFails, TaskStoresAndFails,
          NotifyStoresAndFails, StepHasNoId, CallTimesOut, UndoFails, UndoTimesOut,
          Risky
    <2>3. ASSUME NEW q \in Requests \ {r}, Clean(q) \/ pc[q] = "dead"
          PROVE  Clean(q)' \/ pc'[q] = "dead"
      BY <2>1, <2>3, OthersClean, DeadStays
    <2>4. AtRisk' \subseteq AtRisk \cup {r}
      BY <2>3 DEF AtRisk
    <2>5. QED
      BY <2>2, <2>4
  <1>2. CASE \A r \in Requests : ~CutShort(r)
    <2>1. AtRisk' \subseteq AtRisk
      <3>1. CASE GatewayCrash
        BY <3>1, CrashRisksNothing
      <3>2. CASE ~GatewayCrash
        <4>1. ASSUME NEW q \in Requests, Clean(q) \/ pc[q] = "dead"
              PROVE  Clean(q)' \/ pc'[q] = "dead"
          BY <1>2, <3>2, <4>1, CleanStays, DeadStays
        <4>2. QED
          BY <4>1 DEF AtRisk
      <3>3. QED
        BY <3>1, <3>2
    <2>2. \/ UNCHANGED budget
          \/ \E kind \in {"serverFails", "rejected", "redelivery", "replyLost", "crash"} :
                 Spend(kind)
      BY <1>2
      DEF Next, ServerStep, GatewayStep, FaultStep, vars, CutShort, StoresAndFails, Start,
          AuthCheck, AuthCreate, TaskCreate, NotifyCreate, LateUndo,
          UserRegistered, TaskCreated, Notified, StepFails, Undo, RolledBack,
          AuthFails, TaskFails, NotifyFails, CallRejected, ReplyLost, Redeliver,
          GatewayCrash
    <2>3. \A kind \in Risky : budget'[kind] = budget[kind]
      BY <2>2 DEF Spend, TypeOK, FaultKinds, Risky
    <2>4. QED
      BY <2>1, <2>3
  <1>3. QED
    BY <1>1, <1>2

LEMMA RiskStep == TypeOK /\ Inv /\ RiskInv /\ [Next]_vars => RiskInv'
  <1> SUFFICES ASSUME TypeOK, Inv, RiskInv, [Next]_vars
               PROVE  /\ IsFiniteSet(AtRisk')
                      /\ Cardinality(AtRisk') + Spendable(budget') <= Spendable(Budget)
    BY DEF RiskInv
  <1>1. /\ IsFiniteSet(AtRisk) /\ Cardinality(AtRisk) \in Nat
        /\ Cardinality(AtRisk) + Spendable(budget) <= Spendable(Budget)
    BY FS_CardinalityType DEF RiskInv
  <1>2. \A kind \in Risky : budget[kind] \in Nat /\ Budget[kind] \in Nat
    BY SagaAssumption DEF TypeOK, FaultKinds, Risky
  <1>3. Spendable(budget) \in Nat /\ Spendable(Budget) \in Nat
    BY <1>2 DEF Spendable, Risky
  <1>4. CASE /\ AtRisk' \subseteq AtRisk
             /\ \A kind \in Risky : budget'[kind] = budget[kind]
    <2>1. IsFiniteSet(AtRisk') /\ Cardinality(AtRisk') <= Cardinality(AtRisk)
      BY <1>1, <1>4, FS_Subset
    <2>2. Cardinality(AtRisk') \in Nat
      BY <2>1, FS_CardinalityType
    <2>3. Spendable(budget') = Spendable(budget)
      BY <1>4 DEF Spendable, Risky
    <2>4. QED
      BY <1>1, <1>3, <2>1, <2>2, <2>3
  <1>5. ASSUME NEW kind \in Risky, NEW r \in Requests,
               Spend(kind),
               AtRisk' \subseteq AtRisk \cup {r}
        PROVE  /\ IsFiniteSet(AtRisk')
               /\ Cardinality(AtRisk') + Spendable(budget') <= Spendable(Budget)
    <2>1. /\ IsFiniteSet(AtRisk \cup {r})
          /\ Cardinality(AtRisk \cup {r}) \in {Cardinality(AtRisk), Cardinality(AtRisk) + 1}
      BY <1>1, FS_AddElement
    <2>2. IsFiniteSet(AtRisk') /\ Cardinality(AtRisk') <= Cardinality(AtRisk \cup {r})
      BY <1>5, <2>1, FS_Subset
    <2>3. Cardinality(AtRisk') \in Nat
      BY <2>2, FS_CardinalityType
    <2>4. \A k \in Risky :
              budget'[k] = IF k = kind THEN budget[k] - 1 ELSE budget[k]
      BY <1>5 DEF Spend, TypeOK, FaultKinds, Risky
    <2>5. Spendable(budget') = Spendable(budget) - 1
      BY <1>2, <2>4 DEF Spendable, Risky
    <2>6. QED
      BY <1>1, <1>3, <2>1, <2>2, <2>3, <2>5
  <1>6. QED
    BY <1>4, <1>5, RiskCases

LEMMA RiskInvariance == Spec => [](TypeOK /\ Inv /\ RiskInv)
  BY InitRisk, RiskStep, Invariance, PTL DEF Spec

\* executeRegistrationSaga and rollback: of a failed saga documents remain only
\* when one of its own calls timed out or failed after it had stored its document,
\* or one of its own undo calls failed.
THEOREM LeftoversAreBounded == Spec => []LeftoversBounded
  <1>1. TypeOK /\ RiskInv => LeftoversBounded
    <2> SUFFICES ASSUME TypeOK, RiskInv PROVE LeftoversBounded
      OBVIOUS
    <2> DEFINE Left == {r \in Requests : Leftover(r)}
    <2>1. ASSUME NEW r \in Requests, Leftover(r) PROVE r \in AtRisk
      <3>1. pc[r] = "failed" /\ (r \in users \/ r \in tasks)
        BY <2>1 DEF Leftover
      <3>2. <<"user", "task">> # <<>>
        OBVIOUS
      <3>3. ~DocumentsInv(r)
        BY <3>1, <3>2 DEF DocumentsInv
      <3>4. QED
        BY <3>1, <3>3 DEF AtRisk, Clean
    <2>2. Left \subseteq AtRisk
      BY <2>1
    <2>3. IsFiniteSet(Left) /\ Cardinality(Left) <= Cardinality(AtRisk)
      BY <2>2, FS_Subset DEF RiskInv
    <2>4. Cardinality(Left) \in Nat /\ Cardinality(AtRisk) \in Nat
      BY <2>3, FS_CardinalityType DEF RiskInv
    <2>5. /\ budget["timeout"] \in Nat /\ budget["storedFails"] \in Nat
          /\ budget["undoFails"] \in Nat /\ Budget["timeout"] \in Nat
          /\ Budget["storedFails"] \in Nat /\ Budget["undoFails"] \in Nat
      BY SagaAssumption DEF TypeOK, FaultKinds
    <2>6. QED
      BY <2>3, <2>4, <2>5 DEF LeftoversBounded, RiskInv, Spendable
  <1>2. QED
    BY <1>1, RiskInvariance, PTL

-----------------------------------------------------------------------------
(* How often a notification is stored                                      *)

BudgetInv == \A kind \in FaultKinds : budget[kind] <= Budget[kind]

LEMMA SpendOrNot ==
    [Next]_vars => UNCHANGED budget \/ \E kind \in FaultKinds : Spend(kind)
  BY DEF Next, ServerStep, GatewayStep, FaultStep, vars, FaultKinds, Start,
         AuthCheck, AuthCreate, TaskCreate, NotifyCreate, LateUndo,
         UserRegistered, TaskCreated, Notified, StepFails, Undo, RolledBack,
         AuthFails, TaskFails, NotifyFails, CallTimesOut, CallRejected,
         ReplyLost, UndoFails, UndoTimesOut, Redeliver, GatewayCrash,
         AuthStoresAndFails, TaskStoresAndFails, NotifyStoresAndFails, StepHasNoId

LEMMA BudgetStep == TypeOK /\ BudgetInv /\ [Next]_vars => BudgetInv'
  <1> SUFFICES ASSUME TypeOK, BudgetInv, [Next]_vars
               PROVE  BudgetInv'
    OBVIOUS
  <1>1. ASSUME NEW kind \in FaultKinds, Spend(kind)
        PROVE  BudgetInv'
    <2> SUFFICES ASSUME NEW k \in FaultKinds
                 PROVE  budget'[k] <= Budget[k]
      BY DEF BudgetInv
    <2>1. budget[k] \in Nat /\ Budget[k] \in Nat /\ budget[k] <= Budget[k]
      BY SagaAssumption DEF BudgetInv, TypeOK
    <2>2. budget'[k] = IF k = kind THEN budget[k] - 1 ELSE budget[k]
      BY <1>1 DEF Spend, TypeOK
    <2>3. QED
      BY <2>1, <2>2
  <1>2. CASE UNCHANGED budget
    BY <1>2 DEF BudgetInv
  <1>3. UNCHANGED budget \/ \E kind \in FaultKinds : Spend(kind)
    BY SpendOrNot
  <1>4. QED
    BY <1>1, <1>2, <1>3

\* Deliveries of the message of r that will still store a notification.
Queued(r) == IF note[r] = "queued" THEN 1 ELSE 0

WelcomeInv(r) ==
    /\ pc[r] \in {"start", "register", "createTask"} => note[r] = "none"
    /\ note[r] = "none" => notes[r] = 0
    /\ notes[r] + Queued(r) + budget["redelivery"] <= 1 + Budget["redelivery"]

\* Most steps have nothing to do with messages.
LEMMA WelcomeKept ==
    ASSUME TypeOK, BudgetInv', TypeOK', NEW q \in Requests, WelcomeInv(q),
           UNCHANGED <<note, notes>>,
           budget'["redelivery"] <= budget["redelivery"],
           pc'[q] \in {"start", "register", "createTask"} =>
               pc[q] \in {"start", "register", "createTask"}
    PROVE  WelcomeInv(q)'
  <1>1. /\ budget["redelivery"] \in Nat /\ budget'["redelivery"] \in Nat
        /\ Budget["redelivery"] \in Nat /\ notes[q] \in Nat
    BY SagaAssumption DEF TypeOK, FaultKinds
  <1>2. QED
    BY <1>1 DEF WelcomeInv, Queued

LEMMA BudgetFalls ==
    ASSUME TypeOK, [Next]_vars
    PROVE  budget'["redelivery"] <= budget["redelivery"]
  <1>1. \A kind \in FaultKinds : budget[kind] \in Nat
    BY DEF TypeOK
  <1>2. ASSUME NEW kind \in FaultKinds, Spend(kind)
        PROVE  budget'["redelivery"] <= budget["redelivery"]
    BY <1>1, <1>2 DEF Spend, TypeOK, FaultKinds
  <1>3. UNCHANGED budget => budget'["redelivery"] <= budget["redelivery"]
    BY <1>1 DEF FaultKinds
  <1>4. UNCHANGED budget \/ \E kind \in FaultKinds : Spend(kind)
    BY SpendOrNot
  <1>5. QED
    BY <1>2, <1>3, <1>4

LEMMA WelcomeStep ==
    ASSUME TypeOK, TypeOK', BudgetInv, BudgetInv', [Next]_vars,
           NEW q \in Requests, WelcomeInv(q)
    PROVE  WelcomeInv(q)'
  <1> USE DEF gatewayVars, serverVars
  <1>1. /\ budget["redelivery"] \in Nat /\ budget'["redelivery"] \in Nat
        /\ Budget["redelivery"] \in Nat /\ notes[q] \in Nat /\ notes'[q] \in Nat
    BY SagaAssumption DEF TypeOK, FaultKinds
  <1>2. budget'["redelivery"] <= budget["redelivery"]
    BY BudgetFalls
  <1>3. ASSUME NEW r \in Requests,
               NotifyCreate(r) \/ NotifyFails(r) \/ NotifyStoresAndFails(r)
        PROVE  WelcomeInv(q)'
    <2>1. /\ UNCHANGED pc
          /\ note' = [note EXCEPT ![r] = "unacked"] /\ note[r] = "queued"
          /\ notes' = [notes EXCEPT ![r] = @ + 1] \/ UNCHANGED notes
      BY <1>3 DEF NotifyCreate, NotifyFails, NotifyStoresAndFails
    <2>2. CASE q = r
      <3>1. /\ note[q] = "queued" /\ note'[q] = "unacked"
            /\ notes'[q] = notes[q] + 1 \/ notes'[q] = notes[q]
        BY <2>1, <2>2 DEF TypeOK
      <3>2. QED
        BY <1>1, <1>2, <2>1, <3>1 DEF WelcomeInv, Queued
    <2>3. CASE q # r
      <3>1. note'[q] = note[q] /\ notes'[q] = notes[q]
        BY <2>1, <2>3 DEF TypeOK
      <3>2. QED
        BY <1>1, <1>2, <2>1, <3>1 DEF WelcomeInv, Queued
    <2>4. QED
      BY <2>2, <2>3
  <1>4. CASE Redeliver
    <2>1. /\ UNCHANGED <<pc, notes>>
          /\ budget'["redelivery"] = budget["redelivery"] - 1
          /\ note'[q] = IF note[q] = "unacked" THEN "queued" ELSE note[q]
      BY <1>4 DEF Redeliver, Spend, TypeOK, FaultKinds
    <2>2. QED
      BY <1>1, <2>1 DEF WelcomeInv, Queued
  <1>5. ASSUME NEW r \in Requests, TaskCreated(r)
        PROVE  WelcomeInv(q)'
    <2>1. /\ pc[r] = "createTask" /\ pc' = [pc EXCEPT ![r] = "notify"]
          /\ note' = [note EXCEPT ![r] = "queued"] /\ UNCHANGED <<notes, budget>>
      BY <1>5 DEF TaskCreated, Goto
    <2>2. budget["redelivery"] <= Budget["redelivery"]
      BY DEF BudgetInv, FaultKinds
    <2>3. QED
      BY <1>1, <2>1, <2>2 DEF WelcomeInv, Queued, TypeOK
  <1>6. ASSUME UNCHANGED <<note, notes>>,
               pc'[q] \in {"start", "register", "createTask"} =>
                   pc[q] \in {"start", "register", "createTask"}
        PROVE  WelcomeInv(q)'
    BY <1>2, <1>6, WelcomeKept
  <1>7. ASSUME NEW r \in Requests,
               Start(r) \/ UserRegistered(r) \/ Notified(r) \/ StepFails(r)
                   \/ StepHasNoId(r) \/ CallTimesOut(r) \/ CallRejected(r) \/ RolledBack(r)
        PROVE  WelcomeInv(q)'
    BY <1>6, <1>7
    DEF Start, UserRegistered, Notified, StepFails, StepHasNoId, CallTimesOut,
        CallRejected, RolledBack, Goto, TypeOK
  <1>8. CASE GatewayCrash
    BY <1>6, <1>8 DEF GatewayCrash
  <1>9. CASE UNCHANGED <<pc, note, notes>>
    BY <1>6, <1>9
  <1>10. QED
    BY <1>3, <1>4, <1>5, <1>7, <1>8, <1>9
    DEF Next, ServerStep, GatewayStep, FaultStep, vars, AuthCheck, AuthCreate,
        TaskCreate, LateUndo, Undo, TakeUndo, AuthFails, TaskFails, ReplyLost,
        AuthStoresAndFails, TaskStoresAndFails, UndoFails, UndoTimesOut

\* A saga stores at most one notification more than there were redeliveries,
\* for any number of sagas and of faults of every kind.
THEOREM WelcomesAreBounded == Spec => []WelcomesBounded
  <1> DEFINE Welcomes == \A r \in Requests : WelcomeInv(r)
  <1>1. Init => BudgetInv /\ Welcomes
    BY SagaAssumption DEF Init, BudgetInv, WelcomeInv, Queued, FaultKinds
  <1>2. TypeOK /\ TypeOK' /\ BudgetInv /\ Welcomes /\ [Next]_vars =>
            BudgetInv' /\ Welcomes'
    BY BudgetStep, WelcomeStep
  <1>3. TypeOK /\ Welcomes => WelcomesBounded
    <2> SUFFICES ASSUME TypeOK, NEW r \in Requests, WelcomeInv(r)
                 PROVE  notes[r] + budget["redelivery"] <= 1 + Budget["redelivery"]
      BY DEF WelcomesBounded
    <2>1. /\ budget["redelivery"] \in Nat /\ Budget["redelivery"] \in Nat
          /\ notes[r] \in Nat
      BY SagaAssumption DEF TypeOK, FaultKinds
    <2>2. QED
      BY <2>1 DEF WelcomeInv, Queued
  <1> HIDE DEF Welcomes
  <1>4. QED
    BY <1>1, <1>2, <1>3, TypeCorrect, PTL DEF Spec

-----------------------------------------------------------------------------
(* Sagas whose calls all tell what they did                                *)

\* The gateway waits for its message, and what comes of it is its last step.
NoteInv(r) ==
    /\ pc[r] \in {"start", "register", "createTask"} =>
           note[r] = "none" /\ reply[r] = "none"
    /\ note[r] = "queued" => pc[r] = "notify" /\ reply[r] = "none"
    /\ notes[r] > 0 => pc[r] \in {"notify", "done"} /\ reply[r] = "ok"

KnownInv == \A r \in Requests : Clean(r) /\ NoteInv(r)

\* A fault of one of these kinds ends the time of known outcomes.
LEMMA SpentForGood ==
    ASSUME TypeOK, BudgetInv, NEW kind \in Obscuring, Spend(kind)
    PROVE  ~EveryOutcomeKnown'
  BY SagaAssumption, SMTT(30)
  DEF Obscuring, EveryOutcomeKnown, Spend, BudgetInv, TypeOK, FaultKinds

LEMMA KnownBefore ==
    TypeOK /\ BudgetInv /\ [Next]_vars /\ EveryOutcomeKnown' => EveryOutcomeKnown
  <1> SUFFICES ASSUME TypeOK, BudgetInv, [Next]_vars, EveryOutcomeKnown'
               PROVE  EveryOutcomeKnown
    OBVIOUS
  <1>1. ASSUME NEW kind \in FaultKinds, Spend(kind)
        PROVE  EveryOutcomeKnown
    <2>1. kind \notin Obscuring
      BY <1>1, SpentForGood
    <2>2. \A k \in Obscuring : budget'[k] = budget[k]
      BY <1>1, <2>1 DEF Spend, TypeOK, Obscuring, FaultKinds
    <2>3. QED
      BY <2>2 DEF EveryOutcomeKnown, Obscuring
  <1>2. CASE UNCHANGED budget
    BY <1>2 DEF EveryOutcomeKnown
  <1>3. UNCHANGED budget \/ \E kind \in FaultKinds : Spend(kind)
    BY DEF Next, ServerStep, GatewayStep, FaultStep, vars, FaultKinds, Start,
           AuthCheck, AuthCreate, TaskCreate, NotifyCreate, LateUndo,
           UserRegistered, TaskCreated, Notified, StepFails, Undo, RolledBack,
           AuthFails, TaskFails, NotifyFails, CallTimesOut, CallRejected,
           ReplyLost, UndoFails, UndoTimesOut, Redeliver, GatewayCrash,
         AuthStoresAndFails, TaskStoresAndFails, NotifyStoresAndFails, StepHasNoId
  <1>4. QED
    BY <1>1, <1>2, <1>3

\* Redeliveries and crashes aside, only the message of r changes its notes.
LEMMA NoteStays ==
    ASSUME TypeOK, NEW q \in Requests, NoteInv(q), [Next]_vars,
           ~Redeliver, ~GatewayCrash,
           \A r \in Requests : ~ReplyLost(r) /\ ~StoresAndFails(r)
    PROVE  NoteInv(q)'
  <1> USE DEF gatewayVars, serverVars
  <1>1. CASE UNCHANGED <<pc, note, reply, notes>>
    BY <1>1 DEF NoteInv
  <1>2. ASSUME NEW r \in Requests, NotifyCreate(r) \/ NotifyFails(r)
        PROVE  NoteInv(q)'
    BY <1>2 DEF NotifyCreate, NotifyFails, Answer, TypeOK, NoteInv
  <1>3. ASSUME NEW r \in Requests,
               Start(r) \/ UserRegistered(r) \/ TaskCreated(r) \/ Notified(r)
        PROVE  NoteInv(q)'
    BY <1>3 DEF Start, UserRegistered, TaskCreated, Notified, Goto, TypeOK, NoteInv
  <1>4. ASSUME NEW r \in Requests,
               StepFails(r) \/ CallTimesOut(r) \/ CallRejected(r) \/ RolledBack(r)
        PROVE  NoteInv(q)'
    BY <1>4
    DEF StepFails, CallTimesOut, CallRejected, RolledBack, Goto, TypeOK, NoteInv
  <1>5. QED
    BY <1>1, <1>2, <1>3, <1>4
    DEF Next, ServerStep, GatewayStep, FaultStep, vars, AuthCheck, AuthCreate,
        TaskCreate, LateUndo, Undo, TakeUndo, AuthFails, TaskFails, UndoFails,
        UndoTimesOut, StoresAndFails

LEMMA KnownStep ==
    TypeOK /\ Inv /\ BudgetInv /\ KnownInv /\ EveryOutcomeKnown' /\ [Next]_vars
        => KnownInv'
  <1> SUFFICES ASSUME TypeOK, Inv, BudgetInv, KnownInv, EveryOutcomeKnown',
                      [Next]_vars
               PROVE  KnownInv'
    OBVIOUS
  <1>1. \A r \in Requests : ~CutShort(r) /\ ~ReplyLost(r)
    BY SpentForGood
    DEF CutShort, StoresAndFails, AuthStoresAndFails, TaskStoresAndFails,
        NotifyStoresAndFails, StepHasNoId, CallTimesOut, ReplyLost, UndoFails,
        UndoTimesOut, Obscuring
  <1>2. ~Redeliver /\ ~GatewayCrash
    BY SpentForGood DEF Redeliver, GatewayCrash, Obscuring
  <1>3. QED
    BY <1>1, <1>2, CleanStays, NoteStays DEF KnownInv, CutShort

LEMMA KnownInvariance ==
    Spec => [](TypeOK /\ Inv /\ (EveryOutcomeKnown => KnownInv))
  <1>1. Init => BudgetInv /\ KnownInv
    BY SagaAssumption
    DEF Init, BudgetInv, KnownInv, Clean, DocumentsInv, CallsInv, NoteInv
  <1>2. /\ TypeOK /\ Inv /\ BudgetInv /\ (EveryOutcomeKnown => KnownInv)
        /\ [Next]_vars
        => (BudgetInv /\ (EveryOutcomeKnown => KnownInv))'
    BY BudgetStep, KnownBefore, KnownStep
  <1>3. QED
    BY <1>1, <1>2, Invariance, PTL DEF Spec

\* As long as every call is answered, and none that has stored its document with
\* an error, the rollback of RegistrationSagaService leaves nothing of a failed
\* saga in any service, for any number of concurrent sagas and any number of
\* errors and refused calls.
THEOREM RollbackIsComplete == Spec => []KnownFailureIsUndone
  <1>1. TypeOK /\ KnownInv => FailedLeavesNothing
    <2> SUFFICES ASSUME TypeOK, KnownInv, NEW r \in Requests,
                        pc[r] = "failed"
                 PROVE  r \notin users /\ r \notin tasks /\ notes[r] = 0
      BY DEF FailedLeavesNothing
    <2>1. undo[r] = <<>> /\ <<>> # <<"user", "task">>
      BY DEF KnownInv, Clean, DocumentsInv
    <2>2. r \notin users /\ r \notin tasks
      BY <2>1 DEF KnownInv, Clean, DocumentsInv
    <2>3. notes[r] \in Nat /\ ~ (notes[r] > 0)
      BY DEF KnownInv, NoteInv, TypeOK
    <2>4. QED
      BY <2>2, <2>3
  <1>2. QED
    BY <1>1, KnownInvariance, PTL DEF KnownFailureIsUndone

\* As long as the outcome of every call is known, no welcome task exists without its user, not
\* even half way through a rollback.
THEOREM RollbackIsReversed == Spec => []UndoneInReverse
  <1>1. Inv /\ KnownInv /\ TypeOK => tasks \subseteq users
    <2> SUFFICES ASSUME Inv, KnownInv, TypeOK, NEW r \in tasks
                 PROVE  r \in users
      OBVIOUS
    <2>1. r \in Requests
      BY DEF TypeOK
    <2>2. undo[r] \in {<<"user">>, <<"user", "task">>}
      BY <2>1 DEF KnownInv, Clean, DocumentsInv, Inv, RequestInv, UndoInv
    <2>3. undo[r] # <<>>
      BY <2>2
    <2>4. QED
      BY <2>1, <2>3 DEF KnownInv, Clean, DocumentsInv
  <1>2. QED
    BY <1>1, KnownInvariance, PTL DEF UndoneInReverse
=============================================================================
