---------------------------- MODULE UiQueue_proofs ----------------------------
(***************************************************************************)
(* Proofs about the UI action queue, for any number of workers, any        *)
(* capacity, batch size and nesting depth.                                 *)
(***************************************************************************)
EXTENDS UiQueue, SequenceTheorems, TLAPS

\* Only an action of a drain below the depth bound may be waiting for the user.
PromptBelowBound ==
    stack # <<>> /\ Top.prompting => Len(stack) < MaxDepth

\* No action is started or refused before it is posted.
OnlyPosted ==
    /\ \A w \in Workers : last[w] <= posted[w]
    /\ \A a \in dropped : a[2] <= posted[a[1]]

\* A worker posts nothing before its blocking call has returned.
ResultFirst == \A w \in Workers : phase[w] # "posting" => posted[w] = 0

TypeInv == TypeOK /\ PromptBelowBound /\ ResultFirst
IInv == TypeInv /\ QueueOrdered /\ OnlyPosted

\* Replacing the innermost drain keeps the stack a stack of the same height.
LEMMA SetTopType ==
    ASSUME NEW f \in Frame, stack \in Seq(Frame), stack # <<>>
    PROVE  /\ SetTop(f) \in Seq(Frame)
           /\ Len(SetTop(f)) = Len(stack)
           /\ SetTop(f) # <<>>
           /\ SetTop(f)[Len(SetTop(f))] = f
<1>1. Len(stack) \in 1 .. Len(stack)
  BY EmptySeq
<1>2. QED
  BY <1>1, ExceptSeq DEF SetTop

\* The drain on top of the stack is a well-formed frame.
LEMMA TopType ==
    ASSUME stack \in Seq(Frame), stack # <<>>
    PROVE  Top \in Frame
<1>1. Len(stack) \in 1 .. Len(stack)
  BY EmptySeq
<1>2. QED
  BY <1>1, ElementOfSeq DEF Top

\* Dropping the last element of a sequence.
LEMMA FrontType ==
    ASSUME NEW S, NEW s \in Seq(S), s # <<>>
    PROVE  /\ SubSeq(s, 1, Len(s) - 1) \in Seq(S)
           /\ Len(SubSeq(s, 1, Len(s) - 1)) = Len(s) - 1
           /\ Len(s) \in Nat
<1>1. Len(s) \in Nat /\ Len(s) # 0
  OBVIOUS
<1> DEFINE n == Len(s) - 1
<1>2. n \in Nat /\ n < Len(s)
  BY <1>1
<1>3. \A i \in 1 .. n : s[i] \in S
  BY <1>1
<1> HIDE DEF n
<1>4. SubSeq(s, 1, n) \in Seq(S) /\ Len(SubSeq(s, 1, n)) = n
  BY <1>2, <1>3
<1>5. QED
  BY <1>1, <1>4 DEF n

\* A post either appends the action to the channel or counts it as dropped.
LEMMA PostEffect ==
    ASSUME NEW w \in Workers, Post(w), TypeOK
    PROVE  LET a == <<w, posted[w] + 1>> IN
           \/ /\ queue' = Append(queue, a)
              /\ queue' \in Seq(Action)
              /\ Len(queue') = Len(queue) + 1
              /\ Len(queue') <= Capacity
              /\ dropped' = dropped
           \/ queue' = queue /\ dropped' = dropped \cup {a}
<1> DEFINE a == <<w, posted[w] + 1>>
<1>1. a \in Action /\ Len(queue) \in Nat
  BY DEF TypeOK, Action
<1>2. CASE Len(queue) < Capacity
  <2>1. queue' = Append(queue, a) /\ dropped' = dropped
    BY <1>2 DEF Post
  <2> HIDE DEF a
  <2>2. Append(queue, a) \in Seq(Action) /\ Len(Append(queue, a)) = Len(queue) + 1
    BY <1>1, AppendProperties DEF TypeOK
  <2>3. Len(queue) + 1 <= Capacity
    BY <1>1, <1>2, UiQueueAssumption
  <2>4. QED
    BY <2>1, <2>2, <2>3 DEF a
<1>3. CASE ~(Len(queue) < Capacity)
  BY <1>3 DEF Post
<1>4. QED
  BY <1>2, <1>3

\* Initially every variable has its type.
LEMMA InitTypeInv == Init => TypeInv
BY UiQueueAssumption DEF Init, TypeInv, TypeOK, PromptBelowBound, ResultFirst

\* Every step of the queue keeps every variable in its type.
LEMMA StepTypeInv == TypeInv /\ [Next]_vars => TypeInv'
<1> SUFFICES ASSUME TypeInv, [Next]_vars
             PROVE  TypeInv'
  OBVIOUS
<1> USE UiQueueAssumption DEF TypeInv, ResultFirst
<1>1. ASSUME NEW w \in Workers, Spawn(w)
      PROVE  TypeInv'
  BY <1>1 DEF Spawn, TypeOK, PromptBelowBound, Top
<1>2. ASSUME NEW w \in Workers, Return(w)
      PROVE  TypeInv'
  <2>1. Outcomes(w) \subseteq 0 .. MaxLines + 1
    BY DEF Outcomes
  <2>2. total' \in [Workers -> 0 .. MaxLines + 1]
    BY <1>2, <2>1 DEF Return, TypeOK
  <2>3. total'[w] \in Nat /\ \A v \in Workers \ {w} : total'[v] = total[v]
    BY <1>2, <2>2 DEF Return, TypeOK
  <2>4. posted[w] = 0
    BY <1>2 DEF Return
  <2>5. \A v \in Workers : posted'[v] <= total'[v]
    BY <1>2, <2>3, <2>4 DEF Return, TypeOK
  <2>6. TypeOK'
    BY <1>2, <2>2, <2>5 DEF Return, TypeOK
  <2>7. PromptBelowBound' /\ ResultFirst'
    BY <1>2 DEF Return, TypeOK, PromptBelowBound, Top
  <2>8. QED
    BY <2>6, <2>7
<1>3. ASSUME NEW w \in Workers, Post(w)
      PROVE  TypeInv'
  <2>1. posted[w] \in Nat /\ <<w, posted[w] + 1>> \in Action
    BY DEF TypeOK, Action
  <2>2. queue' \in Seq(Action) /\ Len(queue') <= Capacity /\ dropped' \in SUBSET Action
    <3>1. CASE queue' = queue /\ dropped' = dropped \cup {<<w, posted[w] + 1>>}
      BY <2>1, <3>1 DEF TypeOK
    <3>2. CASE queue' \in Seq(Action) /\ Len(queue') <= Capacity /\ dropped' = dropped
      BY <3>2 DEF TypeOK
    <3>3. QED
      BY <1>3, <3>1, <3>2, PostEffect
  <2>3. total[w] \in Nat /\ \A v \in Workers : posted[v] \in Nat /\ total[v] \in Nat
    BY DEF TypeOK
  <2>4. posted' \in [Workers -> Nat] /\ \A v \in Workers : posted'[v] <= total'[v]
    <3>1. posted' = [posted EXCEPT ![w] = @ + 1] /\ posted[w] < total[w] /\ total' = total
      BY <1>3 DEF Post
    <3>2. posted[w] + 1 <= total[w]
      BY <2>1, <2>3, <3>1
    <3>3. QED
      BY <2>1, <2>3, <3>1, <3>2 DEF TypeOK
  <2>5. TypeOK'
    BY <1>3, <2>2, <2>4 DEF Post, TypeOK
  <2>6. PromptBelowBound' /\ ResultFirst'
    BY <1>3 DEF Post, TypeOK, PromptBelowBound, Top
  <2>7. QED
    BY <2>5, <2>6
<1>4. CASE Tick
  BY <1>4 DEF Tick, NewFrame, Idle, Frame, TypeOK, PromptBelowBound, Top
<1>5. CASE NestedTick
  BY <1>5 DEF NestedTick, NewFrame, Idle, Frame, TypeOK, PromptBelowBound, Top
<1>6. CASE Take
  <2> DEFINE f == [Top EXCEPT !.running = Head(queue)]
  <2>1. /\ Head(queue) \in Action
        /\ Tail(queue) \in Seq(Action)
        /\ Len(Tail(queue)) = Len(queue) - 1
        /\ Len(queue) \in Nat
    BY <1>6, HeadTailProperties, LenProperties DEF Take, TypeOK
  <2>2. f \in Frame /\ f.prompting = Top.prompting
    BY <1>6, <2>1, TopType DEF Take, TypeOK, Frame
  <2>3. last' \in [Workers -> Nat]
    BY <1>6, <2>1 DEF Take, TypeOK, Action
  <2>4. stack' = SetTop(f)
    BY <1>6 DEF Take
  <2>5. TypeOK'
    <3>1. stack' \in Seq(Frame) /\ Len(stack') <= MaxDepth
      BY <1>6, <2>2, <2>4, SetTopType DEF Take, TypeOK
    <3>2. queue' \in Seq(Action) /\ Len(queue') <= Capacity
      BY <1>6, <2>1 DEF Take, TypeOK
    <3>3. UNCHANGED <<phase, total, posted, dropped>>
      BY <1>6 DEF Take
    <3> QED BY <2>3, <3>1, <3>2, <3>3 DEF TypeOK
  <2>6. PromptBelowBound'
    BY <1>6, <2>2, <2>4, SetTopType DEF Take, TypeOK, PromptBelowBound, Top
  <2>7. QED
    BY <1>6, <2>5, <2>6 DEF Take
<1>7. CASE Prompt
  <2> DEFINE f == [Top EXCEPT !.prompting = TRUE]
  <2>1. f \in Frame
    BY <1>7, TopType DEF Prompt, TypeOK, Frame
  <2>2. QED
    BY <1>7, <2>1, SetTopType DEF Prompt, TypeOK, PromptBelowBound, Top
<1>8. CASE Answer
  <2> DEFINE f == [Top EXCEPT !.prompting = FALSE]
  <2>1. f \in Frame /\ f.prompting = FALSE
    BY <1>8, TopType DEF Answer, TypeOK, Frame
  <2>2. QED
    BY <1>8, <2>1, SetTopType DEF Answer, TypeOK, PromptBelowBound, Top
<1>9. CASE Finish
  <2>1. Top \in Frame /\ Top.running # NoAction
    BY <1>9, TopType DEF Finish, TypeOK
  <2>2. Top.count \in 0 .. Batch /\ Top.count < Batch
    BY <2>1 DEF Frame
  <2>3. Idle(Top.count + 1) \in Frame /\ ~Idle(Top.count + 1).prompting
    BY <2>2 DEF Frame, Idle
  <2>4. QED
    BY <1>9, <2>3, SetTopType DEF Finish, TypeOK, PromptBelowBound, Top
<1>10. CASE DrainEnd
  <2>1. /\ stack' \in Seq(Frame)
        /\ Len(stack') = Len(stack) - 1
        /\ Len(stack) \in Nat
    BY <1>10, FrontType DEF DrainEnd, TypeOK
  <2>2. QED
    BY <1>10, <2>1 DEF DrainEnd, TypeOK, PromptBelowBound
<1>11. CASE UNCHANGED vars
  BY <1>11 DEF vars, TypeOK, PromptBelowBound, Top
<1>12. QED
  BY <1>1, <1>2, <1>3, <1>4, <1>5, <1>6, <1>7, <1>8, <1>9, <1>10, <1>11
  DEF Next, UiThread

\* The type invariant of the UI queue, the capacity of the channel included,
\* holds in every reachable state (async.ss *ui-queue*, ui-queue-push!,
\* ui-queue-drain!).
THEOREM TypeCorrect == Spec => []TypeOK
<1>1. TypeInv => TypeOK
  BY DEF TypeInv
<1>2. QED
  BY InitTypeInv, StepTypeInv, <1>1, PTL DEF Spec

------------------------------------------------------------------------------
(* Order.                                                                  *)

\* What Append leaves in place.
LEMMA AppendKeeps ==
    ASSUME NEW S, NEW s \in Seq(S), NEW e \in S
    PROVE  /\ DOMAIN Append(s, e) = 1 .. Len(s) + 1
           /\ DOMAIN s = 1 .. Len(s)
           /\ \A i \in 1 .. Len(s) : Append(s, e)[i] = s[i]
           /\ Append(s, e)[Len(s) + 1] = e
OBVIOUS

\* The places of a sequence and what they hold.
LEMMA SeqEntries ==
    ASSUME NEW S, NEW s \in Seq(S)
    PROVE  /\ DOMAIN s = 1 .. Len(s)
           /\ Len(s) \in Nat
           /\ \A i \in DOMAIN s : s[i] \in S
OBVIOUS

\* What removing the oldest entry leaves.
LEMMA TailEntries ==
    ASSUME NEW S, NEW s \in Seq(S), s # <<>>
    PROVE  /\ Len(s) \in Nat /\ Len(s) # 0
           /\ DOMAIN s = 1 .. Len(s) /\ Head(s) = s[1]
           /\ DOMAIN Tail(s) = 1 .. Len(s) - 1
           /\ \A i \in DOMAIN Tail(s) : Tail(s)[i] = s[i + 1]
           /\ \A i \in DOMAIN s : s[i] \in S
  BY SeqEntries, LenProperties, HeadTailProperties

\* Posting puts an action behind every waiting action of its worker.
LEMMA PostOrdered ==
    ASSUME TypeOK, QueueOrdered, OnlyPosted, NEW w \in Workers, Post(w)
    PROVE  QueueOrdered' /\ OnlyPosted'
<1> DEFINE a == <<w, posted[w] + 1>>
<1>1. /\ posted[w] \in Nat /\ a \in Action /\ a[1] = w /\ a[2] = posted[w] + 1
      /\ last' = last
      /\ posted' = [posted EXCEPT ![w] = posted[w] + 1]
      /\ \A v \in Workers : posted[v] \in Nat /\ last[v] \in Nat
  BY DEF Post, TypeOK, Action
<1>2. \A v \in Workers : posted'[v] \in Nat /\ posted[v] <= posted'[v]
  BY <1>1 DEF TypeOK
<1>3. posted'[w] = posted[w] + 1
  BY <1>1 DEF TypeOK
<1>4. DOMAIN queue = 1 .. Len(queue) /\ Len(queue) \in Nat
      /\ \A i \in DOMAIN queue : queue[i] \in Action /\ queue[i][1] \in Workers /\ queue[i][2] \in Nat
  <2>1. queue \in Seq(Action)
    BY DEF TypeOK
  <2>2. /\ DOMAIN queue = 1 .. Len(queue) /\ Len(queue) \in Nat
        /\ \A i \in DOMAIN queue : queue[i] \in Action
    BY <2>1, SeqEntries
  <2>3. \A b \in Action : b[1] \in Workers /\ b[2] \in Nat
    BY DEF Action
  <2>4. QED
    BY <2>2, <2>3
<1>5. OnlyPosted'
  <2>1. \A v \in Workers : last'[v] <= posted'[v]
    BY <1>1, <1>2 DEF OnlyPosted
  <2>2. \A b \in dropped' : b = a \/ b \in dropped
    BY PostEffect
  <2>3. \A b \in dropped : b[1] \in Workers /\ b[2] \in Nat
    BY DEF TypeOK, Action
  <2>4. \A b \in dropped' : b[2] <= posted'[b[1]]
    BY <1>1, <1>2, <1>3, <2>2, <2>3 DEF OnlyPosted
  <2>5. QED
    BY <2>1, <2>4 DEF OnlyPosted
<1>6. CASE queue' = queue
  <2>1. ASSUME NEW i \in DOMAIN queue
        PROVE  last'[queue[i][1]] < queue[i][2] /\ queue[i][2] <= posted'[queue[i][1]]
    BY <1>1, <1>2, <1>4 DEF QueueOrdered, NotPassed
  <2>2. NotPassed'
    BY <1>6, <2>1 DEF NotPassed
  <2>3. Increasing'
    BY <1>6 DEF QueueOrdered, Increasing
  <2>4. QED
    BY <1>5, <2>2, <2>3 DEF QueueOrdered
<1>7. CASE queue' = Append(queue, a)
  <2> HIDE DEF a
  <2>1. /\ DOMAIN queue' = 1 .. Len(queue) + 1
        /\ \A i \in 1 .. Len(queue) : queue'[i] = queue[i]
        /\ queue'[Len(queue) + 1] = a
    BY <1>1, <1>7, AppendKeeps DEF TypeOK
  <2>2. ASSUME NEW i \in DOMAIN queue'
        PROVE  last'[queue'[i][1]] < queue'[i][2] /\ queue'[i][2] <= posted'[queue'[i][1]]
    <3>1. CASE i \in 1 .. Len(queue)
      BY <1>1, <1>2, <1>4, <2>1, <3>1 DEF QueueOrdered, NotPassed
    <3>2. CASE i = Len(queue) + 1
      BY <1>1, <1>3, <2>1, <3>2 DEF OnlyPosted
    <3>3. QED
      BY <1>4, <2>1, <3>1, <3>2
  <2>3. ASSUME NEW i \in DOMAIN queue', NEW j \in DOMAIN queue',
               i < j, queue'[i][1] = queue'[j][1]
        PROVE  queue'[i][2] < queue'[j][2]
    <3>1. i \in 1 .. Len(queue)
      BY <1>4, <2>1, <2>3
    <3>2. CASE j \in 1 .. Len(queue)
      BY <1>4, <2>1, <2>3, <3>1, <3>2 DEF QueueOrdered, Increasing
    <3>3. CASE j = Len(queue) + 1
      <4>1. queue[i][1] = w /\ queue[i][2] <= posted[w] /\ queue[i][2] \in Nat
        BY <1>1, <1>4, <2>1, <2>3, <3>1, <3>3 DEF QueueOrdered, NotPassed
      <4>2. QED
        BY <1>1, <2>1, <3>1, <3>3, <4>1
    <3>4. QED
      BY <1>4, <2>1, <3>2, <3>3
  <2>4. NotPassed'
    BY <2>2 DEF NotPassed
  <2>5. Increasing'
    BY <2>3 DEF Increasing
  <2>6. QED
    BY <1>5, <2>4, <2>5 DEF QueueOrdered
<1>8. QED
  BY <1>5, <1>6, <1>7, PostEffect

\* Taking the oldest action starts a later action of its worker than any
\* before, and leaves the others in order.
LEMMA TakeOrdered ==
    ASSUME TypeOK, QueueOrdered, OnlyPosted, Take
    PROVE  /\ QueueOrdered' /\ OnlyPosted'
           /\ \E w \in Workers :
                 /\ last'[w] \in last[w] + 1 .. posted[w]
                 /\ last' = [last EXCEPT ![w] = last'[w]]
<1> DEFINE a == Head(queue)
<1>1. /\ queue # <<>> /\ queue' = Tail(queue)
      /\ last' = [last EXCEPT ![a[1]] = a[2]]
      /\ posted' = posted /\ dropped' = dropped
  BY DEF Take
<1>2. /\ Len(queue) \in Nat /\ Len(queue) # 0
      /\ DOMAIN queue = 1 .. Len(queue) /\ a = queue[1]
      /\ DOMAIN queue' = 1 .. Len(queue) - 1
      /\ \A i \in DOMAIN queue' : queue'[i] = queue[i + 1]
      /\ \A i \in DOMAIN queue : queue[i] \in Action
  <2>1. queue \in Seq(Action)
    BY DEF TypeOK
  <2>2. QED
    BY <1>1, <2>1, TailEntries
<1>3. \A i \in DOMAIN queue : queue[i][1] \in Workers /\ queue[i][2] \in Nat
  BY <1>2 DEF Action
<1>4. 1 \in DOMAIN queue /\ a[1] \in Workers /\ a[2] \in Nat
  BY <1>2, <1>3
<1>5. \A w \in Workers : last[w] \in Nat /\ posted[w] \in Nat
  BY DEF TypeOK
<1>6. last[a[1]] < a[2] /\ a[2] <= posted[a[1]]
  BY <1>2, <1>4 DEF QueueOrdered, NotPassed
<1>7. last'[a[1]] = a[2] /\ \A w \in Workers : w # a[1] => last'[w] = last[w]
  BY <1>1, <1>4 DEF TypeOK
<1> HIDE DEF a
<1>8. ASSUME NEW i \in DOMAIN queue'
      PROVE  last'[queue'[i][1]] < queue'[i][2] /\ queue'[i][2] <= posted[queue'[i][1]]
  <2>1. i + 1 \in DOMAIN queue /\ i \in Nat /\ 1 < i + 1 /\ queue'[i] = queue[i + 1]
    BY <1>2
  <2>2. last[queue[i + 1][1]] < queue[i + 1][2] /\ queue[i + 1][2] <= posted[queue[i + 1][1]]
    BY <2>1 DEF QueueOrdered, NotPassed
  <2>3. queue[i + 1][1] = a[1] => a[2] < queue[i + 1][2]
    BY <1>2, <1>4, <2>1 DEF QueueOrdered, Increasing
  <2>4. QED
    BY <1>3, <1>7, <2>1, <2>2, <2>3
<1>9. ASSUME NEW i \in DOMAIN queue', NEW j \in DOMAIN queue',
             i < j, queue'[i][1] = queue'[j][1]
      PROVE  queue'[i][2] < queue'[j][2]
  <2>1. i + 1 \in DOMAIN queue /\ j + 1 \in DOMAIN queue /\ i + 1 < j + 1
    BY <1>2, <1>9
  <2>2. queue'[i] = queue[i + 1] /\ queue'[j] = queue[j + 1]
    BY <1>2
  <2>3. QED
    BY <1>9, <2>1, <2>2 DEF QueueOrdered, Increasing
<1>10. NotPassed'
  BY <1>1, <1>8 DEF NotPassed
<1>11. Increasing'
  BY <1>9 DEF Increasing
<1>12. OnlyPosted'
  BY <1>1, <1>4, <1>5, <1>6, <1>7 DEF OnlyPosted
<1>13. last'[a[1]] \in last[a[1]] + 1 .. posted[a[1]]
  BY <1>4, <1>5, <1>6, <1>7
<1>14. last' = [last EXCEPT ![a[1]] = last'[a[1]]]
  BY <1>1, <1>7 DEF a
<1>15. QED
  BY <1>4, <1>10, <1>11, <1>12, <1>13, <1>14 DEF QueueOrdered

\* The steps that touch neither the channel nor the histories.
LEMMA OthersKeepOrder ==
    ASSUME QueueOrdered, OnlyPosted, UNCHANGED <<queue, posted, last, dropped>>
    PROVE  QueueOrdered' /\ OnlyPosted'
BY DEF QueueOrdered, NotPassed, Increasing, OnlyPosted

\* The inductive invariant is kept by every step.
LEMMA StepIInv == IInv /\ [Next]_vars => IInv'
<1> SUFFICES ASSUME IInv, [Next]_vars
             PROVE  IInv'
  OBVIOUS
<1>1. TypeInv'
  BY StepTypeInv DEF IInv
<1>2. QueueOrdered' /\ OnlyPosted'
  <2>1. CASE \E w \in Workers : Post(w)
    BY <2>1, PostOrdered DEF IInv, TypeInv
  <2>2. CASE Take
    BY <2>2, TakeOrdered DEF IInv, TypeInv
  <2>3. CASE UNCHANGED <<queue, posted, last, dropped>>
    BY <2>3, OthersKeepOrder DEF IInv
  <2>4. QED
    BY <2>1, <2>2, <2>3
    DEF Next, UiThread, vars, Spawn, Return, Tick, NestedTick, Prompt, Answer, Finish, DrainEnd
<1>3. QED
  BY <1>1, <1>2 DEF IInv

\* The inductive invariant holds initially.
LEMMA InitIInv == Init => IInv
<1>1. Init => QueueOrdered /\ OnlyPosted
  BY DEF Init, QueueOrdered, NotPassed, Increasing, OnlyPosted
<1>2. QED
  BY <1>1, InitTypeInv DEF IInv

\* In every reachable state the channel holds each worker's actions in the
\* order they were posted, none twice, and none that was already started or
\* overtaken, whatever the nesting of drains (async.ss ui-queue-push! and
\* ui-queue-drain!).
THEOREM OrderCorrect == Spec => []QueueOrdered
<1>1. IInv => QueueOrdered
  BY DEF IInv
<1>2. QED
  BY InitIInv, StepIInv, <1>1, PTL DEF Spec

\* A step of the queue is a step of the per-worker lossy link, or none.
LEMMA StepRefines == IInv /\ [Next]_vars => [Link!Next]_Link!linkVars
<1> SUFFICES ASSUME IInv, [Next]_vars
             PROVE  [Link!Next]_Link!linkVars
  OBVIOUS
<1>1. ASSUME NEW w \in Workers, Post(w)
      PROVE  Link!Send(w)
  BY <1>1 DEF Post, Link!Send
<1>2. ASSUME Take
      PROVE  \E w \in Workers : Link!Deliver(w)
  <2>1. PICK w \in Workers : /\ last'[w] \in last[w] + 1 .. posted[w]
                             /\ last' = [last EXCEPT ![w] = last'[w]]
    BY <1>2, TakeOrdered DEF IInv, TypeInv
  <2>2. posted' = posted
    BY <1>2 DEF Take
  <2>3. QED
    BY <2>1, <2>2 DEF Link!Deliver
<1>3. CASE UNCHANGED <<posted, last>>
  BY <1>3 DEF Link!linkVars
<1>4. QED
  BY <1>1, <1>2, <1>3
  DEF Next, UiThread, vars, Link!Next, Spawn, Return, Tick, NestedTick, Prompt, Answer,
      Finish, DrainEnd

\* The queue implements a lossy link per worker: no action is run twice, none
\* that was not posted, and none after a later one of the same worker
\* (async.ss *ui-queue*).
THEOREM RefinesLossyFifo == Spec => LinkSpec
<1>1. Init => Link!Init
  BY DEF Init, Link!Init
<1>2. QED
  BY <1>1, InitIInv, StepIInv, StepRefines, PTL DEF Spec, LinkSpec, Link!Spec

------------------------------------------------------------------------------
(* Accounting.                                                             *)

\* A posted action joins the waiting or the dropped ones.
LEMMA PostAccounted ==
    ASSUME IInv, Accounted, NEW w \in Workers, Post(w)
    PROVE  Accounted'
<1> DEFINE a == <<w, posted[w] + 1>>
<1> USE DEF IInv, TypeInv
<1>1. /\ a \in Action /\ last' = last /\ posted[w] \in Nat
      /\ posted' = [posted EXCEPT ![w] = posted[w] + 1]
      /\ \A v \in Workers : posted[v] \in Nat /\ last[v] \in Nat /\ last[v] <= posted[v]
  BY DEF Post, TypeOK, Action, OnlyPosted
<1>2. ASSUME NEW v \in Workers, NEW n \in 1 .. posted'[v]
      PROVE  n \in 1 .. posted[v] \/ <<v, n>> = a
  BY <1>1, <1>2 DEF TypeOK
<1>3. ~Waiting(a) /\ a \notin dropped /\ last[w] # posted[w] + 1
  <2>1. \A i \in DOMAIN queue : queue[i] # a
    BY <1>1 DEF QueueOrdered, NotPassed
  <2>2. a \notin dropped
    BY <1>1 DEF OnlyPosted
  <2>3. QED
    BY <1>1, <2>1, <2>2 DEF Waiting
<1> HIDE DEF a
<1>4. \/ dropped' = dropped /\ \A b : Waiting(b)' <=> Waiting(b) \/ b = a
      \/ dropped' = dropped \cup {a} /\ \A b : Waiting(b)' <=> Waiting(b)
  <2>1. CASE queue' = Append(queue, a) /\ dropped' = dropped
    <3>1. /\ DOMAIN queue' = 1 .. Len(queue) + 1
          /\ DOMAIN queue = 1 .. Len(queue) /\ Len(queue) \in Nat
          /\ \A i \in 1 .. Len(queue) : queue'[i] = queue[i]
          /\ queue'[Len(queue) + 1] = a
      BY <1>1, <2>1, AppendKeeps, LenProperties DEF TypeOK
    <3>2. QED
      BY <2>1, <3>1 DEF Waiting
  <2>2. CASE queue' = queue /\ dropped' = dropped \cup {a}
    BY <2>2 DEF Waiting
  <2>3. QED
    BY <2>1, <2>2, PostEffect DEF a
<1>5. ASSUME NEW v \in Workers, NEW n \in 1 .. posted'[v]
      PROVE  /\ last'[v] < n => (Waiting(<<v, n>>)' \/ <<v, n>> \in dropped')
             /\ ~(Waiting(<<v, n>>)' /\ <<v, n>> \in dropped')
             /\ n = last'[v] => (~Waiting(<<v, n>>)' /\ <<v, n>> \notin dropped')
  <2>1. CASE <<v, n>> = a
    <3>1. v = w /\ n = posted[w] + 1
      BY <2>1 DEF a
    <3>2. n # last'[v]
      BY <1>1, <1>3, <3>1
    <3>3. QED
      BY <1>3, <1>4, <2>1, <3>2
  <2>2. CASE <<v, n>> # a
    <3>1. n \in 1 .. posted[v]
      BY <1>2, <2>2
    <3>2. QED
      BY <1>1, <1>4, <2>2, <3>1 DEF Accounted
  <2>3. QED
    BY <2>1, <2>2
<1>6. QED
  BY <1>5 DEF Accounted

\* A started action leaves the waiting ones, and the others stay.
LEMMA TakeAccounted ==
    ASSUME IInv, Accounted, Take
    PROVE  Accounted'
<1> USE DEF IInv, TypeInv
<1> DEFINE a == Head(queue)
<1>1. /\ queue # <<>> /\ queue' = Tail(queue)
      /\ last' = [last EXCEPT ![a[1]] = a[2]]
      /\ posted' = posted /\ dropped' = dropped
  BY DEF Take
<1>2. /\ Len(queue) \in Nat /\ Len(queue) # 0
      /\ DOMAIN queue = 1 .. Len(queue) /\ a = queue[1]
      /\ DOMAIN queue' = 1 .. Len(queue) - 1
      /\ \A i \in DOMAIN queue' : queue'[i] = queue[i + 1]
      /\ a \in Action
  <2>1. queue \in Seq(Action)
    BY DEF TypeOK
  <2>2. QED
    BY <1>1, <2>1, TailEntries
<1>3. a = <<a[1], a[2]>> /\ a[1] \in Workers /\ a[2] \in Nat \ {0}
  BY <1>2 DEF Action
<1>4. last[a[1]] < a[2] /\ a[2] \in 1 .. posted[a[1]]
  <2>1. 1 \in DOMAIN queue /\ posted[a[1]] \in Nat
    BY <1>2, <1>3 DEF TypeOK
  <2>2. last[a[1]] < a[2] /\ a[2] <= posted[a[1]]
    BY <1>2, <2>1 DEF QueueOrdered, NotPassed
  <2>3. QED
    BY <1>3, <2>1, <2>2
<1>5. last'[a[1]] = a[2] /\ \A v \in Workers : v # a[1] => last'[v] = last[v]
  BY <1>1, <1>3 DEF TypeOK
<1>6. \A v \in Workers : last[v] \in Nat
  BY DEF TypeOK
<1> HIDE DEF a
<1>7. Waiting(a) /\ a \notin dropped
  <2>1. Waiting(a)
    BY <1>2 DEF Waiting
  <2>2. QED
    BY <1>3, <1>4, <2>1 DEF Accounted
<1>8. NotPassed'
  BY TakeOrdered DEF QueueOrdered
<1>9. ASSUME NEW b, b = a
      PROVE  ~Waiting(b)'
  <2>1. ASSUME NEW i \in DOMAIN queue', queue'[i] = a
        PROVE  FALSE
    <3>1. last'[a[1]] < a[2]
      BY <1>8, <2>1 DEF NotPassed
    <3>2. QED
      BY <1>3, <1>5, <3>1
  <2>2. QED
    BY <1>9, <2>1 DEF Waiting
<1>10. \A b : Waiting(b)' => Waiting(b)
  BY <1>2 DEF Waiting
<1>11. ASSUME NEW b, Waiting(b), b # a
       PROVE  Waiting(b)'
  <2>1. PICK i \in DOMAIN queue : queue[i] = b
    BY <1>11 DEF Waiting
  <2>2. i - 1 \in DOMAIN queue' /\ (i - 1) + 1 = i
    BY <1>2, <1>11, <2>1
  <2>3. QED
    BY <1>2, <2>1, <2>2 DEF Waiting
<1>12. ASSUME NEW v \in Workers, NEW n \in 1 .. posted[v]
       PROVE  /\ last'[v] < n => (Waiting(<<v, n>>)' \/ <<v, n>> \in dropped)
              /\ ~(Waiting(<<v, n>>)' /\ <<v, n>> \in dropped)
              /\ n = last'[v] => (~Waiting(<<v, n>>)' /\ <<v, n>> \notin dropped)
  <2>1. /\ last[v] < n => (Waiting(<<v, n>>) \/ <<v, n>> \in dropped)
        /\ ~(Waiting(<<v, n>>) /\ <<v, n>> \in dropped)
        /\ n = last[v] => (~Waiting(<<v, n>>) /\ <<v, n>> \notin dropped)
    BY DEF Accounted
  <2>2. last'[v] < n => <<v, n>> # a /\ last[v] < n
    BY <1>3, <1>4, <1>5, <1>6
  <2>3. n = last'[v] => <<v, n>> = a \/ n = last[v]
    BY <1>3, <1>5
  <2>4. <<v, n>> # a => (Waiting(<<v, n>>)' <=> Waiting(<<v, n>>))
    BY <1>10, <1>11
  <2>5. <<v, n>> = a => (~Waiting(<<v, n>>)' /\ <<v, n>> \notin dropped)
    BY <1>7, <1>9
  <2>6. QED
    BY <2>1, <2>2, <2>3, <2>4, <2>5
<1>13. QED
  BY <1>1, <1>12 DEF Accounted

\* Every posted action is waiting, refused by the full channel, or passed by
\* a started action of its worker: none disappears between ui-queue-push! and
\* ui-queue-drain! (async.ss).
THEOREM NothingLost == Spec => []Accounted
<1>1. Init => Accounted
  BY DEF Init, Accounted
<1>2. IInv /\ Accounted /\ [Next]_vars => Accounted'
  <2> SUFFICES ASSUME IInv, Accounted, [Next]_vars
               PROVE  Accounted'
    OBVIOUS
  <2>1. CASE \E w \in Workers : Post(w)
    BY <2>1, PostAccounted
  <2>2. CASE Take
    BY <2>2, TakeAccounted
  <2>3. CASE UNCHANGED <<queue, posted, last, dropped>>
    BY <2>3 DEF Accounted, Waiting
  <2>4. QED
    BY <2>1, <2>2, <2>3
    DEF Next, UiThread, vars, Spawn, Return, Tick, NestedTick, Prompt, Answer, Finish, DrainEnd
<1>3. QED
  BY InitIInv, StepIInv, <1>1, <1>2, PTL DEF Spec
===============================================================================
