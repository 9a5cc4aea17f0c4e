------------------------------- MODULE UiQueue -------------------------------
(***************************************************************************)
(* The UI action queue of src/jerboa-emacs/async.ss.                       *)
(*                                                                         *)
(* Worker threads run blocking work and post actions (thunks) to one       *)
(* bounded channel without ever blocking; the UI thread drains the channel *)
(* in batches, from the master timer.  An action that asks the user a      *)
(* question opens the inline minibuffer, whose loop runs the master timer  *)
(* again: drains nest, and `stack' holds the ones in progress, innermost   *)
(* last.                                                                   *)
(*                                                                         *)
(* The n-th action worker w posts is the pair <<w, n>>; what the action    *)
(* does to the editor is left out.                                         *)
(***************************************************************************)
EXTENDS Naturals, Sequences

CONSTANTS
    Workers,    \* the background threads, one per call of spawn-worker
    Streams,    \* those that run async-process-stream!; the others post one result
    MaxLines,   \* bound: the lines a stream's command prints
    Capacity,   \* size of the channel (4096 in the code)
    Batch,      \* actions one drain may run (64 in the code)
    MaxDepth    \* bound: drains in progress at once

ASSUME UiQueueAssumption ==
    /\ Streams \subseteq Workers
    /\ MaxLines \in Nat
    /\ Capacity \in Nat \ {0}
    /\ Batch \in Nat \ {0}
    /\ MaxDepth \in Nat \ {0}

VARIABLES
    phase,      \* phase[w]: not spawned, in its blocking call, or posting
    total,      \* total[w]: how many actions w's job turned out to post
    posted,     \* posted[w]: how many of them it has handed to ui-queue-push!
    queue,      \* the channel, oldest action first
    dropped,    \* history: the actions channel-try-put refused
    last,       \* history: last[w] is the latest action of w that was started
    stack       \* the drains in progress on the UI thread

vars == <<phase, total, posted, queue, dropped, last, stack>>

Action   == Workers \X (Nat \ {0})
NoAction == <<>>

\* One invocation of ui-queue-drain!: its loop counter, the action it is
\* running, and whether that action waits in a minibuffer loop.
Frame == {f \in [count     : 0 .. Batch,
                 running   : Action \cup {NoAction},
                 prompting : BOOLEAN] : f.running # NoAction => f.count < Batch}
Idle(n)  == [count |-> n, running |-> NoAction, prompting |-> FALSE]
NewFrame == Idle(0)

Top == stack[Len(stack)]
SetTop(f) == [stack EXCEPT ![Len(stack)] = f]

\* User code runs on the UI thread when no drain is in progress (a command
\* dispatched by the event loop) or when the innermost one runs an action.
UiRunsCode == stack # <<>> => (Top.running # NoAction /\ ~Top.prompting)

Init ==
    /\ phase   = [w \in Workers |-> "new"]
    /\ total   = [w \in Workers |-> 0]
    /\ posted  = [w \in Workers |-> 0]
    /\ queue   = <<>>
    /\ dropped = {}
    /\ last    = [w \in Workers |-> 0]
    /\ stack   = <<>>

------------------------------------------------------------------------------
(* The workers.                                                            *)

Spawn(w) ==
    /\ phase[w] = "new"
    /\ UiRunsCode
    /\ phase' = [phase EXCEPT ![w] = "blocked"]
    /\ UNCHANGED <<total, posted, queue, dropped, last, stack>>

\* How many actions a job can turn out to post.  A one-shot job posts its
\* callback, or on-error (none when the thunk of async-eval! raises: its
\* handler returns two values where one is awaited); a stream posts an action
\* per line and on-done when it was given one, or only on-error.
Outcomes(w) == IF w \in Streams THEN 0 .. MaxLines + 1 ELSE 0 .. 1

\* The blocking call returns or raises.
Return(w) ==
    /\ phase[w] = "blocked"
    /\ phase' = [phase EXCEPT ![w] = "posting"]
    /\ \E n \in Outcomes(w) : total' = [total EXCEPT ![w] = n]
    /\ UNCHANGED <<posted, queue, dropped, last, stack>>

PostUnbounded(w) ==
    /\ phase[w] = "posting"
    /\ posted[w] < total[w]
    /\ posted' = [posted EXCEPT ![w] = @ + 1]
    /\ queue' = Append(queue, <<w, posted[w] + 1>>)
    /\ UNCHANGED <<phase, total, dropped, last, stack>>

\* ui-queue-push!: channel-try-put never blocks; its result is ignored, so an
\* action refused by a full channel is gone.
Post(w) ==
    /\ phase[w] = "posting"
    /\ posted[w] < total[w]
    /\ posted' = [posted EXCEPT ![w] = @ + 1]
    /\ IF Len(queue) < Capacity
         THEN queue' = Append(queue, <<w, posted[w] + 1>>) /\ UNCHANGED dropped
         ELSE dropped' = dropped \cup {<<w, posted[w] + 1>>} /\ UNCHANGED queue
    /\ UNCHANGED <<phase, total, last, stack>>

------------------------------------------------------------------------------
(* The UI thread.                                                          *)

\* The Qt event loop calls the master timer.
Tick ==
    /\ stack = <<>>
    /\ stack' = <<NewFrame>>
    /\ UNCHANGED <<phase, total, posted, queue, dropped, last>>

NestedTickMissing == FALSE /\ UNCHANGED vars

\* One turn of a minibuffer loop: the master timer runs again, below the
\* action that is waiting for the answer.
NestedTick ==
    /\ stack # <<>>
    /\ Top.prompting
    /\ stack' = Append(stack, NewFrame)
    /\ UNCHANGED <<phase, total, posted, queue, dropped, last>>

TakeNewest ==
    /\ stack # <<>>
    /\ Top.running = NoAction
    /\ Top.count < Batch
    /\ queue # <<>>
    /\ LET a == queue[Len(queue)] IN
         /\ stack' = SetTop([Top EXCEPT !.running = a])
         /\ last' = [last EXCEPT ![a[1]] = a[2]]
    /\ queue' = SubSeq(queue, 1, Len(queue) - 1)
    /\ UNCHANGED <<phase, total, posted, dropped>>

TakeWithoutRemoving ==
    /\ stack # <<>>
    /\ Top.running = NoAction
    /\ Top.count < Batch
    /\ queue # <<>>
    /\ stack' = SetTop([Top EXCEPT !.running = Head(queue)])
    /\ last' = [last EXCEPT ![Head(queue)[1]] = Head(queue)[2]]
    /\ UNCHANGED <<phase, total, posted, dropped, queue>>

\* The innermost drain takes the oldest action and starts it.
Take ==
    /\ stack # <<>>
    /\ Top.running = NoAction
    /\ Top.count < Batch
    /\ queue # <<>>
    /\ stack' = SetTop([Top EXCEPT !.running = Head(queue)])
    /\ last' = [last EXCEPT ![Head(queue)[1]] = Head(queue)[2]]
    /\ queue' = Tail(queue)
    /\ UNCHANGED <<phase, total, posted, dropped>>

\* The action opens the minibuffer.
Prompt ==
    /\ stack # <<>>
    /\ Top.running # NoAction
    /\ ~Top.prompting
    /\ Len(stack) < MaxDepth
    /\ stack' = SetTop([Top EXCEPT !.prompting = TRUE])
    /\ UNCHANGED <<phase, total, posted, queue, dropped, last>>

\* The user answers or cancels, and the action goes on.
Answer ==
    /\ stack # <<>>
    /\ Top.prompting
    /\ stack' = SetTop([Top EXCEPT !.prompting = FALSE])
    /\ UNCHANGED <<phase, total, posted, queue, dropped, last>>

\* The action returns, or raises and is caught: the drain goes on either way.
Finish ==
    /\ stack # <<>>
    /\ Top.running # NoAction
    /\ ~Top.prompting
    /\ stack' = SetTop(Idle(Top.count + 1))
    /\ UNCHANGED <<phase, total, posted, queue, dropped, last>>

\* The drain stops at an empty channel or a full batch.
DrainEnd ==
    /\ stack # <<>>
    /\ Top.running = NoAction
    /\ Top.count = Batch \/ queue = <<>>
    /\ stack' = SubSeq(stack, 1, Len(stack) - 1)
    /\ UNCHANGED <<phase, total, posted, queue, dropped, last>>

UiThread == Tick \/ NestedTick \/ Take \/ Finish \/ DrainEnd

Next ==
    \/ \E w \in Workers : Spawn(w) \/ Return(w) \/ Post(w)
    \/ UiThread
    \/ Prompt
    \/ Answer

\* The event loop and the minibuffer loops call the master timer for ever, a
\* callback that does not wait for the user ends, and a worker that has its
\* result posts it.  A blocking call need not return, nor the user answer.
Fairness ==
    /\ WF_vars(UiThread)
    /\ \A w \in Workers : WF_vars(Post(w))

Spec == Init /\ [][Next]_vars /\ Fairness

------------------------------------------------------------------------------
(* Properties.                                                             *)

\* Every variable has its type, and the channel never holds more than its
\* capacity (async.ss *ui-queue*).
TypeOK ==
    /\ phase \in [Workers -> {"new", "blocked", "posting"}]
    /\ total \in [Workers -> 0 .. MaxLines + 1]
    /\ posted \in [Workers -> Nat]
    /\ \A w \in Workers : posted[w] <= total[w]
    /\ queue \in Seq(Action)
    /\ Len(queue) <= Capacity
    /\ dropped \in SUBSET Action
    /\ last \in [Workers -> Nat]
    /\ stack \in Seq(Frame)
    /\ Len(stack) <= MaxDepth

\* A waiting action was posted, and is later than every started one of its
\* worker.
NotPassed ==
    \A i \in DOMAIN queue :
        last[queue[i][1]] < queue[i][2] /\ queue[i][2] <= posted[queue[i][1]]

\* The waiting actions of a worker are in the order it posted them.
Increasing ==
    \A i, j \in DOMAIN queue :
        i < j /\ queue[i][1] = queue[j][1] => queue[i][2] < queue[j][2]

\* The channel keeps each worker's actions in order, each one once, and never
\* one that was started or overtaken (async.ss ui-queue-push!, ui-queue-drain!).
QueueOrdered == NotPassed /\ Increasing

Waiting(a) == \E i \in DOMAIN queue : queue[i] = a

\* Nothing is lost between push and drain: an action that was posted and that
\* no started action of its worker has passed waits in the channel or was
\* refused by it, and never both.
Accounted ==
    \A w \in Workers : \A n \in 1 .. posted[w] :
        /\ last[w] < n => (Waiting(<<w, n>>) \/ <<w, n>> \in dropped)
        /\ ~(Waiting(<<w, n>>) /\ <<w, n>> \in dropped)
        /\ n = last[w] => (~Waiting(<<w, n>>) /\ <<w, n>> \notin dropped)

\* The queue is a lossy link per worker: nothing is duplicated or overtaken,
\* however the drains nest.
Link == INSTANCE LossyFifo WITH sent <- posted, got <- last
LinkSpec == Link!Spec

\* Every action of a worker that has its result is eventually started, or was
\* refused by the full channel, even while the user never answers a prompt.
AllSettled ==
    \A w \in Workers :
        (phase[w] = "posting") ~>
            \A n \in 1 .. total[w] : last[w] >= n \/ <<w, n>> \in dropped
==============================================================================
