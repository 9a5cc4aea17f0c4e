-------------------------------- MODULE Winner -------------------------------
(***************************************************************************)
(* Winner mode (qt/commands-core.ss): undo and redo of window commands.    *)
(*                                                                         *)
(* Each window command first saves a configuration: the names of the       *)
(* buffers shown, in the order of the split tree, and the name of the      *)
(* selected buffer.  Undo and redo do not rebuild the tree; they delete    *)
(* the last windows or split the selected one until the number of windows  *)
(* is right, then attach the saved buffers in order.                       *)
(***************************************************************************)
EXTENDS QtFrame

CONSTANT MaxHistory     \* *winner-max-history*

ASSUME WinnerAssumption == MaxHistory \in Nat \ {0}

VARIABLES
    history,    \* *winner-history*, the latest configuration first
    future      \* *winner-future*

vars == <<fr, history, future>>

\* winner-snapshot-tree read back by winner-snapshot-leaf-names: the buffers of
\* the leaves in order.  The orientations saved with them are never read.
LeafNames(f) ==
    LET leaves == Flatten(f.children, f.root)
    IN [i \in DOMAIN leaves |-> f.buffer[leaves[i]]]

\* winner-current-config
Config(f) == [names |-> LeafNames(f), name |-> f.buffer[Current(f)]]

\* At most MaxHistory configurations are kept.
Pushed(h) == IF Len(h) > MaxHistory THEN SubSeq(h, 1, MaxHistory) ELSE h

SaveKeepingFuture ==
    /\ history' = Pushed(<<Config(fr)>> \o history)
    /\ UNCHANGED future

\* winner-save!: what was undone can no longer be redone.
Save ==
    /\ history' = Pushed(<<Config(fr)>> \o history)
    /\ future' = <<>>

DeleteLast(f) == DeleteFrame(f, Len(f.windows) - 1)

\* Phase 1 of winner-restore-config!: n windows, one deletion or split at a time.
AdjustCount(f, n) ==
    LET k == Len(f.windows)
        d == IF k > n THEN k - n ELSE n - k
        after[i \in 0 .. d] ==
            IF i = 0 THEN f
            ELSE IF k > n THEN DeleteLast(after[i - 1]) ELSE SplitFrame(after[i - 1], "v")
    IN after[d]

\* Phase 2: the saved buffers are attached in order.
Assign(f, names) ==
    [f EXCEPT !.buffer = [w \in DOMAIN @ |-> names[IndexOf(f.windows, w)]]]

\* Phase 3: the first window that shows the saved buffer is selected.
SelectByName(f, b) ==
    LET found == {i \in DOMAIN f.windows : f.buffer[f.windows[i]] = b}
        first == IF found = {} THEN 1 ELSE CHOOSE i \in found : \A j \in found : i <= j
    IN [f EXCEPT !.current = first - 1]

\* winner-restore-config!
Restore(f, config) ==
    SelectByName(Assign(AdjustCount(f, Len(config.names)), config.names), config.name)

\* The bound on the windows ever made holds for those of a redo too.
Affordable(config) ==
    fr.made + Len(config.names) - Len(fr.windows) <= MaxWindows

------------------------------------------------------------------------------
WinnerInit == Init /\ history = <<>> /\ future = <<>>

\* The window commands, which save the configuration first.
Saved(Command) == Save /\ Command

CmdSplitWindow(o) == Saved(SplitWindow(o))
CmdDeleteWindow == Saved(DeleteWindow)
CmdDeleteOtherWindows == Saved(DeleteOtherWindows)

\* The commands that change no configuration.
CmdOther ==
    /\ OtherWindow \/ \E b \in Buffers : SwitchToBuffer(b)
    /\ UNCHANGED <<history, future>>

UndoForgettingCurrent ==
    /\ history # <<>>
    /\ Affordable(Head(history))
    /\ future' = <<Head(history)>> \o future
    /\ history' = Tail(history)
    /\ fr' = Restore(fr, Head(history))

\* cmd-winner-undo
Undo ==
    /\ history # <<>>
    /\ Affordable(Head(history))
    /\ future' = <<Config(fr)>> \o future
    /\ history' = Tail(history)
    /\ fr' = Restore(fr, Head(history))

\* cmd-winner-redo
Redo ==
    /\ future # <<>>
    /\ Affordable(Head(future))
    /\ history' = <<Config(fr)>> \o history
    /\ future' = Tail(future)
    /\ fr' = Restore(fr, Head(future))

WinnerNext ==
    \/ \E o \in Orientations : CmdSplitWindow(o)
    \/ CmdDeleteWindow
    \/ CmdDeleteOtherWindows
    \/ CmdOther
    \/ Undo
    \/ Redo

WinnerSpec == WinnerInit /\ [][WinnerNext]_vars

------------------------------------------------------------------------------
(* Properties.                                                             *)

\* The two stacks together never exceed the limit, although a redo pushes on
\* the history without cutting it (commands-core.ss cmd-winner-redo).
HistoryBounded == Len(history) + Len(future) <= MaxHistory

Shows(f, config) ==
    /\ [i \in DOMAIN f.windows |-> f.buffer[f.windows[i]]] = config.names
    /\ f.buffer[Current(f)] = config.name

\* Whether windows had to be deleted or made, after an undo or a redo as many
\* windows as were saved show the saved buffers in order and the selected one
\* shows the saved buffer; and a redo right after the undo would show again
\* what the undo took away (winner-restore-config!, cmd-winner-undo).
BuffersRestored ==
    [][/\ Undo => /\ Shows(fr', Head(history))
                  /\ Shows(Restore(fr', Head(future')), Config(fr))
       /\ Redo => Shows(fr', Head(future))]_vars

==============================================================================
