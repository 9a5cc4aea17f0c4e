----------------------------- MODULE Minibuffer ------------------------------
(***************************************************************************)
(* The inline minibuffer of src/jerboa-emacs/qt/echo.ss.                   *)
(*                                                                         *)
(* Five readers share one line edit, one label, one candidate list and one *)
(* result box.  A reader blocks in a loop of its own: it processes Qt      *)
(* events, drains the signal callbacks, runs the master timer, and looks   *)
(* at the box.  A periodic task or a UI action of that timer (an LSP       *)
(* response, say) may call a reader again: `loops' holds the readers in    *)
(* progress, innermost last.                                               *)
(*                                                                         *)
(* Readers are numbered in the order they are called.  Texts, candidates   *)
(* and prompts are abstracted to the number of the reader they belong to,  *)
(* None standing for an empty text and for a cancelled read.               *)
(***************************************************************************)
EXTENDS Naturals, Sequences

CONSTANTS
    Kinds,       \* the readers in use, a subset of AllKinds
    MaxPrompts,  \* bound: calls of a reader
    MaxDepth     \* bound: readers in progress at once

AllKinds == {"string", "completion", "file", "narrow", "fileNarrow"}
Narrowing == {"narrow", "fileNarrow"}

ASSUME MinibufferAssumption ==
    /\ Kinds \subseteq AllKinds
    /\ MaxPrompts \in Nat /\ MaxDepth \in Nat \ {0}

VARIABLES
    loops,          \* the readers in progress
    opened,         \* how many readers were called
    active,         \* *minibuffer-active?*
    result,         \* *mb-result*
    label,          \* whose prompt the label shows
    input,          \* whose text the line edit holds
    list,           \* *mb-filtered*: whose candidates are listed
    narrowing,      \* *mb-narrowing?*
    fileNarrowing,  \* *mb-file-narrowing?*
    fileMode,       \* *mb-file-mode*
    completions,    \* *mb-completions*
    candidates,     \* *mb-all-candidates*
    basePrompt,     \* *mb-narrowing-prompt*
    chord,          \* a key waits for the second one of its chord
    returned,       \* history: what each reader returned
    mixed,          \* history: the readers that were in progress with another
    nestedKey,      \* history: an editor key was dispatched inside a reader's loop
    slipped         \* history: the chord timer replayed a key inside one

widgets == <<label, input, list>>
modes   == <<narrowing, fileNarrowing, fileMode, completions, candidates, basePrompt>>
history == <<returned, mixed, nestedKey, slipped>>
vars    == <<loops, opened, active, result, widgets, modes, chord, history>>

None    == 0
Prompts == 1 .. MaxPrompts
Running == MaxPrompts + 1       \* the box is #f
Answers == {None} \cup Prompts

Top == loops[Len(loops)]
Ids == {loops[i].id : i \in DOMAIN loops}
SetPhase(p) == [loops EXCEPT ![Len(loops)].phase = p]

Init ==
    /\ loops = <<>> /\ opened = 0 /\ active = FALSE /\ result = Running
    /\ label = None /\ input = None /\ list = None
    /\ narrowing = FALSE /\ fileNarrowing = FALSE /\ fileMode = FALSE
    /\ completions = None /\ candidates = None /\ basePrompt = None
    /\ chord = FALSE
    /\ returned = [p \in Prompts |-> Running]
    /\ mixed = {} /\ nestedKey = FALSE /\ slipped = FALSE

------------------------------------------------------------------------------
(* Calling a reader, and its return.                                       *)

OpenKeepingResult(k) ==
    LET p == opened + 1 IN
    /\ opened < MaxPrompts /\ Len(loops) < MaxDepth
    /\ opened' = p
    /\ loops' = Append(loops, [id |-> p, kind |-> k, phase |-> "events"])
    /\ active' = TRUE /\ result' = result
    /\ label' = p
    /\ input' = IF k = "fileNarrow" THEN p ELSE None
    /\ list' \in IF k \in Narrowing THEN {None, p} ELSE {list}
    /\ narrowing' = (k \in Narrowing \/ narrowing)
    /\ fileNarrowing' = (k = "fileNarrow" \/ fileNarrowing)
    /\ fileMode' = (k = "file" \/ fileMode)
    /\ completions' = IF k = "completion" THEN p
                      ELSE IF k = "file" THEN None ELSE completions
    /\ candidates' = IF k = "narrow" THEN list'
                     ELSE IF k = "fileNarrow" THEN None ELSE candidates
    /\ basePrompt' = IF k \in Narrowing THEN p ELSE basePrompt
    /\ mixed' = IF loops = <<>> THEN mixed ELSE mixed \cup {p} \cup Ids
    /\ UNCHANGED returned

\* The reader sets the label and the line edit, switches its own modes on
\* (and leaves the other ones alone), and empties the result box.
Open(k) ==
    LET p == opened + 1 IN
    /\ opened < MaxPrompts /\ Len(loops) < MaxDepth
    /\ opened' = p
    /\ loops' = Append(loops, [id |-> p, kind |-> k, phase |-> "events"])
    /\ active' = TRUE /\ result' = Running
    /\ label' = p
    /\ input' = IF k = "fileNarrow" THEN p ELSE None
    /\ list' \in IF k \in Narrowing THEN {None, p} ELSE {list}
    /\ narrowing' = (k \in Narrowing \/ narrowing)
    /\ fileNarrowing' = (k = "fileNarrow" \/ fileNarrowing)
    /\ fileMode' = (k = "file" \/ fileMode)
    /\ completions' = IF k = "completion" THEN p
                      ELSE IF k = "file" THEN None ELSE completions
    /\ candidates' = IF k = "narrow" THEN list'
                     ELSE IF k = "fileNarrow" THEN None ELSE candidates
    /\ basePrompt' = IF k \in Narrowing THEN p ELSE basePrompt
    /\ mixed' = IF loops = <<>> THEN mixed ELSE mixed \cup {p} \cup Ids
    /\ UNCHANGED returned

ReturnEmptyingBox ==
    LET k == Top.kind IN
    /\ loops # <<>>
    /\ Top.phase = "tick" /\ result # Running
    /\ loops' = SubSeq(loops, 1, Len(loops) - 1)
    /\ returned' = [returned EXCEPT ![Top.id] = result]
    /\ active' = FALSE
    /\ result' = Running
    /\ narrowing' = (narrowing /\ k \notin Narrowing)
    /\ fileNarrowing' = (fileNarrowing /\ k # "fileNarrow")
    /\ candidates' = IF k \in Narrowing THEN None ELSE candidates
    /\ list' = IF k \in Narrowing THEN None ELSE list
    /\ fileMode' = (fileMode /\ k # "file")
    /\ completions' = IF k \in {"completion", "file"} THEN None ELSE completions
    /\ UNCHANGED <<opened, label, input, basePrompt, chord, mixed, nestedKey, slipped>>

ReturnLeavingFileNarrowing ==
    LET k == Top.kind IN
    /\ loops # <<>>
    /\ Top.phase = "tick" /\ result # Running
    /\ loops' = SubSeq(loops, 1, Len(loops) - 1)
    /\ returned' = [returned EXCEPT ![Top.id] = result]
    /\ active' = FALSE
    /\ narrowing' = (narrowing /\ k \notin Narrowing)
    /\ candidates' = IF k \in Narrowing THEN None ELSE candidates
    /\ list' = IF k \in Narrowing THEN None ELSE list
    /\ fileMode' = (fileMode /\ k # "file")
    /\ completions' = IF k \in {"completion", "file"} THEN None ELSE completions
    /\ UNCHANGED <<opened, result, label, input, basePrompt, chord, mixed, nestedKey, slipped,
                    fileNarrowing>>

\* The box is full: the innermost reader returns its content, switches its
\* modes off and hides the minibuffer.  The box stays full.
Return ==
    LET k == Top.kind IN
    /\ loops # <<>>
    /\ Top.phase = "tick" /\ result # Running
    /\ loops' = SubSeq(loops, 1, Len(loops) - 1)
    /\ returned' = [returned EXCEPT ![Top.id] = result]
    /\ active' = FALSE
    /\ narrowing' = (narrowing /\ k \notin Narrowing)
    /\ fileNarrowing' = (fileNarrowing /\ k # "fileNarrow")
    /\ candidates' = IF k \in Narrowing THEN None ELSE candidates
    /\ list' = IF k \in Narrowing THEN None ELSE list
    /\ fileMode' = (fileMode /\ k # "file")
    /\ completions' = IF k \in {"completion", "file"} THEN None ELSE completions
    /\ UNCHANGED <<opened, result, label, input, basePrompt, chord, mixed, nestedKey, slipped>>

------------------------------------------------------------------------------
(* Who calls a reader.                                                     *)

\* Qt events are processed by the event loop, or by the innermost reader.
ProcessingEvents == loops # <<>> => Top.phase = "events"

\* The editor's key handler ignores keys while a minibuffer is active;
\* otherwise the key may be bound to a command that reads.
Key(k) ==
    /\ ProcessingEvents
    /\ ~active
    /\ chord' = FALSE
    /\ nestedKey' = (nestedKey \/ loops # <<>>)
    /\ UNCHANGED slipped
    /\ Open(k)

\* A key that may begin a chord is kept until the next one or the timeout.
ChordStart ==
    /\ ProcessingEvents
    /\ ~active /\ ~chord
    /\ chord' = TRUE
    /\ nestedKey' = (nestedKey \/ loops # <<>>)
    /\ UNCHANGED <<loops, opened, active, result, widgets, modes, returned, mixed, slipped>>

\* The chord timer replays the key: it inserts a character, or runs a command
\* that may read.  It does not look at *minibuffer-active?*.
ChordTimeout ==
    /\ ProcessingEvents
    /\ chord
    /\ chord' = FALSE
    /\ slipped' = (slipped \/ loops # <<>>)
    /\ UNCHANGED nestedKey
    /\ \/ \E k \in Kinds : Open(k)
       \/ UNCHANGED <<loops, opened, active, result, widgets, modes, returned, mixed>>

TaskReadsAnywhere(k) ==
    /\ Open(k)
    /\ UNCHANGED <<chord, nestedKey, slipped>>

\* A periodic task or a UI action reads: from the event loop's timer, or from
\* the timer that the innermost reader runs.
TaskReads(k) ==
    /\ loops # <<>> => Top.phase = "tick"
    /\ Open(k)
    /\ UNCHANGED <<chord, nestedKey, slipped>>

------------------------------------------------------------------------------
(* The innermost reader's loop.                                            *)

\* Once the box is full the loop waits for more events before it looks at it.
EventsEndWhenEmpty ==
    /\ loops # <<>>
    /\ Top.phase = "events" /\ result = Running
    /\ loops' = SetPhase("tick")
    /\ UNCHANGED <<opened, active, result, widgets, modes, chord, history>>

EventsEnd ==
    /\ loops # <<>>
    /\ Top.phase = "events"
    /\ loops' = SetPhase("tick")
    /\ UNCHANGED <<opened, active, result, widgets, modes, chord, history>>

Turn ==
    /\ loops # <<>>
    /\ Top.phase = "tick" /\ result = Running
    /\ loops' = SetPhase("events")
    /\ UNCHANGED <<opened, active, result, widgets, modes, chord, history>>

UserAt == loops # <<>> /\ Top.phase = "events"

\* The text of the line edit changes: the narrowing modes filter their
\* candidates again, or list a directory, and rewrite the label.
TextChanged ==
    IF narrowing
      THEN /\ label' = basePrompt
           /\ list' \in {None, IF fileNarrowing THEN basePrompt ELSE candidates}
      ELSE UNCHANGED <<label, list>>

\* The user types for the prompt on the label.
Type ==
    /\ UserAt
    /\ input' = label
    /\ TextChanged
    /\ UNCHANGED <<loops, opened, active, result, modes, chord, history>>

\* Tab completes the input outside the narrowing modes.
Tab ==
    /\ UserAt
    /\ ~narrowing
    /\ IF fileMode THEN input' = label ELSE completions # None /\ input' = completions
    /\ UNCHANGED <<loops, opened, active, result, label, list, modes, chord, history>>

\* Enter fills the box: with the typed text, or with the selected candidate
\* where a narrowing mode has one (the file browser prefers either, by what
\* was typed).
Enter ==
    /\ UserAt
    /\ result' \in IF narrowing /\ list # None
                     THEN IF fileNarrowing THEN {input, list} ELSE {list}
                     ELSE {input}
    /\ UNCHANGED <<loops, opened, active, widgets, modes, chord, history>>

\* Enter on a directory of the file browser descends into it.
Descend ==
    /\ UserAt
    /\ fileNarrowing /\ list # None
    /\ input' = list
    /\ TextChanged
    /\ UNCHANGED <<loops, opened, active, result, modes, chord, history>>

Escape ==
    /\ UserAt
    /\ result' = None
    /\ UNCHANGED <<loops, opened, active, widgets, modes, chord, history>>

LoopStep == EventsEnd \/ Turn \/ Return

Next ==
    \/ \E k \in Kinds : Key(k) \/ TaskReads(k)
    \/ ChordStart \/ ChordTimeout
    \/ LoopStep
    \/ Type \/ Tab \/ Enter \/ Descend \/ Escape

\* A reader's loop turns for ever; the user need not answer.
Spec == Init /\ [][Next]_vars /\ WF_vars(LoopStep)

------------------------------------------------------------------------------
(* Properties.                                                             *)

\* Every variable has its type, and the readers nest: unless the chord timer
\* called one, only the innermost is processing events.
TypeOK ==
    /\ loops \in Seq([id : Prompts, kind : Kinds, phase : {"events", "tick"}])
    /\ Len(loops) <= MaxDepth
    /\ slipped \/ \A i \in 1 .. Len(loops) - 1 : loops[i].phase = "tick"
    /\ opened \in 0 .. MaxPrompts
    /\ result \in {Running} \cup Answers
    /\ {label, input, list, completions, candidates, basePrompt} \subseteq Answers
    /\ {active, narrowing, fileNarrowing, fileMode, chord, nestedKey, slipped} \subseteq BOOLEAN
    /\ returned \in [Prompts -> {Running} \cup Answers]
    /\ mixed \subseteq Prompts

\* app.ss:917: "ignore editor keystrokes while minibuffer is blocking".  The
\* key handler dispatches no key inside a reader's loop, although an inner
\* reader switches *minibuffer-active?* off while outer ones still block.  The
\* chord timer, which does not look at it, is the one exception.
NoNestedKeys == nestedKey => slipped

\* A reader leaves nothing behind: when none is in progress all the modes are
\* off, the candidates are gone and the key handler listens.
NothingLeft ==
    loops = <<>> => /\ ~active /\ ~narrowing /\ ~fileNarrowing /\ ~fileMode
                    /\ completions = None /\ candidates = None /\ list = None

\* echo.ss:624: a reader "returns [the] selected string or #f if cancelled": a
\* reader returns its own text or candidate, never another reader's.
OwnAnswer == \A p \in Prompts : returned[p] \in {Running, None, p}

\* A reader that was never in progress with another one returns its own text
\* or candidate, whatever the readers before it left in the box, the line edit
\* and the lists (qt-echo-read-string and the other readers).
AloneAnswer == \A p \in Prompts \ mixed : returned[p] \in {Running, None, p}

\* An answer in the box ends the reader: every reader in progress returns, or
\* another one is called.
AnswerEnds ==
    \A n \in 0 .. MaxPrompts :
        (result # Running /\ opened = n) ~> (loops = <<>> \/ opened > n)
==============================================================================
