------------------------------ MODULE Highlight ------------------------------
(***************************************************************************)
(* Highlighting with tree-sitter (treesitter.ss, treesitter_shim.c,        *)
(* qt/highlight.ss and the commands that call it).                         *)
(*                                                                         *)
(* Each file has a Scintilla document of its own, which any number of      *)
(* editor widgets may show; the styles are bytes of the document.  The     *)
(* state of tree-sitter is kept per buffer, in objects of the C library,  *)
(* but drawing addresses an editor, and reaches the document that this     *)
(* editor shows.  A text is the sequence of its syntax nodes, outer ones   *)
(* before inner ones, and is ASCII.  Colours, fonts, and the languages     *)
(* that Lexilla highlights are left out.                                   *)
(***************************************************************************)
EXTENDS Integers, FiniteSets, SequencesExt, TsQueries

CONSTANTS
    Bufs,       \* buffers of files
    Scratch,    \* a buffer without a language
    Editors,    \* the editors of the windows
    Languages,  \* the languages of the files that a buffer may visit
    Texts,      \* the texts that the document of a buffer may have
    Loaded,     \* the grammars that the library accepts
    Compiled,   \* those of them whose query it compiles
    Limit,      \* 16384 captures
    MaxCommands \* bound: commands of the user

None == "none"
Absent == [name |-> None]

\* The nodes of a syntax tree lie in the text, outer ones before inner ones.
IsText(t) ==
    /\ t.length \in Nat
    /\ t.nodes \in Seq([role : STRING, place : Places, start : Nat, end : Nat])
    /\ \A i \in DOMAIN t.nodes :
          /\ t.nodes[i].start < t.nodes[i].end /\ t.nodes[i].end <= t.length
          /\ \A j \in 1 .. i - 1 : t.nodes[j].start <= t.nodes[i].start

ASSUME HighlightAssumption ==
    /\ IsFiniteSet(Bufs) /\ Scratch \notin Bufs
    /\ Compiled \subseteq Loaded /\ Loaded \subseteq Grammars
    /\ \A b \in Bufs : /\ Languages[b] \subseteq DOMAIN TsName \cup {None}
                       /\ \A t \in Texts[b] : IsText(t)
    /\ Limit \in Nat /\ MaxCommands \in Nat

Docs == Bufs \cup {Scratch}

VARIABLES
    text,       \* the text of each document
    lang,       \* the language of each buffer
    order,      \* the buffer list, newest first
    shown,      \* the document each editor shows
    current,    \* the editor of the current window
    docEditor,  \* *doc-editor-map*
    hl,         \* [state, live, styles, drawn]: see HlInit
    commands    \* commands so far

highlightVars == <<text, lang, order, shown, current, docEditor, hl, commands>>

NoText == [nodes |-> <<>>, length |-> 0]
NoTree == [nodes |-> <<>>, length |-> -1]

\* state:  *buffer-ts-state*
\* live:   how many objects of the C library have not been deleted
\* styles: the style of each byte of a document
\* drawn:  whose query they were last drawn with, and from the tree of what text
HlInit == [state  |-> [b \in Docs |-> Absent],
           live   |-> [parsers |-> 0, queries |-> 0, trees |-> 0],
           styles |-> [b \in Docs |-> <<>>],
           drawn  |-> [b \in Docs |-> Absent]]

HighlightInit ==
    /\ text = [b \in Docs |-> NoText]
    /\ lang = [b \in Docs |-> None]
    /\ order = <<Scratch>>
    /\ shown = [e \in Editors |-> Scratch]
    /\ current \in Editors
    /\ docEditor = [d \in {Scratch} |-> current]
    /\ hl = HlInit
    /\ commands = 0

------------------------------------------------------------------------------
(* What a query draws.                                                     *)

Least(m, n) == IF m <= n THEN m ELSE n

\* Whether a pattern of a query captures a node.
Matches(pattern, node) == node.role \in pattern.roles /\ node.place \in pattern.places

\* The captures at a position: what captures an outer node comes before what
\* captures a node in it, and a pattern before the later ones.
CapturesAt(query, t, p) ==
    LET Captured(i, k) ==
            IF t.nodes[i].start = p /\ Matches(query[k], t.nodes[i])
            THEN <<[start |-> p, end |-> t.nodes[i].end, pattern |-> k, node |-> i,
                    name |-> query[k].capture]>>
            ELSE <<>>
    IN FlattenSeq([i \in DOMAIN t.nodes |-> FlattenSeq([k \in DOMAIN query |-> Captured(i, k)])])

\* The order in which the library returns captures.
AllCaptures(query, t) == FlattenSeq([p \in 1 .. t.length |-> CapturesAt(query, t, p - 1)])

AllTexts == (UNION {Texts[b] : b \in Bufs}) \cup {NoText}

\* ts-query-create: the pointer of a query that does not compile is 0, which is
\* true, and captures nothing.
Query(name) == IF name \in Compiled THEN Queries[name] ELSE <<>>

\* ts_shim_highlight_captures: no more than fit into the buffer.
Captures ==
    [name \in Grammars |-> [t \in AllTexts |->
     LET all == AllCaptures(Query(name), t) IN SubSeq(all, 1, Least(Limit, Len(all)))]]

Greatest(m, n) == IF m >= n THEN m ELSE n

\* The last capture is remembered instead of the one that ends last.
DrawForgetting(acc, c) ==
    [styles |-> IF StyleOf(c.name) # Default /\ c.start >= acc.end
                THEN [p \in DOMAIN acc.styles |->
                        IF p \in c.start .. c.end - 1 THEN StyleOf(c.name) ELSE acc.styles[p]]
                ELSE acc.styles,
     end |-> c.end]

\* A capture that begins before an earlier one ends is skipped, and so is one
\* without a style, which still holds up the next ones.
Draw(acc, c) ==
    [styles |-> IF StyleOf(c.name) # Default /\ c.start >= acc.end
                THEN [p \in DOMAIN acc.styles |->
                        IF p \in c.start .. c.end - 1 THEN StyleOf(c.name) ELSE acc.styles[p]]
                ELSE acc.styles,
     end |-> Greatest(acc.end, c.end)]

\* ts-apply-captures!
Apply(styles, captures) ==
    LET after[i \in 0 .. Len(captures)] ==
            IF i = 0 THEN [styles |-> styles, end |-> 0] ELSE Draw(after[i - 1], captures[i])
    IN after[Len(captures)].styles

Plain(t) == [p \in 0 .. t.length - 1 |-> Default]

------------------------------------------------------------------------------
(* The state of a buffer.                                                  *)

\* The objects of a query.
QueryObjects(name) == IF name \in Compiled THEN 1 ELSE 0

\* ts-buffer-init!, for a buffer without a state
TsInit(h, b, name) ==
    IF name \in Loaded
    THEN [state  |-> [h.state EXCEPT ![b] = [name |-> name, parsed |-> NoTree, version |-> 0]],
          live   |-> [parsers |-> h.live.parsers + 1,
                      queries |-> h.live.queries + QueryObjects(name),
                      trees |-> h.live.trees],
          styles |-> h.styles,
          drawn  |-> h.drawn]
    ELSE h

\* The text that the new tree describes.  The old tree is passed to the parser as
\* if nothing had changed since, so that it may keep it (stale).
Parse(old, t, stale) == IF stale /\ old # NoTree THEN old ELSE t

\* ts-buffer-reparse! of buffer b through an editor that shows document d with
\* text t
Reparse(h, b, d, t, stale) ==
    LET st == h.state[b]
        parsed == Parse(st.parsed, t, stale)
    IN IF st = Absent THEN h
       ELSE [state  |-> [h.state EXCEPT ![b] = [st EXCEPT !.parsed = parsed]],
             live   |-> [h.live EXCEPT !.trees = IF st.parsed = NoTree THEN @ + 1 ELSE @],
             styles |-> [h.styles EXCEPT ![d] = Apply(Plain(t), Captures[st.name][parsed])],
             drawn  |-> [h.drawn EXCEPT ![d] = [name |-> st.name, parsed |-> parsed]]]

\* qt-setup-highlighting! of buffer b with language l, through an editor that
\* shows d with text t.
Setup(h, b, l, d, t, stale) ==
    IF l = None THEN h
    ELSE Reparse(IF h.state[b] = Absent THEN TsInit(h, b, TsName[l]) ELSE h, b, d, t, stale)

CleanupKeepingParser(h, b) ==
    IF h.state[b] = Absent THEN h
    ELSE [state  |-> [h.state EXCEPT ![b] = Absent],
          live   |-> [parsers |-> h.live.parsers,
                      queries |-> h.live.queries - QueryObjects(h.state[b].name),
                      trees |-> IF h.state[b].parsed = NoTree THEN h.live.trees
                                ELSE h.live.trees - 1],
          styles |-> h.styles,
          drawn  |-> h.drawn]

\* ts-buffer-cleanup!
Cleanup(h, b) ==
    IF h.state[b] = Absent THEN h
    ELSE [state  |-> [h.state EXCEPT ![b] = Absent],
          live   |-> [parsers |-> h.live.parsers - 1,
                      queries |-> h.live.queries - QueryObjects(h.state[b].name),
                      trees |-> IF h.state[b].parsed = NoTree THEN h.live.trees
                                ELSE h.live.trees - 1],
          styles |-> h.styles,
          drawn  |-> h.drawn]

------------------------------------------------------------------------------
(* The commands and the timer.                                             *)

Opened(b) == b \in DOMAIN docEditor

\* Document b gets text t: Scintilla gives new characters style 0.
NewText(h, b, t) ==
    [state  |-> h.state,
     live   |-> h.live,
     styles |-> [h.styles EXCEPT ![b] = Plain(t)],
     drawn  |-> [h.drawn EXCEPT ![b] = Absent]]

\* find-file of a regular file, in the current window
Open(b) ==
    /\ lang[b] = None /\ ~Opened(b) /\ \A e \in Editors : shown[e] # b
    /\ \E l \in Languages[b], t \in Texts[b] :
         /\ text' = [text EXCEPT ![b] = t]
         /\ lang' = [lang EXCEPT ![b] = l]
         /\ hl' = Setup(NewText(hl, b, t), b, l, b, t, FALSE)
    /\ order' = <<b>> \o order
    /\ shown' = [shown EXCEPT ![current] = b]
    /\ docEditor' = [d \in DOMAIN docEditor \cup {b} |-> IF d = b THEN current ELSE docEditor[d]]
    /\ UNCHANGED current

\* qt-buffer-attach!, with qt-reapply-highlighting! in its hook
Attach(b, h) ==
    /\ shown' = [shown EXCEPT ![current] = b]
    /\ \E stale \in BOOLEAN : hl' = Reparse(h, b, b, text[b], stale)

SwitchToBuffer(b) ==
    /\ Opened(b) /\ b # shown[current]
    /\ Attach(b, hl)
    /\ docEditor' = [docEditor EXCEPT ![b] = current]
    /\ UNCHANGED <<text, lang, order, current>>

OtherWindow ==
    /\ current' \in Editors \ {current}
    /\ UNCHANGED <<text, lang, order, shown, docEditor, hl>>

\* The current buffer gets another text, as by revert-buffer.
SetText ==
    LET b == shown[current] IN
    /\ b \in Bufs /\ Opened(b)
    /\ \E t \in Texts[b] \ {text[b]} :
         /\ text' = [text EXCEPT ![b] = t]
         /\ hl' = NewText(hl, b, t)
    /\ UNCHANGED <<lang, order, shown, current, docEditor>>

SetVersion(h, b, version) ==
    [state  |-> [h.state EXCEPT ![b] = [h.state[b] EXCEPT !.version = version]],
     live   |-> h.live,
     styles |-> h.styles,
     drawn  |-> h.drawn]

\* The treesitter-reparse task: an edit is noticed by the length of the text.
Tick ==
    LET b == shown[current] IN
    /\ hl.state[b] # Absent /\ hl.state[b].version # text[b].length
    /\ \E stale \in BOOLEAN :
         hl' = SetVersion(Reparse(hl, b, b, text[b], stale), b, text[b].length)
    /\ UNCHANGED <<text, lang, order, shown, current, docEditor, commands>>

\* The end of applying a theme: every buffer is set up again, each through the
\* editor it was last attached to, whatever that shows now.
SetupAll(stale) ==
    LET SetupAgain(h, b) ==
            LET d == shown[docEditor[b]] IN Setup(h, b, lang[b], d, text[d], b \in stale)
        after[i \in 0 .. Len(order)] ==
            IF i = 0 THEN hl ELSE SetupAgain(after[i - 1], order[i])
    IN after[Len(order)]

Theme ==
    /\ \E stale \in SUBSET Bufs : hl' = SetupAll(stale)
    /\ UNCHANGED <<text, lang, order, shown, current, docEditor>>

\* cmd-kill-buffer-force: the next buffer of the list is shown first.
Kill ==
    LET b == shown[current]
        rest == RemoveFirst(order, b)
        next == rest[1]
    IN
    /\ Len(order) > 1
    /\ shown' = [shown EXCEPT ![current] = next]
    /\ \E stale \in BOOLEAN : hl' = Cleanup(Reparse(hl, next, next, text[next], stale), b)
    /\ order' = rest
    /\ docEditor' = [d \in DOMAIN docEditor \ {b} |->
                       IF d = next THEN current ELSE docEditor[d]]
    /\ UNCHANGED <<text, lang, current>>

Command ==
    /\ commands < MaxCommands /\ commands' = commands + 1
    /\ \/ \E b \in Bufs : Open(b)
       \/ \E b \in Docs : SwitchToBuffer(b)
       \/ OtherWindow \/ SetText \/ Theme \/ Kill

HighlightNext == Command \/ Tick

HighlightSpec == HighlightInit /\ [][HighlightNext]_highlightVars

------------------------------------------------------------------------------
(* Properties.                                                             *)

\* The parsers, queries and trees that live in the C library are those of the
\* states: a tree that another one replaces and the objects of a killed buffer
\* are deleted, once.  A state whose query did not compile owns none
\* (treesitter.ss:318-363).
HandlesOwned ==
    LET owners == {b \in Docs : hl.state[b] # Absent} IN
    /\ hl.live.parsers = Cardinality(owners)
    /\ hl.live.queries = Cardinality({b \in owners : hl.state[b].name \in Compiled})
    /\ hl.live.trees = Cardinality({b \in owners : hl.state[b].parsed # NoTree})

\* The rule the drawing implements, said of a single byte: it has the style of
\* the first capture that covers it and begins after all earlier captures have
\* ended (treesitter.ss:260-287).
StyleByRule(captures, p) ==
    LET Draws(i) == /\ StyleOf(captures[i].name) # Default
                    /\ \A j \in 1 .. i - 1 : captures[j].end <= captures[i].start
        covering == {i \in DOMAIN captures :
                       captures[i].start <= p /\ p < captures[i].end /\ Draws(i)}
    IN IF covering = {} THEN Default
       ELSE LET first == CHOOSE i \in covering : \A j \in covering : i <= j
            IN StyleOf(captures[first].name)

Drawn == {b \in Docs : hl.drawn[b] # Absent}

\* Every document drawn has the styles of the rule, whatever overlaps there are,
\* however many captures, and whichever tree was kept.
DrawnByRule ==
    \A b \in Drawn :
        LET captures == Captures[hl.drawn[b].name][hl.drawn[b].parsed] IN
        hl.styles[b] = [p \in 0 .. text[b].length - 1 |-> StyleByRule(captures, p)]

\* Nothing that ends later begins before or with the node.
Outermost(t, i) ==
    \A j \in DOMAIN t.nodes \ {i} :
        t.nodes[j].end <= t.nodes[i].start \/ t.nodes[j].start > t.nodes[i].start

\* In every language except C++ whose query compiles, a comment or a string that
\* is part of nothing else is shown as one from end to end, with whatever
\* escapes it contains (treesitter_queries.c; the query of C++ has neither).
CommentsShown ==
    \A b \in Drawn :
        LET t == hl.drawn[b].parsed
            name == hl.drawn[b].name
        IN t = text[b] /\ name \in Compiled \ {"cpp"} /\ Len(Captures[name][t]) < Limit =>
           \A i \in DOMAIN t.nodes :
               t.nodes[i].role \in {"comment", "string"} /\ Outermost(t, i) =>
               \A p \in t.nodes[i].start .. t.nodes[i].end - 1 :
                   hl.styles[b][p] = t.nodes[i].role
==============================================================================
