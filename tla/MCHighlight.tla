---------------------------- MODULE MCHighlight ----------------------------
EXTENDS Highlight

CONSTANTS b1, b2, e1, e2

MCLanguages ==
    [b \in {b1, b2} |-> IF b = b1 THEN {"c", "c++", "python", "javascript", "typescript",
                                        "rust", "go", "shell", "scheme", "json", "ruby",
                                        "java", "css", "xml", "lua"}
                        ELSE {"python"}]
MCLoaded == Grammars \ {"scheme"}
MCCompiled == MCLoaded \ {"ruby"}

Node(role, place, start, end) == [role |-> role, place |-> place, start |-> start, end |-> end]

\* A keyword and a call; a comment and a string with an escape and an
\* interpolation that holds a word.
Call == [nodes |-> <<Node("keyword", "plain", 0, 1), Node("word", "call", 1, 2)>>, length |-> 2]
Prose ==
    [nodes |-> <<Node("comment", "plain", 0, 1), Node("string", "argument", 1, 6),
                 Node("escape", "plain", 2, 3), Node("interpolation", "plain", 4, 6),
                 Node("word", "plain", 5, 6)>>, length |-> 6]

MCTexts == [b \in {b1, b2} |-> {Call, Prose}]

Symmetric == Permutations({e1, e2})
=============================================================================
