------------------------------ MODULE TsQueries ------------------------------
(***************************************************************************)
(* The tree-sitter queries built into the editor                           *)
(* (support/treesitter_queries.c, treesitter_shim.c, treesitter.ss).       *)
(*                                                                         *)
(* A query is a sequence of patterns, and the order matters: of the        *)
(* captures of one node only the first is drawn.  A pattern is kept as the *)
(* roles of the nodes it captures, where they stand, and the name of the   *)
(* capture.  A role gathers the node types, or the quoted tokens, that     *)
(* every query of the language treats alike: "keyword" is any reserved     *)
(* word, "word" an identifier, "member" a field or property name,          *)
(* "constant" true, false and the like, "mark" the delimiters of an        *)
(* interpolation.  Predicates (#match?, #eq?, #any-of?, #is-not?) are      *)
(* absent, since the C library leaves them to its caller and               *)
(* treesitter_shim.c evaluates none of them.                               *)
(***************************************************************************)
EXTENDS Sequences, TLC

\* Where a node stands that a pattern asks about; "plain" is anywhere else.
Places == {"plain", "call", "argument", "definition", "parameter", "value", "path",
           "decorator", "module", "key", "label", "rename", "alias", "quoted", "list", "end"}

In(places, roles, capture) == [places |-> places, roles |-> roles, capture |-> capture]
Each(roles, capture) == In(Places, roles, capture)

BashArgumentsFirst == <<
    In({"call", "argument"}, {"word", "string", "interpolation", "number"}, "constant"),
    Each({"string"}, "string"),
    In({"call"}, {"word"}, "function"),
    Each({"member"}, "property"),
    Each({"keyword"}, "keyword"),
    Each({"comment"}, "comment"),
    In({"definition"}, {"word"}, "function"),
    Each({"descriptor"}, "number"),
    Each({"interpolation"}, "embedded"),
    Each({"operator"}, "operator") >>

Bash == <<
    Each({"string"}, "string"),
    In({"call"}, {"word"}, "function"),
    Each({"member"}, "property"),
    Each({"keyword"}, "keyword"),
    Each({"comment"}, "comment"),
    In({"definition"}, {"word"}, "function"),
    Each({"descriptor"}, "number"),
    Each({"interpolation"}, "embedded"),
    Each({"operator"}, "operator"),
    In({"call", "argument"}, {"word", "string", "interpolation", "number"}, "constant") >>

C == <<
    Each({"word"}, "variable"),
    Each({"word"}, "constant"),
    Each({"keyword"}, "keyword"),
    Each({"operator"}, "operator"),
    Each({"delimiter"}, "delimiter"),
    Each({"string"}, "string"),
    Each({"constant"}, "constant"),
    Each({"number"}, "number"),
    Each({"member"}, "property"),
    Each({"label"}, "label"),
    Each({"type"}, "type"),
    In({"call"}, {"word", "member"}, "function"),
    In({"definition"}, {"word"}, "function"),
    In({"definition"}, {"macro"}, "function.special"),
    Each({"comment"}, "comment") >>

\* Only what C++ adds to C: the query of C is not put before it.
Cpp == <<
    In({"path"}, {"word"}, "function"),
    In({"call"}, {"template", "member"}, "function"),
    In({"definition"}, {"member"}, "function"),
    In({"path"}, {"namespace"}, "type"),
    Each({"auto"}, "type"),
    Each({"this"}, "variable.builtin"),
    Each({"constant"}, "constant"),
    In({"module"}, {"word"}, "module"),
    Each({"keyword"}, "keyword"),
    Each({"raw-string"}, "string") >>

Css == <<
    Each({"comment"}, "comment"),
    Each({"tag"}, "tag"),
    Each({"operator", "connective"}, "operator"),
    In({"parameter"}, {"value"}, "string"),
    Each({"member", "value"}, "variable"),
    Each({"class", "member"}, "property"),
    In({"decorator"}, {"tag", "class"}, "attribute"),
    Each({"attribute"}, "attribute"),
    In({"call"}, {"word"}, "function"),
    Each({"keyword"}, "keyword"),
    Each({"string"}, "string"),
    Each({"colour"}, "string.special"),
    Each({"number"}, "number"),
    Each({"unit"}, "type"),
    Each({"delimiter"}, "punctuation.delimiter"),
    Each({"bracket"}, "punctuation.bracket") >>

Go == <<
    In({"call"}, {"word"}, "function"),
    In({"call"}, {"word"}, "function.builtin"),
    In({"call"}, {"member"}, "function.method"),
    In({"definition"}, {"word"}, "function"),
    In({"definition"}, {"member"}, "function.method"),
    Each({"type"}, "type"),
    Each({"member"}, "property"),
    Each({"word"}, "variable"),
    Each({"operator"}, "operator"),
    Each({"keyword"}, "keyword"),
    Each({"string"}, "string"),
    Each({"escape"}, "escape"),
    Each({"number"}, "number"),
    Each({"constant"}, "constant.builtin"),
    Each({"comment"}, "comment") >>

Html == <<
    Each({"tag"}, "tag"),
    In({"end"}, {"wrong-tag"}, "tag.error"),
    Each({"doctype"}, "constant"),
    Each({"attribute"}, "attribute"),
    Each({"string"}, "string"),
    Each({"comment"}, "comment"),
    Each({"bracket"}, "punctuation.bracket") >>

Java == <<
    Each({"word"}, "variable"),
    In({"definition", "call"}, {"word"}, "function.method"),
    Each({"super"}, "function.builtin"),
    In({"decorator"}, {"word"}, "attribute"),
    Each({"operator"}, "operator"),
    Each({"type"}, "type"),
    In({"definition", "path"}, {"word"}, "type"),
    Each({"primitive-type"}, "type.builtin"),
    Each({"word"}, "constant"),
    Each({"this"}, "variable.builtin"),
    Each({"number"}, "number"),
    Each({"string"}, "string"),
    Each({"escape"}, "string.escape"),
    Each({"constant"}, "constant.builtin"),
    Each({"comment"}, "comment"),
    Each({"keyword"}, "keyword") >>

JavaScript == <<
    Each({"word"}, "variable"),
    Each({"member"}, "property"),
    In({"definition"}, {"word"}, "function"),
    In({"definition", "value"}, {"member"}, "function.method"),
    In({"value", "call"}, {"word"}, "function"),
    In({"call"}, {"member"}, "function.method"),
    Each({"word"}, "constructor"),
    Each({"word", "shorthand"}, "constant"),
    Each({"word"}, "variable.builtin"),
    Each({"word"}, "function.builtin"),
    Each({"this"}, "variable.builtin"),
    Each({"constant"}, "constant.builtin"),
    Each({"comment"}, "comment"),
    Each({"string"}, "string"),
    Each({"regex"}, "string.special"),
    Each({"number"}, "number"),
    Each({"delimiter"}, "punctuation.delimiter"),
    Each({"operator"}, "operator"),
    Each({"bracket"}, "punctuation.bracket"),
    Each({"interpolation"}, "embedded"),
    Each({"mark"}, "punctuation.special"),
    Each({"keyword"}, "keyword") >>

Json == <<
    In({"key"}, {"string", "number"}, "string.special.key"),
    Each({"string"}, "string"),
    Each({"number"}, "number"),
    Each({"constant"}, "constant.builtin"),
    Each({"escape"}, "escape"),
    Each({"comment"}, "comment") >>

\* "keyword" are the reserved words of no construct; those of the loops and
\* conditionals have captures of their own.
Lua == <<
    Each({"return"}, "keyword.return"),
    Each({"keyword"}, "keyword"),
    Each({"label"}, "label"),
    Each({"break", "block"}, "keyword"),
    Each({"loop"}, "repeat"),
    Each({"if"}, "conditional"),
    Each({"function"}, "keyword.function"),
    Each({"operator", "connective"}, "operator"),
    Each({"connective"}, "keyword.operator"),
    Each({"delimiter"}, "punctuation.delimiter"),
    Each({"bracket"}, "punctuation.bracket"),
    Each({"word"}, "variable"),
    Each({"word"}, "variable.builtin"),
    In({"decorator"}, {"operator"}, "punctuation.bracket"),
    In({"decorator"}, {"word"}, "attribute"),
    Each({"word"}, "constant"),
    Each({"vararg"}, "constant"),
    Each({"nil"}, "constant.builtin"),
    Each({"constant"}, "boolean"),
    In({"key", "path"}, {"word"}, "field"),
    In({"list"}, {"bracket"}, "constructor"),
    In({"parameter"}, {"word"}, "parameter"),
    In({"definition"}, {"word"}, "function"),
    In({"definition"}, {"method"}, "method"),
    In({"value"}, {"word"}, "function"),
    In({"call"}, {"word"}, "function.call"),
    In({"call"}, {"method"}, "method.call"),
    In({"call"}, {"word"}, "function.builtin"),
    Each({"comment"}, "comment"),
    Each({"hash-bang"}, "preproc"),
    Each({"number"}, "number"),
    Each({"string"}, "string"),
    Each({"escape"}, "string.escape") >>

Python == <<
    Each({"word"}, "variable"),
    Each({"word"}, "constructor"),
    Each({"word"}, "constant"),
    Each({"decorator"}, "function"),
    In({"decorator"}, {"word"}, "function"),
    In({"call"}, {"member"}, "function.method"),
    In({"call"}, {"word"}, "function"),
    In({"call"}, {"word"}, "function.builtin"),
    In({"definition"}, {"word"}, "function"),
    Each({"member"}, "property"),
    Each({"type"}, "type"),
    Each({"constant"}, "constant.builtin"),
    Each({"number"}, "number"),
    Each({"comment"}, "comment"),
    Each({"string"}, "string"),
    Each({"escape"}, "escape"),
    Each({"interpolation"}, "embedded"),
    Each({"mark"}, "punctuation.special"),
    Each({"operator", "connective"}, "operator"),
    Each({"keyword"}, "keyword") >>

Ruby == <<
    Each({"word"}, "variable"),
    Each({"word"}, "function.method"),
    Each({"keyword"}, "keyword"),
    Each({"word"}, "keyword"),
    Each({"name"}, "constructor"),
    Each({"defined"}, "function.method.builtin"),
    In({"call"}, {"word", "name"}, "function.method"),
    Each({"word"}, "function.method.builtin"),
    In({"alias"}, {"word"}, "function.method"),
    In({"definition"}, {"word", "name"}, "function.method"),
    Each({"member"}, "property"),
    Each({"word"}, "constant.builtin"),
    Each({"location", "no-splat"}, "constant.builtin"),
    In({"parameter"}, {"operator"}, "operator"),
    Each({"name"}, "constant"),
    Each({"this", "super"}, "variable.builtin"),
    In({"parameter"}, {"word"}, "variable.parameter"),
    Each({"string"}, "string"),
    Each({"symbol"}, "string.special.symbol"),
    Each({"regex"}, "string.special.regex"),
    Each({"escape"}, "escape"),
    Each({"number"}, "number"),
    Each({"constant"}, "constant.builtin"),
    Each({"interpolation"}, "embedded"),
    Each({"mark"}, "punctuation.special"),
    Each({"comment"}, "comment"),
    Each({"operator"}, "operator"),
    Each({"delimiter"}, "punctuation.delimiter"),
    Each({"bracket"}, "punctuation.bracket") >>

Rust == <<
    Each({"type"}, "type"),
    Each({"primitive-type"}, "type.builtin"),
    Each({"member"}, "property"),
    Each({"word"}, "constant"),
    Each({"word"}, "constructor"),
    In({"path"}, {"word"}, "type"),
    In({"value"}, {"type"}, "constructor"),
    In({"call"}, {"word"}, "function"),
    In({"call"}, {"member"}, "function.method"),
    In({"call"}, {"macro"}, "function.macro"),
    In({"definition"}, {"word"}, "function"),
    Each({"comment"}, "comment"),
    In({"list"}, {"comment"}, "comment.documentation"),
    Each({"bracket"}, "punctuation.bracket"),
    Each({"delimiter"}, "punctuation.delimiter"),
    In({"parameter"}, {"word"}, "variable.parameter"),
    In({"label"}, {"word"}, "label"),
    Each({"keyword", "super"}, "keyword"),
    In({"path"}, {"this"}, "keyword"),
    Each({"this"}, "variable.builtin"),
    Each({"string"}, "string"),
    Each({"constant", "number"}, "constant.builtin"),
    Each({"escape"}, "escape"),
    Each({"attribute"}, "attribute"),
    Each({"operator"}, "operator") >>

\* Symbols are the words; a "call" is the first of a list.
Scheme == <<
    Each({"bracket"}, "punctuation.bracket"),
    Each({"number"}, "number"),
    Each({"constant"}, "constant.builtin"),
    Each({"word", "keyword"}, "variable"),
    Each({"string"}, "string"),
    Each({"escape"}, "escape"),
    In({"call"}, {"word", "keyword"}, "function"),
    In({"list"}, {"word", "keyword"}, "variable"),
    Each({"word", "keyword"}, "operator"),
    In({"call"}, {"word", "keyword"}, "keyword"),
    In({"call"}, {"word", "keyword"}, "function.builtin"),
    In({"quoted"}, {"word", "keyword", "number", "constant", "string"}, "constant"),
    Each({"comment"}, "comment") >>

------------------------------------------------------------------------------
(* The tables that lead from a language of the editor to its query.        *)

\* language->ts-name, for the languages that have a grammar.
TsName ==
    ("c" :> "c") @@ ("c++" :> "cpp") @@ ("python" :> "python")
    @@ ("javascript" :> "javascript") @@ ("typescript" :> "javascript")
    @@ ("rust" :> "rust") @@ ("go" :> "go") @@ ("shell" :> "bash")
    @@ ("scheme" :> "scheme") @@ ("lisp" :> "scheme") @@ ("json" :> "json")
    @@ ("ruby" :> "ruby") @@ ("java" :> "java") @@ ("css" :> "css")
    @@ ("xml" :> "html") @@ ("lua" :> "lua")

\* ts_shim_language_get: the grammars linked in.
Grammars == {"c", "cpp", "python", "javascript", "rust", "go", "bash", "json", "ruby",
             "java", "css", "html", "lua", "scheme"}

\* ts_embedded_query_get
Queries ==
    [bash |-> Bash, c |-> C, cpp |-> Cpp, css |-> Css, go |-> Go, html |-> Html,
     java |-> Java, javascript |-> JavaScript, json |-> Json, lua |-> Lua,
     python |-> Python, ruby |-> Ruby, rust |-> Rust, scheme |-> Scheme]

\* The captures of each style, by the first test of ts-capture->style-id that
\* accepts them: string.escape is a string, and a built-in function is one like
\* any other.  The rest have style 0.
Styled ==
    [keyword     |-> {"keyword", "keyword.return", "keyword.function", "keyword.operator"},
     string      |-> {"string", "string.special", "string.special.key", "string.escape",
                      "string.special.symbol", "string.special.regex"},
     comment     |-> {"comment", "comment.documentation"},
     function    |-> {"function", "function.builtin", "function.method", "function.special",
                      "function.call", "function.macro", "function.method.builtin"},
     type        |-> {"type", "type.builtin"},
     variable    |-> {"variable", "variable.builtin", "variable.parameter"},
     constant    |-> {"constant", "constant.builtin", "boolean"},
     number      |-> {"number"},
     operator    |-> {"operator"},
     property    |-> {"property", "field"},
     punctuation |-> {"punctuation.delimiter", "punctuation.bracket", "punctuation.special"},
     attribute   |-> {"attribute"},
     namespace   |-> {"module"},
     constructor |-> {"constructor"},
     tag         |-> {"tag", "tag.error"},
     escape      |-> {"escape"},
     label       |-> {"label"},
     preproc     |-> {"preproc"}]

Default == "default"

\* ts-capture->style-id
StyleOf(capture) ==
    IF \E style \in DOMAIN Styled : capture \in Styled[style]
    THEN CHOOSE style \in DOMAIN Styled : capture \in Styled[style]
    ELSE Default
==============================================================================
