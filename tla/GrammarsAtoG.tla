-------------------- MODULE GrammarsAtoG --------------------
(***************************************************************************)
(* The mode graphs of the highlighter's grammars whose names begin with     *)
(* A to G: what each language function of remark.js returns, as the tables     *)
(* HighlightModes describes.                                                *)
(***************************************************************************)
EXTENDS HighlightModes

Abnf == [
    language |-> Mode({}, <<"ruleDeclarationMode", "COMMENT", "span">>),
    ruleDeclarationMode |-> Mode({"returnBegin"}, <<"span">>),
    COMMENT |-> Mode({"className"}, <<"text", "span">>)]

Actionscript == [
    language |-> Mode({}, <<"APOS_STRING_MODE", "QUOTE_STRING_MODE", "span", "class", "class2",
        "function", "text">>),
    APOS_STRING_MODE |-> Mode({"className"}, <<"text">>),
    QUOTE_STRING_MODE |-> Mode({"className"}, <<"text", "span">>),
    class |-> Mode({"className"}, <<"span">>),
    class2 |-> Mode({"className", "excludeEnd"}, <<"text", "span">>),
    function |-> Mode({"className", "excludeEnd"}, <<"span", "params", "text">>),
    params |-> Mode({"className"}, <<"APOS_STRING_MODE", "QUOTE_STRING_MODE", "span">>)]

Ada == [
    language |-> Mode({}, <<"COMMENT", "string", "span", "title", "L4260", "type3", "VAR_DECLS">>),
    COMMENT |-> Mode({"className"}, <<"text", "span">>),
    string |-> Mode({"className"}, <<"text">>),
    title |-> Mode({"className", "excludeBegin", "excludeEnd"}, <<>>),
    L4260 |-> Mode({"returnBegin"}, <<"COMMENT", "title", "VAR_DECLS", "type2">>),
    VAR_DECLS |-> Mode({}, <<"L4192", "span", "type">>),
    L4192 |-> Mode({"endsParent"}, <<>>),
    type |-> Mode({"className", "endsParent"}, <<>>),
    type2 |-> Mode({"className", "excludeBegin", "excludeEnd", "endsParent"}, <<>>),
    type3 |-> Mode({"className", "excludeBegin"}, <<>>)]

Apache == [
    language |-> Mode({}, <<"COMMENT", "span", "attribute">>),
    COMMENT |-> Mode({"className"}, <<"text", "span">>),
    attribute |-> Starts({"className"}, <<>>, "L4459"),
    L4459 |-> Mode({"noBegin"}, <<"span", "variable", "COMMENT">>),
    variable |-> Mode({"className"}, <<"self", "span">>)]

Arcade == [
    language |-> Mode({}, <<"APOS_STRING_MODE", "QUOTE_STRING_MODE", "TEMPLATE_STRING", "span",
        "NUMBER", "L4651", "L4661", "function2", "text">>),
    APOS_STRING_MODE |-> Mode({"className"}, <<"text">>),
    QUOTE_STRING_MODE |-> Mode({"className"}, <<"text", "span">>),
    TEMPLATE_STRING |-> Mode({"className"}, <<"text", "SUBST">>),
    SUBST |-> Mode({"className"}, <<"APOS_STRING_MODE", "QUOTE_STRING_MODE", "TEMPLATE_STRING",
        "NUMBER", "REGEXP_MODE">>),
    NUMBER |-> Variants(<<"span">>),
    REGEXP_MODE |-> Mode({"className"}, <<"text", "L3205">>),
    L3205 |-> Mode({}, <<"text">>),
    L4651 |-> Mode({}, <<"L4654">>),
    L4654 |-> Mode({"returnBegin"}, <<"span">>),
    L4661 |-> Mode({}, <<"QUOTE_STRING_MODE", "REGEXP_MODE", "function">>),
    function |-> Mode({"className", "returnBegin"}, <<"params">>),
    params |-> Variants(<<"span", "L4682">>),
    L4682 |-> Mode({"className", "excludeBegin", "excludeEnd"}, <<"APOS_STRING_MODE",
        "QUOTE_STRING_MODE", "TEMPLATE_STRING", "NUMBER", "REGEXP_MODE">>),
    function2 |-> Mode({"className", "excludeEnd"}, <<"span", "L4682">>)]

Asciidoc == [
    language |-> Mode({}, <<"COMMENT", "span", "text", "section", "meta", "L5002", "strong",
        "L5089">>),
    COMMENT |-> Mode({"className"}, <<"text", "span">>),
    section |-> Variants(<<"span">>),
    meta |-> Mode({"className", "excludeEnd"}, <<>>),
    L5002 |-> Mode({}, <<"L5006">>),
    L5006 |-> Mode({"subLanguage"}, <<>>),
    strong |-> Mode({"className"}, <<"text">>),
    L5089 |-> Mode({"returnBegin"}, <<"text", "span", "string">>),
    string |-> Mode({"className", "excludeBegin", "excludeEnd"}, <<>>)]

Aspectj == [
    language |-> Mode({}, <<"COMMENT", "APOS_STRING_MODE", "class", "L5190", "L5204", "text",
        "function", "span">>),
    COMMENT |-> Mode({"className"}, <<"text", "span">>),
    APOS_STRING_MODE |-> Mode({"className"}, <<"text">>),
    class |-> Mode({"className", "excludeEnd"}, <<"text", "span">>),
    L5190 |-> Mode({}, <<"L5197">>),
    L5197 |-> Mode({"returnBegin"}, <<"span">>),
    L5204 |-> Mode({"returnBegin"}, <<"text", "COMMENT">>),
    function |-> Mode({"className", "returnBegin", "excludeEnd"}, <<"L5197", "params", "COMMENT">>),
    params |-> Mode({"className"}, <<"APOS_STRING_MODE", "COMMENT", "span">>)]

Axapta == [
    language |-> Mode({}, <<"COMMENT", "APOS_STRING_MODE", "span", "class">>),
    COMMENT |-> Mode({"className"}, <<"text", "span">>),
    APOS_STRING_MODE |-> Mode({"className"}, <<"text">>),
    class |-> Mode({"className", "excludeEnd"}, <<"text", "span">>)]

Bash == [
    language |-> Mode({}, <<"span", "function", "COMMENT", "QUOTE_STRING", "text", "VAR">>),
    function |-> Mode({"className", "returnBegin"}, <<"span">>),
    COMMENT |-> Mode({"className"}, <<"text", "span">>),
    QUOTE_STRING |-> Mode({"className"}, <<"text", "VAR", "variable">>),
    VAR |-> Variants(<<"span">>),
    variable |-> Mode({"className"}, <<"text">>)]

Bnf == [
    language |-> Mode({}, <<"span", "L5790">>),
    L5790 |-> Starts({}, <<>>, "L5792"),
    L5792 |-> Mode({"noBegin"}, <<"text", "COMMENT", "APOS_STRING_MODE">>),
    COMMENT |-> Mode({"className"}, <<"text", "span">>),
    APOS_STRING_MODE |-> Mode({"className"}, <<"text">>)]

Brainfuck == [
    language |-> Mode({}, <<"COMMENT", "span", "L5841">>),
    COMMENT |-> Mode({"className", "returnEnd"}, <<"text", "span">>),
    L5841 |-> Mode({"returnBegin"}, <<"span">>)]

Cal == [
    language |-> Mode({}, <<"STRING_", "span", "OBJECT", "PROCEDURE">>),
    STRING_ |-> Mode({"className"}, <<"text">>),
    OBJECT |-> Mode({"className", "returnBegin"}, <<"span", "PROCEDURE">>),
    PROCEDURE |-> Mode({"className"}, <<"span", "params", "COMMENT">>),
    params |-> Mode({"className"}, <<"STRING_", "span">>),
    COMMENT |-> Mode({"className"}, <<"text", "span">>)]

Capnproto == [
    language |-> Mode({}, <<"QUOTE_STRING_MODE", "span", "class">>),
    QUOTE_STRING_MODE |-> Mode({"className"}, <<"text", "span">>),
    class |-> Mode({"className"}, <<"TITLE_MODE">>),
    TITLE_MODE |-> Starts({"className"}, <<>>, "L5973"),
    L5973 |-> Mode({"excludeEnd", "endsWithParent", "noBegin"}, <<>>)]

Ceylon == [
    language |-> Mode({}, <<"COMMENT", "COMMENT2", "span", "string">>),
    COMMENT |-> Mode({"className"}, <<"text", "span">>),
    COMMENT2 |-> Mode({"className"}, <<"self", "text", "span">>),
    string |-> Mode({"className"}, <<"SUBST">>),
    SUBST |-> Mode({"className", "excludeBegin", "excludeEnd"}, <<"span", "string">>)]

Clojure == [
    language |-> Mode({}, <<"LIST", "COMMENT", "span", "COMMENT2", "COLLECTION">>),
    LIST |-> Mode({}, <<"COMMENT", "NAME", "BODY">>),
    COMMENT |-> Mode({"className"}, <<"text", "span">>),
    NAME |-> Starts({"className"}, <<>>, "BODY"),
    BODY |-> Mode({"endsWithParent", "noBegin"}, <<"LIST", "COMMENT", "span", "COMMENT2",
        "COLLECTION", "text">>),
    COMMENT2 |-> Mode({"className"}, <<"COLLECTION">>),
    COLLECTION |-> Mode({}, <<"LIST", "COMMENT", "span", "COMMENT2", "COLLECTION", "text">>)]

ClojureRepl == [
    language |-> Mode({}, <<"meta">>),
    meta |-> Starts({"className"}, <<>>, "L6107"),
    L6107 |-> Mode({"subLanguage", "noBegin"}, <<>>)]

Coffeescript == [
    language |-> Mode({}, <<"span", "C_NUMBER_MODE", "string", "regexp", "text", "L6352",
        "COMMENT", "function", "L6394", "class", "L6422">>),
    C_NUMBER_MODE |-> Starts({"className"}, <<>>, "L6309"),
    L6309 |-> Mode({"noBegin"}, <<>>),
    string |-> Variants(<<"L6313", "L6321">>),
    L6313 |-> Mode({"className"}, <<"text">>),
    L6321 |-> Mode({"className"}, <<"text", "SUBST">>),
    SUBST |-> Mode({"className"}, <<"span", "C_NUMBER_MODE", "string", "regexp", "text", "L6352">>),
    regexp |-> Variants(<<"L6334", "span">>),
    L6334 |-> Mode({"className"}, <<"SUBST", "COMMENT">>),
    COMMENT |-> Mode({"className"}, <<"text", "span">>),
    L6352 |-> Variants(<<"L6356">>),
    L6356 |-> Mode({"excludeBegin", "excludeEnd", "subLanguage"}, <<>>),
    function |-> Mode({"className", "returnBegin"}, <<"span", "PARAMS">>),
    PARAMS |-> Mode({"className", "returnBegin"}, <<"L6374">>),
    L6374 |-> Mode({}, <<"self", "span", "C_NUMBER_MODE", "string", "regexp", "text", "L6352">>),
    L6394 |-> Mode({}, <<"function2">>),
    function2 |-> Mode({"className", "returnBegin"}, <<"PARAMS">>),
    class |-> Mode({"className"}, <<"L6413", "span">>),
    L6413 |-> Mode({"endsWithParent"}, <<"span">>),
    L6422 |-> Mode({"returnBegin", "returnEnd"}, <<>>)]

Coq == [
    language |-> Mode({}, <<"QUOTE_STRING_MODE", "span", "type", "text">>),
    QUOTE_STRING_MODE |-> Mode({"className"}, <<"text", "span">>),
    type |-> Mode({"className", "excludeBegin"}, <<>>)]

Cos == [
    language |-> Mode({}, <<"span", "STRINGS", "COMMENT", "L6612", "L6622">>),
    STRINGS |-> Variants(<<"STRINGS2">>),
    STRINGS2 |-> Mode({"className"}, <<"text">>),
    COMMENT |-> Mode({"className"}, <<"text", "span">>),
    L6612 |-> Mode({"excludeBegin", "excludeEnd", "subLanguage"}, <<>>),
    L6622 |-> Mode({"subLanguage"}, <<>>)]

Cpp == [
    language |-> Mode({}, <<"span", "COMMENT", "NUMBERS", "STRINGS", "PREPROCESSOR", "L3335",
        "text", "L3344", "function", "class">>),
    COMMENT |-> Mode({"className"}, <<"text", "span">>),
    NUMBERS |-> Variants(<<"span">>),
    STRINGS |-> Variants(<<"STRINGS2", "span">>),
    STRINGS2 |-> Mode({"className"}, <<"text">>),
    PREPROCESSOR |-> Mode({"className"}, <<"text", "STRINGS", "span", "COMMENT">>),
    L3335 |-> Mode({}, <<"self", "span">>),
    L3344 |-> Variants(<<"L3349">>),
    L3355 |-> Mode({}, <<"span", "COMMENT", "NUMBERS", "STRINGS", "self">>),
    L3349 |-> Mode({}, <<"span", "COMMENT", "NUMBERS", "STRINGS", "L3355">>),
    function |-> Mode({"className", "returnBegin", "excludeEnd"}, <<"L3372", "params", "COMMENT",
        "PREPROCESSOR">>),
    L3372 |-> Mode({"returnBegin"}, <<"span">>),
    params |-> Mode({"className"}, <<"COMMENT", "STRINGS", "NUMBERS", "span", "L3355">>),
    class |-> Mode({"className"}, <<"L3413", "span">>),
    L3413 |-> Mode({}, <<"self">>)]

Crmsh == [
    language |-> Mode({}, <<"COMMENT", "L6666", "L6676", "L6686", "span">>),
    COMMENT |-> Mode({"className"}, <<"text", "span">>),
    L6666 |-> Starts({}, <<>>, "L6668"),
    L6668 |-> Starts({"noBegin"}, <<>>, "title"),
    title |-> Mode({"className", "noBegin"}, <<>>),
    L6676 |-> Starts({}, <<>>, "title2"),
    title2 |-> Starts({"className", "noBegin"}, <<>>, "L6681"),
    L6681 |-> Mode({"noBegin"}, <<>>),
    L6686 |-> Starts({}, <<>>, "title")]

Crystal == [
    language |-> Mode({}, <<"EXPANSION", "STRING_", "Q_STRING", "REGEXP", "ATTRIBUTE",
        "QUOTE_STRING_MODE", "class", "class2", "L6860", "function", "span", "symbol", "number">>),
    EXPANSION |-> Variants(<<"EXPANSION2">>),
    STRING_ |-> Variants(<<"REGEXP2", "Q_STRING2">>),
    SUBST |-> Mode({"className"}, <<"EXPANSION", "STRING_", "Q_STRING", "REGEXP", "ATTRIBUTE",
        "QUOTE_STRING_MODE", "class", "class2", "L6860", "function", "span", "symbol", "number">>),
    Q_STRING |-> Variants(<<"Q_STRING2", "span">>),
    Q_STRING2 |-> Mode({"className"}, <<"L6766">>),
    L6766 |-> Mode({}, <<"L6766">>),
    REGEXP2 |-> Mode({"className"}, <<"text", "SUBST">>),
    REGEXP |-> Mode({}, <<"regexp">>),
    regexp |-> Variants(<<"REGEXP2">>),
    ATTRIBUTE |-> Mode({"className"}, <<"QUOTE_STRING_MODE">>),
    QUOTE_STRING_MODE |-> Mode({"className"}, <<"text", "span">>),
    class |-> Mode({"className"}, <<"QUOTE_STRING_MODE", "span", "text">>),
    class2 |-> Mode({"className"}, <<"QUOTE_STRING_MODE", "span">>),
    L6860 |-> Mode({}, <<"QUOTE_STRING_MODE", "span">>),
    function |-> Mode({"className"}, <<"TITLE_MODE">>),
    TITLE_MODE |-> Mode({"className", "endsParent"}, <<>>),
    symbol |-> Mode({"className"}, <<"STRING_", "text">>),
    number |-> Variants(<<"span">>),
    EXPANSION2 |-> Mode({"className"}, <<"STRING_", "Q_STRING", "REGEXP", "ATTRIBUTE",
        "QUOTE_STRING_MODE", "class", "class2", "L6860", "function", "span", "symbol", "number">>)]

Cs == [
    language |-> Mode({}, <<"COMMENT", "COMMENT2", "span", "STRING_", "NUMBERS", "L7051", "meta",
        "text", "function">>),
    COMMENT |-> Mode({"className", "returnBegin"}, <<"NUMBERS", "text", "span">>),
    NUMBERS |-> Variants(<<"span">>),
    COMMENT2 |-> Mode({"className"}, <<"text", "span">>),
    STRING_ |-> Variants(<<"STRING_2", "VERBATIM_STRING", "COMMENT2">>),
    STRING_2 |-> Mode({"className"}, <<"text", "SUBST">>),
    SUBST |-> Mode({"className"}, <<"STRING_2", "VERBATIM_STRING", "COMMENT2", "NUMBERS">>),
    VERBATIM_STRING |-> Mode({"className"}, <<"text">>),
    L7051 |-> Mode({}, <<"span", "COMMENT2">>),
    meta |-> Mode({"className", "excludeBegin", "excludeEnd"}, <<"span">>),
    function |-> Mode({"className", "returnBegin", "excludeEnd"}, <<"L7089", "params", "COMMENT2">>),
    L7089 |-> Mode({"returnBegin"}, <<"span">>),
    params |-> Mode({"className", "excludeBegin", "excludeEnd"}, <<"STRING_", "NUMBERS",
        "COMMENT2">>)]

Csp == [
    language |-> Mode({}, <<"span", "attribute">>),
    attribute |-> Mode({"className", "excludeEnd"}, <<>>)]

Css == [
    language |-> Mode({}, <<"COMMENT", "span", "selector_attr", "text", "L7216", "L7241">>),
    COMMENT |-> Mode({"className"}, <<"text", "span">>),
    selector_attr |-> Mode({"className", "nullIllegal"}, <<>>),
    L7216 |-> Mode({}, <<"span", "L7227">>),
    L7227 |-> Mode({"excludeEnd", "endsWithParent"}, <<"APOS_STRING_MODE", "COMMENT", "span">>),
    APOS_STRING_MODE |-> Mode({"className"}, <<"text">>),
    L7241 |-> Mode({}, <<"COMMENT", "RULE">>),
    RULE |-> Mode({"returnBegin", "endsWithParent", "end"}, <<"attribute">>),
    attribute |-> Starts({"className", "excludeEnd"}, <<>>, "L7156"),
    L7156 |-> Mode({"excludeEnd", "endsWithParent", "noBegin"}, <<"L7159", "span", "COMMENT",
        "APOS_STRING_MODE">>),
    L7159 |-> Mode({"returnBegin"}, <<"span", "L7166">>),
    L7166 |-> Mode({}, <<"APOS_STRING_MODE", "COMMENT">>)]

Dart == [
    language |-> Mode({}, <<"STRING_", "COMMENT", "COMMENT2", "class", "span", "text">>),
    STRING_ |-> Variants(<<"span", "STRING_2">>),
    STRING_2 |-> Mode({"className"}, <<"text", "SUBST", "BRACED_SUBST">>),
    SUBST |-> Variants(<<"span">>),
    BRACED_SUBST |-> Variants(<<"BRACED_SUBST2">>),
    BRACED_SUBST2 |-> Mode({"className"}, <<"span", "STRING_">>),
    COMMENT |-> Mode({"className", "subLanguage"}, <<"text", "span">>),
    COMMENT2 |-> Mode({"className"}, <<"text", "span">>),
    class |-> Mode({"className", "excludeEnd"}, <<"text", "span">>)]

Delphi == [
    language |-> Mode({}, <<"STRING_", "span", "CLASS", "FUNCTION", "DIRECTIVE", "COMMENT">>),
    STRING_ |-> Mode({"className"}, <<"text">>),
    CLASS |-> Mode({"returnBegin"}, <<"span">>),
    FUNCTION |-> Mode({"className"}, <<"span", "params", "DIRECTIVE", "COMMENT">>),
    params |-> Mode({"className"}, <<"STRING_", "span", "DIRECTIVE", "COMMENT">>),
    DIRECTIVE |-> Variants(<<"span">>),
    COMMENT |-> Mode({"className"}, <<"text", "span">>)]

Django == [
    language |-> Mode({"subLanguage"}, <<"COMMENT", "template_tag", "template_variable">>),
    COMMENT |-> Mode({"className"}, <<"text", "span">>),
    template_tag |-> Mode({"className"}, <<"name">>),
    name |-> Starts({"className"}, <<>>, "L7807"),
    L7807 |-> Mode({"endsWithParent", "noBegin"}, <<"FILTER">>),
    FILTER |-> Mode({}, <<"COMMENT", "APOS_STRING_MODE">>),
    APOS_STRING_MODE |-> Mode({"className"}, <<"text">>),
    template_variable |-> Mode({"className"}, <<"FILTER">>)]

Dockerfile == [
    language |-> Mode({}, <<"COMMENT", "APOS_STRING_MODE", "span", "L7876">>),
    COMMENT |-> Mode({"className"}, <<"text", "span">>),
    APOS_STRING_MODE |-> Mode({"className"}, <<"text">>),
    L7876 |-> Starts({}, <<>>, "L7878"),
    L7878 |-> Mode({"subLanguage", "noBegin"}, <<>>)]

Dsconfig == [
    language |-> Mode({}, <<"keyword", "span", "COMMENT">>),
    keyword |-> Mode({"className", "excludeEnd"}, <<>>),
    COMMENT |-> Mode({"className"}, <<"text", "span">>)]

Dts == [
    language |-> Mode({}, <<"DTS_ROOT_NODE", "span", "DTS_NODE", "DTS_CELL_PROPERTY", "COMMENT",
        "NUMBERS", "STRINGS", "PREPROCESSOR", "text">>),
    DTS_ROOT_NODE |-> Mode({"className"}, <<"span", "DTS_NODE", "DTS_CELL_PROPERTY", "COMMENT",
        "NUMBERS", "STRINGS">>),
    DTS_NODE |-> Mode({"className", "returnBegin", "excludeEnd"}, <<>>),
    DTS_CELL_PROPERTY |-> Mode({"className"}, <<"NUMBERS", "span">>),
    NUMBERS |-> Variants(<<"span">>),
    COMMENT |-> Mode({"className"}, <<"text", "span">>),
    STRINGS |-> Variants(<<"COMMENT", "STRINGS2", "span">>),
    STRINGS2 |-> Mode({"className"}, <<"text">>),
    PREPROCESSOR |-> Mode({"className"}, <<"text", "L8036", "STRINGS", "COMMENT">>),
    L8036 |-> Mode({}, <<"STRINGS", "span">>)]

Dust == [
    language |-> Mode({"subLanguage"}, <<"template_tag", "span">>),
    template_tag |-> Mode({"className"}, <<"name">>),
    name |-> Starts({"className"}, <<>>, "L8149"),
    L8149 |-> Mode({"endsWithParent", "noBegin"}, <<"QUOTE_STRING_MODE">>),
    QUOTE_STRING_MODE |-> Mode({"className"}, <<"text", "span">>)]

Elixir == [
    language |-> Mode({}, <<"STRING_", "COMMENT", "FUNCTION", "text", "symbol", "span", "L8280">>),
    STRING_ |-> Variants(<<"L8289">>),
    SUBST |-> Mode({"className"}, <<"STRING_", "COMMENT", "FUNCTION", "text", "symbol", "span",
        "L8280">>),
    COMMENT |-> Mode({"className"}, <<"text", "span">>),
    FUNCTION |-> Mode({"className"}, <<"TITLE_MODE">>),
    TITLE_MODE |-> Mode({"className", "endsParent"}, <<>>),
    symbol |-> Mode({"className"}, <<"STRING_", "text">>),
    L8280 |-> Mode({}, <<"COMMENT", "STRING_">>),
    L8289 |-> Mode({"className"}, <<"text", "SUBST">>)]

Erb == [
    language |-> Mode({"subLanguage"}, <<"COMMENT", "L8418">>),
    COMMENT |-> Mode({"className"}, <<"text", "span">>),
    L8418 |-> Mode({"excludeBegin", "excludeEnd", "subLanguage"}, <<>>)]

Erlang == [
    language |-> Mode({}, <<"function", "COMMENT", "L8609", "span", "RECORD_ACCESS", "text",
        "TUPLE">>),
    function |-> Starts({"className", "returnBegin"}, <<"PARAMS", "span">>, "L8602"),
    PARAMS |-> Mode({"className"}, <<"COMMENT", "text", "BLOCK_STATEMENTS", "FUNCTION_CALL",
        "span", "TUPLE", "RECORD_ACCESS">>),
    COMMENT |-> Mode({"className"}, <<"text", "span">>),
    BLOCK_STATEMENTS |-> Mode({}, <<"COMMENT", "text", "APOS_STRING_MODE", "BLOCK_STATEMENTS",
        "FUNCTION_CALL", "span", "TUPLE", "RECORD_ACCESS">>),
    APOS_STRING_MODE |-> Mode({}, <<"text">>),
    FUNCTION_CALL |-> Mode({"returnBegin"}, <<"text", "L8513">>),
    L8513 |-> Mode({"returnEnd", "endsWithParent", "end"}, <<"COMMENT", "text", "BLOCK_STATEMENTS",
        "FUNCTION_CALL", "span", "TUPLE", "RECORD_ACCESS">>),
    TUPLE |-> Mode({}, <<"COMMENT", "text", "BLOCK_STATEMENTS", "FUNCTION_CALL", "span", "TUPLE",
        "RECORD_ACCESS">>),
    RECORD_ACCESS |-> Mode({"returnBegin"}, <<"text", "TUPLE">>),
    L8602 |-> Mode({"noBegin"}, <<"COMMENT", "text", "BLOCK_STATEMENTS", "FUNCTION_CALL", "span",
        "TUPLE", "RECORD_ACCESS">>),
    L8609 |-> Mode({"returnBegin", "excludeEnd"}, <<"PARAMS">>)]

Excel == [
    language |-> Mode({}, <<"L8646", "symbol", "span", "text", "QUOTE_STRING_MODE", "COMMENT">>),
    L8646 |-> Mode({"returnEnd"}, <<>>),
    symbol |-> Mode({"className", "excludeEnd"}, <<>>),
    QUOTE_STRING_MODE |-> Mode({"className"}, <<"text", "span">>),
    COMMENT |-> Mode({"className", "excludeBegin", "excludeEnd"}, <<"text", "span">>)]

Fix == [
    language |-> Mode({}, <<"L8691">>),
    L8691 |-> Mode({"returnBegin", "excludeEnd"}, <<"attr", "string">>),
    attr |-> Mode({"className", "returnEnd"}, <<>>),
    string |-> Mode({"className", "excludeBegin", "excludeEnd"}, <<>>)]

Flix == [
    language |-> Mode({}, <<"COMMENT", "span", "STRING_", "METHOD">>),
    COMMENT |-> Mode({"className"}, <<"text", "span">>),
    STRING_ |-> Variants(<<"span">>),
    METHOD |-> Mode({"className", "excludeEnd"}, <<"span">>)]

Fortran == [
    language |-> Mode({}, <<"APOS_STRING_MODE", "QUOTE_STRING_MODE", "function", "number">>),
    APOS_STRING_MODE |-> Mode({"className"}, <<"text">>),
    QUOTE_STRING_MODE |-> Mode({"className"}, <<"text", "span">>),
    function |-> Mode({"className"}, <<"span">>),
    number |-> Mode({"className", "hollow"}, <<>>)]

Fsharp == [
    language |-> Mode({}, <<"span", "string", "COMMENT", "class">>),
    string |-> Mode({"className"}, <<"text">>),
    COMMENT |-> Mode({"className"}, <<"text", "span">>),
    class |-> Mode({"className", "excludeEnd"}, <<"span", "TYPEPARAM">>),
    TYPEPARAM |-> Mode({}, <<"span">>)]

Gams == [
    language |-> Mode({}, <<"COMMENT", "meta", "APOS_STRING_MODE", "L9015", "L9030", "function",
        "span", "SYMBOLS">>),
    COMMENT |-> Mode({"className"}, <<"text", "span">>),
    meta |-> Mode({"className", "returnBegin"}, <<"span">>),
    APOS_STRING_MODE |-> Mode({"className"}, <<"text">>),
    L9015 |-> Mode({}, <<"COMMENT", "APOS_STRING_MODE", "ASSIGNMENT", "DESCTEXT">>),
    ASSIGNMENT |-> Mode({}, <<"QSTR", "COMMENT", "APOS_STRING_MODE", "span">>),
    QSTR |-> Variants(<<"APOS_STRING_MODE">>),
    DESCTEXT |-> Mode({"excludeBegin", "endsWithParent", "end"}, <<"QSTR", "ASSIGNMENT", "span">>),
    L9030 |-> Mode({"returnBegin"}, <<"L9035", "COMMENT", "APOS_STRING_MODE", "span">>),
    L9035 |-> Mode({}, <<"DESCTEXT">>),
    function |-> Mode({"className", "returnBegin"}, <<"span", "PARAMS", "SYMBOLS">>),
    PARAMS |-> Mode({"className", "excludeBegin", "excludeEnd"}, <<>>),
    SYMBOLS |-> Variants(<<"span">>)]

Gauss == [
    language |-> Mode({}, <<"span", "COMMENT", "STRING_REF", "PREPROCESSOR", "COMMENT2", "L9340",
        "L9351", "FUNCTION_REF", "STRUCT_TYPE">>),
    COMMENT |-> Mode({"className"}, <<"text", "span">>),
    STRING_REF |-> Mode({"className"}, <<"text">>),
    PREPROCESSOR |-> Mode({"className"}, <<"text", "STRUCT_TYPE", "COMMENT">>),
    STRUCT_TYPE |-> Mode({}, <<"span">>),
    COMMENT2 |-> Mode({"className", "excludeEnd"}, <<"params", "span", "COMMENT">>),
    params |-> Mode({"className", "excludeBegin", "excludeEnd", "endsWithParent", "end"}, <<"span",
        "COMMENT", "STRUCT_TYPE">>),
    L9340 |-> Mode({}, <<"COMMENT", "FUNCTION_REF_PARAMS">>),
    FUNCTION_REF_PARAMS |-> Mode({}, <<"span", "COMMENT", "FUNCTION_REF", "STRING_REF", "self">>),
    FUNCTION_REF |-> Mode({"returnBegin"}, <<"text", "span", "FUNCTION_REF_PARAMS">>),
    L9351 |-> Variants(<<"text">>)]

Go == [
    language |-> Mode({}, <<"COMMENT", "string", "number", "text", "function">>),
    COMMENT |-> Mode({"className"}, <<"text", "span">>),
    string |-> Variants(<<"COMMENT", "span">>),
    number |-> Variants(<<"span">>),
    function |-> Mode({"className", "excludeEnd"}, <<"span">>)]

============================================================
